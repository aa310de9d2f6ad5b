--------------------------- MODULE MCCourseAdmin ---------------------------
(* The two races for course 1 of MCSelectionTx beside an administrator who *)
(* moves its capacity, status, credit and slot and one student's limit and *)
(* status.                                                                 *)
EXTENDS CourseAdmin

MCStudents == {1, 2}
MCCourses == {1}
MCRequestKey == [r \in {"r1", "r2"} |-> IF r = "r1" THEN <<1, 1>> ELSE <<2, 1>>]
MCKeyRank == [k \in MCStudents \X MCCourses |-> 2 * k[1] + k[2]]
MCCourseTables ==
  {<<[status |-> 1, capacity |-> 2, selected |-> 0, credit |-> 2, slot |-> 1]>>}
MCStudentTables ==
  {<<[status |-> 1, used |-> 0, limit |-> 4], [status |-> 1, used |-> 0, limit |-> 4]>>}
MCCourseEdits ==
  [{"capacity"} -> {1, 2}] \cup [{"status"} -> {0, 1}]
    \cup {[credit |-> 3, slot |-> 2]}
MCStudentEdits == [{"limit"} -> {1, 4}] \cup [{"status"} -> {0, 1}]
=============================================================================
