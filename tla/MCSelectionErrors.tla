--------------------------- MODULE MCSelectionErrors ---------------------------
(* Two students race for course 1 and 1 also asks for course 2, of which it *)
(* can afford one; statements fail, and an administrator moves capacity,    *)
(* status, credit and slot of a course and a student's limit and status.    *)
EXTENDS SelectionErrors, TLC

MCStudents == {1, 2}
MCCourses == {1, 2}

Course(status, capacity, credit, slot) ==
  [status |-> status, capacity |-> capacity, selected |-> 0,
   credit |-> credit, slot |-> slot]
Student(status, limit) == [status |-> status, used |-> 0, limit |-> limit]

MCRequestKey == [r \in {"r1", "r2", "r3"} |->
                   CASE r = "r1" -> <<1, 1>>
                     [] r = "r2" -> <<2, 1>>
                     [] r = "r3" -> <<1, 2>>]
MCKeyRank == [k \in MCStudents \X MCCourses |-> 2 * k[1] + k[2]]

MCCourseTables == {<<Course(1, 2, 2, 1), Course(1, 1, 3, 2)>>}
MCStudentTables == {<<Student(1, 4), Student(1, 4)>>}
MCCourseEdits ==
  {[capacity |-> 1], [status |-> 0], [credit |-> 3, slot |-> 2]}
MCStudentEdits == {[limit |-> 1], [status |-> 0]}

(* Nothing tells the sessions apart.                                       *)
MCSymmetry == Permutations(Sessions)
=============================================================================
