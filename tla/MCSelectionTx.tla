--------------------------- MODULE MCSelectionTx ---------------------------
(* Two students, two courses, three requests: 1 and 2 race for course 1,   *)
(* and 1 also asks for course 2.  The tables to start with make the race   *)
(* for a last place, a slot clash, a short credit limit, a closed course   *)
(* and a disabled student happen.                                          *)
EXTENDS SelectionTx, FiniteSetsExt

MCStudents == {1, 2}
MCCourses == {1, 2}

Course(status, capacity, credit, slot) ==
  [status |-> status, capacity |-> capacity, selected |-> 0,
   credit |-> credit, slot |-> slot]
Student(status, limit) == [status |-> status, used |-> 0, limit |-> limit]

MCRequestKey == [r \in {"r1", "r2", "r3"} |->
                   CASE r = "r1" -> <<1, 1>>
                     [] r = "r2" -> <<2, 1>>
                     [] r = "r3" -> <<1, 2>>]
MCKeyRank == [k \in MCStudents \X MCCourses |-> 2 * k[1] + k[2]]

MCCourseTables ==
  {<<Course(1, 1, 2, 1), Course(1, 2, 3, 2)>>,   \* one place in course 1
   <<Course(1, 2, 2, 0), Course(1, 1, 2, 0)>>,   \* the same slot, 0
   <<Course(1, 2, 2, 1), Course(0, 1, 2, 2)>>}   \* course 2 closed
MCStudentTables ==
  {<<Student(1, 5), Student(1, 5)>>,
   <<Student(1, 4), Student(0, 5)>>}

(* What Credits adds up is what adding the numbers one by one gives.       *)
ASSUME SumsAreSums ==
  \A f \in [1..3 -> 0..3], S \in SUBSET (1..3) :
    SumOver(f, S) = MapThenSumSet(LAMBDA x : f[x], S)
=============================================================================
