---------------------------- MODULE CourseAdmin ----------------------------
(***************************************************************************)
(* An administrator edits courses and students while transactions run.     *)
(*                                                                         *)
(* UpdateCourse reads the course without a lock, checks the edit against   *)
(* that copy and then updates the edited columns: the update waits for the *)
(* row lock of a running grab or drop, the checks do not.  UpdateStudentByNo *)
(* checks nothing against the row, so it is the update alone.  The cache   *)
(* invalidations that follow are not part of MySQL's state.                *)
(***************************************************************************)
EXTENDS SelectionTx

CONSTANTS
  CourseEdits,   \* what the form may send: functions on some of CourseColumns
  StudentEdits   \* the same for students

CourseColumns == {"status", "capacity", "credit", "slot"}
StudentColumns == {"status", "limit"}

(* What the handlers let through.  The range of a course's status, slot    *)
(* and credit is checked first, that of its capacity in Allowed; a         *)
(* student's limit and status may be any integers.                         *)
ASSUME EditAssumption ==
  /\ \A e \in CourseEdits :
       /\ DOMAIN e \subseteq CourseColumns
       /\ "status" \in DOMAIN e => e.status \in {0, 1}
       /\ \A f \in DOMAIN e \cap {"slot", "credit"} : e[f] \in Nat
       /\ "capacity" \in DOMAIN e => e.capacity \in Int
  /\ \A e \in StudentEdits :
       /\ DOMAIN e \subseteq StudentColumns
       /\ \A f \in DOMAIN e : e[f] \in Int

VARIABLES
  editing,   \* the course whose form is being handled, or None
  edit,      \* the accepted edit: checked, not yet written
  editorRow  \* the unlocked copy of the course row

adminVars == <<vars, editing, edit, editorRow>>
editor == <<editing, edit, editorRow>>

NoEdit == [f \in {} |-> 0]

(* row with the columns of e replaced                                      *)
With(row, e) ==
  [f \in DOMAIN row |-> IF f \in DOMAIN e THEN e[f] ELSE row[f]]

AdminInit == Init /\ editing = None /\ edit = NoEdit /\ editorRow = NoCourseRow
-----------------------------------------------------------------------------
(* The checks of UpdateCourse, column by column, on the copy it has read.  *)
Allowed(row, e) ==
  LET new == With(row, e) IN
    /\ new.capacity > 0
    /\ "capacity" \in DOMAIN e => new.capacity >= row.selected
    /\ row.selected > 0 => /\ "status" \in DOMAIN e => new.status = 1
                           /\ new.slot = row.slot
                           /\ new.credit = row.credit

(* SELECT without FOR UPDATE: the last committed row.                      *)
ReadCourse(c) ==
  /\ editing = None
  /\ editing' = c
  /\ editorRow' = courses[c]
  /\ UNCHANGED <<vars, edit>>

(* An edit that fails a check is answered with an error.                   *)
CheckEdit(e) ==
  /\ editing # None
  /\ edit = NoEdit
  /\ IF Allowed(editorRow, e)
     THEN edit' = e /\ UNCHANGED <<editing, editorRow>>
     ELSE editing' = None /\ editorRow' = NoCourseRow /\ UNCHANGED edit
  /\ UNCHANGED vars

FaultyWriteCourse ==  \* saves the whole row it has read, not the edited columns
  /\ editing # None
  /\ edit # NoEdit
  /\ courseLock[editing] = None
  /\ courses' = [courses EXCEPT ![editing] = With(editorRow, edit)]
  /\ editing' = None /\ edit' = NoEdit /\ editorRow' = NoCourseRow
  /\ UNCHANGED <<students, enrollments, requests, locks, local>>

(* UPDATE courses SET <the edited columns>: waits for the row's lock.      *)
WriteCourse ==
  /\ editing # None
  /\ edit # NoEdit
  /\ courseLock[editing] = None
  /\ courses' = [courses EXCEPT ![editing] = With(@, edit)]
  /\ editing' = None /\ edit' = NoEdit /\ editorRow' = NoCourseRow
  /\ UNCHANGED <<students, enrollments, requests, locks, local>>

EditStudent(s, e) ==
  /\ studentLock[s] = None
  /\ students' = [students EXCEPT ![s] = With(@, e)]
  /\ UNCHANGED <<courses, enrollments, requests, locks, local, editor>>

BeginEdit ==
  \/ \E c \in Courses : ReadCourse(c)
  \/ \E s \in Students, e \in StudentEdits : EditStudent(s, e)

EndEdit ==
  \/ \E e \in CourseEdits : CheckEdit(e)
  \/ WriteCourse

AdminNext ==
  \/ Next /\ UNCHANGED editor
  \/ BeginEdit
  \/ EndEdit

AdminSpec == AdminInit /\ [][AdminNext]_adminVars
-----------------------------------------------------------------------------
(* README: an edit keeps the capacity at or above the number of selections *)
(* and, once students have selected a course, cannot close it or change    *)
(* its credit and time slot.                                               *)
EditsRespectSelections ==
  [][\A c \in Courses :
       courses[c].selected > 0 /\ courses'[c].selected > 0 =>
         /\ courses'[c].selected <= courses'[c].capacity
         /\ courses[c].status = 1 => courses'[c].status = 1
         /\ courses'[c].credit = courses[c].credit
         /\ courses'[c].slot = courses[c].slot]_adminVars
=============================================================================
