------------------------- MODULE SelectionErrorsProofs -------------------------
(***************************************************************************)
(* Proofs about SelectionErrors: students, the worker and an administrator *)
(* at once, and statements that fail, for any number of all of them.       *)
(***************************************************************************)
EXTENDS SelectionErrors, SelectionTxProofs

ErrorCases ==
  \/ Next /\ UNCHANGED errors
  \/ \E c \in Courses : ReadCourse(c) /\ UNCHANGED errors
  \/ \E s \in Students, e \in StudentEdits : EditStudent(s, e) /\ UNCHANGED errors
  \/ \E e \in CourseEdits : CheckEdit(e) /\ UNCHANGED errors
  \/ WriteCourse /\ UNCHANGED errors
  \/ \E p \in Sessions : StatementFails(p)

LEMMA ErrorNextCases == ASSUME ErrorNext PROVE ErrorCases
  BY DEF ErrorNext, ErrorCases, BeginEdit, EndEdit

(***************************************************************************)
(* Types.  The editor's copy may be out of date but is a course's row, and *)
(* the edit in hand has passed the checks against it.                      *)
(***************************************************************************)
EditorOK ==
  /\ editing \in Courses \cup {None}
  /\ editorRow \in CourseRow
  /\ edit # NoEdit => /\ editing # None
                      /\ edit \in CourseEdits
                      /\ Allowed(editorRow, edit)

Sound == TypeOK /\ Rows /\ EditorOK /\ errors \in Nat

LEMMA EditedCourse ==
  ASSUME NEW row \in CourseRow, NEW e \in CourseEdits,
         "capacity" \in DOMAIN e => e.capacity \in Nat
  PROVE  /\ With(row, e) \in CourseRow
         /\ With(row, e).selected = row.selected
  <1>1. /\ "selected" \notin DOMAIN e
        /\ "status" \in DOMAIN e => e.status \in {0, 1}
        /\ "slot" \in DOMAIN e => e.slot \in Nat
        /\ "credit" \in DOMAIN e => e.credit \in Nat
    BY EditAssumption DEF CourseColumns
  <1>2. /\ DOMAIN row = {"status", "capacity", "selected", "credit", "slot"}
        /\ row.status \in {0, 1} /\ row.capacity \in Nat /\ row.selected \in Nat
        /\ row.credit \in Nat /\ row.slot \in Nat
    BY DEF CourseRow
  <1>3. With(row, e) = [status |-> With(row, e).status,
                        capacity |-> With(row, e).capacity,
                        selected |-> With(row, e).selected,
                        credit |-> With(row, e).credit,
                        slot |-> With(row, e).slot]
    BY <1>2 DEF With
  <1>4. /\ With(row, e).status \in {0, 1} /\ With(row, e).capacity \in Nat
        /\ With(row, e).selected = row.selected
        /\ With(row, e).credit \in Nat /\ With(row, e).slot \in Nat
    BY <1>1, <1>2 DEF With
  <1>5. QED
    BY <1>2, <1>3, <1>4 DEF CourseRow

LEMMA EditedStudent ==
  ASSUME NEW row \in StudentRow, NEW e \in StudentEdits
  PROVE  With(row, e) \in StudentRow /\ With(row, e).used = row.used
  <1>1. /\ "used" \notin DOMAIN e
        /\ "status" \in DOMAIN e => e.status \in Int
        /\ "limit" \in DOMAIN e => e.limit \in Int
    BY EditAssumption DEF StudentColumns
  <1>2. /\ DOMAIN row = {"status", "used", "limit"}
        /\ row.status \in Int /\ row.used \in Nat /\ row.limit \in Int
    BY DEF StudentRow
  <1>3. With(row, e) = [status |-> With(row, e).status, used |-> With(row, e).used,
                        limit |-> With(row, e).limit]
    BY <1>2 DEF With
  <1>4. /\ With(row, e).status \in Int /\ With(row, e).used = row.used
        /\ With(row, e).limit \in Int
    BY <1>1, <1>2 DEF With
  <1>5. QED
    BY <1>2, <1>3, <1>4 DEF StudentRow

(* What UpdateCourse writes: one unlocked row, its counter excepted.       *)
LEMMA WriteCourseWrites ==
  ASSUME TypeOK, EditorOK, WriteCourse
  PROVE  /\ editing \in Courses /\ courseLock[editing] = None
         /\ courses' = [courses EXCEPT ![editing] = With(courses[editing], edit)]
         /\ With(courses[editing], edit) \in CourseRow
         /\ With(courses[editing], edit).selected = courses[editing].selected
         /\ UNCHANGED <<students, enrollments, requests, locks, local>>
  <1>1. /\ editing \in Courses /\ courseLock[editing] = None
        /\ edit \in CourseEdits /\ Allowed(editorRow, edit)
    BY DEF WriteCourse, EditorOK
  <1>2. "capacity" \in DOMAIN edit => edit.capacity \in Nat
    <2>1. "capacity" \in DOMAIN editorRow
      BY DEF EditorOK, CourseRow
    <2>2. With(editorRow, edit).capacity > 0
      BY <1>1 DEF Allowed
    <2>3. "capacity" \in DOMAIN edit => edit.capacity > 0 /\ edit.capacity \in Int
      BY <1>1, <2>1, <2>2, EditAssumption DEF With
    <2>4. QED
      BY <2>3
  <1>3. courses[editing] \in CourseRow
    BY <1>1 DEF TypeOK
  <1>4. QED
    BY <1>1, <1>2, <1>3, EditedCourse DEF WriteCourse

LEMMA EditorNext ==
  ASSUME Sound, ErrorNext
  PROVE  EditorOK' /\ errors' \in Nat
  <1>1. errors' \in Nat
    BY ErrorNextCases DEF ErrorCases, Sound, StatementFails
  <1>2. ASSUME UNCHANGED editor PROVE EditorOK'
    BY <1>2 DEF Sound, EditorOK, editor
  <1>3. ASSUME NEW c \in Courses, ReadCourse(c) PROVE EditorOK'
    <2>1. edit' = edit /\ editing' = c /\ editorRow' = courses[c] /\ editing = None
      BY <1>3 DEF ReadCourse
    <2>2. QED
      BY <2>1 DEF Sound, EditorOK, TypeOK
  <1>4. ASSUME NEW e \in CourseEdits, CheckEdit(e) PROVE EditorOK'
    BY <1>4 DEF CheckEdit, Sound, EditorOK, NoCourseRow, CourseRow
  <1>5. ASSUME WriteCourse PROVE EditorOK'
    BY <1>5 DEF WriteCourse, Sound, EditorOK, NoCourseRow, CourseRow
  <1>6. \/ UNCHANGED editor
        \/ \E c \in Courses : ReadCourse(c)
        \/ \E e \in CourseEdits : CheckEdit(e)
        \/ WriteCourse
    BY DEF ErrorNext, BeginEdit, EndEdit, EditStudent, StatementFails
  <1>7. QED
    BY <1>1, <1>2, <1>3, <1>4, <1>5, <1>6

-----------------------------------------------------------------------------
(***************************************************************************)
(* Locks.  An edit waits for the row's lock, and a failing statement has   *)
(* written to rows of its own only.                                        *)
(***************************************************************************)
LEMMA FailWrites ==
  ASSUME NEW p \in Sessions, StatementFails(p)
  PROVE  Finish(p) /\ pc[p] # "idle" /\ OwnWrites(p)
  BY DEF StatementFails, LostWrites, CountWritten, CreditWritten, OwnWrites

LEMMA EditUndisturbs ==
  ASSUME TypeOK, EditorOK, NEW q \in Sessions,
         \/ \E c \in Courses : ReadCourse(c)
         \/ \E s \in Students, e \in StudentEdits : EditStudent(s, e)
         \/ \E e \in CourseEdits : CheckEdit(e)
         \/ WriteCourse
  PROVE  Undisturbed(q)
  <1>1. CASE (\E c \in Courses : ReadCourse(c)) \/ (\E e \in CourseEdits : CheckEdit(e))
    BY <1>1 DEF ReadCourse, CheckEdit, vars, Undisturbed
  <1>2. ASSUME NEW s \in Students, NEW e \in StudentEdits, EditStudent(s, e)
        PROVE  Undisturbed(q)
    BY <1>2, NoneAssumption DEF EditStudent, TypeOK, Undisturbed, locks, local
  <1>3. CASE WriteCourse
    BY <1>3, WriteCourseWrites, NoneAssumption DEF TypeOK, Undisturbed, locks, local
  <1>4. QED
    BY <1>1, <1>2, <1>3

LEMMA EditTypes ==
  ASSUME TypeOK, EditorOK,
         \/ \E c \in Courses : ReadCourse(c)
         \/ \E s \in Students, e \in StudentEdits : EditStudent(s, e)
         \/ \E e \in CourseEdits : CheckEdit(e)
         \/ WriteCourse
  PROVE  TypeOK'
  <1>1. CASE (\E c \in Courses : ReadCourse(c)) \/ (\E e \in CourseEdits : CheckEdit(e))
    BY <1>1 DEF ReadCourse, CheckEdit, vars, TypeOK
  <1>2. ASSUME NEW s \in Students, NEW e \in StudentEdits, EditStudent(s, e)
        PROVE  TypeOK'
    <2>1. With(students[s], e) \in StudentRow
      BY EditedStudent DEF TypeOK
    <2>2. students' = [students EXCEPT ![s] = With(students[s], e)]
      BY <1>2 DEF EditStudent
    <2>3. students' \in [Students -> StudentRow]
      BY <2>1, <2>2 DEF TypeOK
    <2>4. QED
      BY <1>2, <2>3 DEF EditStudent, TypeOK, locks, local
  <1>3. CASE WriteCourse
    <2>1. courses' \in [Courses -> CourseRow]
      BY <1>3, WriteCourseWrites DEF TypeOK
    <2>2. QED
      BY <1>3, <2>1, WriteCourseWrites DEF TypeOK, locks, local
  <1>4. QED
    BY <1>1, <1>2, <1>3

LEMMA FailTypes ==
  ASSUME TypeOK, Rows, NEW p \in Sessions, StatementFails(p)
  PROVE  TypeOK'
  <1>1. /\ target[p] \in Keys /\ Stu(p) \in Students /\ Crs(p) \in Courses
        /\ grab[p] \in Requests /\ Finish(p)
        /\ studentRow[p] \in StudentRow /\ courseRow[p] \in CourseRow
    BY KeyParts DEF StatementFails, Rows, RowsCurrent, TypeOK, IsGrab, Stu, Crs
  <1>2. /\ courseRow[p].selected + 1 \in Nat
        /\ studentRow[p].used + courseRow[p].credit \in Nat
    BY <1>1 DEF CourseRow, StudentRow
  <1>3. courses' \in [Courses -> CourseRow]
    BY <1>1, <1>2, CountedCourse DEF StatementFails, LostWrites, CountWritten, TypeOK
  <1>4. students' \in [Students -> StudentRow]
    BY <1>1, <1>2, CountedStudent DEF StatementFails, LostWrites, CreditWritten, TypeOK
  <1>5. /\ enrollments' \in [Keys -> {"none", "active", "dropped"}]
        /\ requests' \in [Requests -> {"none", "failed", "success"}]
    BY <1>1 DEF StatementFails, LostWrites, TypeOK
  <1>6. QED
    BY <1>1, <1>3, <1>4, <1>5, FinishType DEF TypeOK

LEMMA SoundNext ==
  ASSUME Sound, [ErrorNext]_errorVars
  PROVE  Sound'
  <1>1. CASE ErrorNext
    <2>1. EditorOK' /\ errors' \in Nat
      BY <1>1, EditorNext
    <2>2. CASE Next
      BY <2>1, <2>2, RowsNext DEF Sound
    <2>3. CASE \/ \E c \in Courses : ReadCourse(c)
               \/ \E s \in Students, e \in StudentEdits : EditStudent(s, e)
               \/ \E e \in CourseEdits : CheckEdit(e)
               \/ WriteCourse
      <3>1. TypeOK'
        BY <2>3, EditTypes DEF Sound
      <3>2. \A q \in Sessions : Undisturbed(q)
        BY <2>3, EditUndisturbs DEF Sound
      <3>3. Rows'
        BY <3>2, UndisturbedStays DEF Sound, Rows
      <3>4. QED
        BY <2>1, <3>1, <3>3 DEF Sound
    <2>4. ASSUME NEW p \in Sessions, StatementFails(p) PROVE Sound'
      <3>1. TypeOK'
        BY <2>4, FailTypes DEF Sound
      <3>2. RowsCurrent(p)'
        BY <2>4, FailWrites, EndCurrent DEF Sound
      <3>3. ASSUME NEW q \in Sessions, q # p PROVE RowsCurrent(q)'
        BY <2>4, <3>3, FailWrites, EndUndisturbs, UndisturbedStays DEF Sound
      <3>4. QED
        BY <2>1, <3>1, <3>2, <3>3 DEF Sound, Rows
    <2>5. QED
      BY <1>1, <2>2, <2>3, <2>4, ErrorNextCases DEF ErrorCases
  <1>2. CASE UNCHANGED errorVars
    <2>1. UNCHANGED vars /\ UNCHANGED editor
      BY <1>2 DEF errorVars, adminVars, vars, editor
    <2>2. TypeOK' /\ Rows'
      BY <2>1, RowsNext DEF Sound
    <2>3. EditorOK'
      BY <2>1 DEF Sound, EditorOK, editor
    <2>4. QED
      BY <1>2, <2>2, <2>3 DEF Sound, errorVars
  <1>3. QED
    BY <1>1, <1>2

LEMMA SoundInit == ErrorInit => Sound
  <1>1. Init => TypeOK /\ Rows
    BY BooksInit DEF Books, Locking
  <1>2. NoCourseRow \in CourseRow
    BY DEF NoCourseRow, CourseRow
  <1>3. QED
    BY <1>1, <1>2 DEF ErrorInit, AdminInit, Sound, EditorOK

-----------------------------------------------------------------------------
(***************************************************************************)
(* What one step makes of a course's counter and roster, and of a          *)
(* student's credit_used and timetable: both stay, both gain one, or both  *)
(* lose one.  Only a failing statement raises a counter alone.             *)
(***************************************************************************)
RosterKept(c) ==
  /\ Roster(c)' = Roster(c)
  /\ courses'[c].selected >= courses[c].selected
  /\ errors' = 0 => courses'[c].selected = courses[c].selected
RosterGains(c, s) ==
  /\ s \notin Roster(c)
  /\ Roster(c)' = Roster(c) \cup {s}
  /\ courses'[c].selected = courses[c].selected + 1
RosterLoses(c, s) ==
  /\ s \in Roster(c)
  /\ Roster(c)' = Roster(c) \ {s}
  /\ courses'[c].selected = FloorMinus(courses[c].selected, 1)
RosterStep ==
  \A c \in Courses :
    \/ RosterKept(c)
    \/ \E s \in Students : RosterGains(c, s) \/ RosterLoses(c, s)

TimetableKept(s) ==
  Timetable(s)' = Timetable(s) /\ students'[s].used >= students[s].used
TimetableGains(s, c) ==
  /\ c \notin Timetable(s)
  /\ Timetable(s)' = Timetable(s) \cup {c}
  /\ students'[s].used = students[s].used + courses[c].credit
TimetableLoses(s, c) ==
  /\ c \in Timetable(s)
  /\ Timetable(s)' = Timetable(s) \ {c}
  /\ students'[s].used = FloorMinus(students[s].used, courses[c].credit)
TimetableStep ==
  \A s \in Students :
    \/ TimetableKept(s)
    \/ /\ \E c \in Courses : TimetableGains(s, c) \/ TimetableLoses(s, c)
       /\ \A d \in Courses : courses'[d].credit = courses[d].credit

BothSteps == RosterStep /\ TimetableStep

(* Whom a session that is about to write works on, and with which copies.  *)
LEMMA Writer ==
  ASSUME TypeOK, Rows, NEW p \in Sessions, pc[p] = "write"
  PROVE  /\ target[p] \in Keys /\ Stu(p) \in Students /\ Crs(p) \in Courses
         /\ courseRow[p] = courses[Crs(p)] /\ studentRow[p] = students[Stu(p)]
         /\ courses[Crs(p)] \in CourseRow /\ students[Stu(p)] \in StudentRow
         /\ IsGrab(p) <=> enrollments[target[p]] # "active"
         /\ \A s \in Students, c \in Courses :
              /\ <<s, c>> \in Keys
              /\ <<s, c>> = target[p] <=> s = Stu(p) /\ c = Crs(p)
  <1>1. RowsCurrent(p)
    BY DEF Rows
  <1>2. /\ target[p] \in Keys /\ target[p] = <<Stu(p), Crs(p)>>
        /\ Stu(p) \in Students /\ Crs(p) \in Courses
    BY <1>1, KeyParts DEF RowsCurrent, Stu, Crs
  <1>3. /\ courseRow[p] = courses[Crs(p)] /\ studentRow[p] = students[Stu(p)]
        /\ IsGrab(p) <=> enrollments[target[p]] # "active"
    BY <1>1 DEF RowsCurrent, EnrollmentRefuses
  <1>4. courses[Crs(p)] \in CourseRow /\ students[Stu(p)] \in StudentRow
    BY <1>2 DEF TypeOK
  <1>5. QED
    BY <1>2, <1>3, <1>4 DEF Keys

(* The write of one counter, row by row.                                   *)
LEMMA CourseCounted ==
  ASSUME TypeOK, NEW d \in Courses, NEW n,
         courses' = [courses EXCEPT ![d].selected = n]
  PROVE  /\ courses'[d].selected = n
         /\ \A c \in Courses : /\ c # d => courses'[c] = courses[c]
                               /\ courses'[c].credit = courses[c].credit
  BY DEF TypeOK, CourseRow

LEMMA StudentCounted ==
  ASSUME TypeOK, NEW t \in Students, NEW n,
         students' = [students EXCEPT ![t].used = n]
  PROVE  /\ students'[t].used = n
         /\ \A s \in Students : s # t => students'[s] = students[s]
  BY DEF TypeOK, StudentRow

LEMMA GrabSteps ==
  ASSUME TypeOK, Rows, NEW p \in Sessions, CommitGrab(p)
  PROVE  BothSteps
  <1>1. pc[p] = "write" /\ IsGrab(p)
    BY DEF CommitGrab
  <1>2. /\ courses'[Crs(p)].selected = courses[Crs(p)].selected + 1
        /\ students'[Stu(p)].used = students[Stu(p)].used + courses[Crs(p)].credit
        /\ \A c \in Courses : /\ c # Crs(p) => courses'[c] = courses[c]
                              /\ courses'[c].credit = courses[c].credit
        /\ \A s \in Students : s # Stu(p) => students'[s] = students[s]
    BY <1>1, Writer, CourseCounted, StudentCounted DEF CommitGrab
  <1>3. \A s \in Students, c \in Courses :
          enrollments'[<<s, c>>] = "active" <=>
            enrollments[<<s, c>>] = "active" \/ (s = Stu(p) /\ c = Crs(p))
    <2>1. \A k \in Keys : enrollments'[k] = IF k = target[p] THEN "active" ELSE enrollments[k]
      BY DEF CommitGrab, TypeOK
    <2>2. \A s \in Students, c \in Courses :
            /\ <<s, c>> \in Keys
            /\ <<s, c>> = target[p] <=> s = Stu(p) /\ c = Crs(p)
      BY <1>1, Writer
    <2>3. QED
      BY <2>1, <2>2
  <1>4. /\ Stu(p) \in Students /\ Crs(p) \in Courses
        /\ enrollments[<<Stu(p), Crs(p)>>] # "active"
    BY <1>1, Writer
  <1>5. ASSUME NEW c \in Courses
        PROVE  RosterKept(c) \/ \E s \in Students : RosterGains(c, s)
    <2>1. CASE c = Crs(p)
      BY <1>2, <1>3, <1>4, <2>1 DEF RosterGains, Roster
    <2>2. CASE c # Crs(p)
      <3>1. courses'[c] = courses[c] /\ courses[c].selected \in Nat
        BY <1>2, <2>2 DEF TypeOK, CourseRow
      <3>2. Roster(c)' = Roster(c)
        BY <1>3, <2>2 DEF Roster
      <3>3. QED
        BY <3>1, <3>2 DEF RosterKept
    <2>3. QED
      BY <2>1, <2>2
  <1>6. ASSUME NEW s \in Students
        PROVE  TimetableKept(s) \/ \E c \in Courses : TimetableGains(s, c)
    <2>1. CASE s = Stu(p)
      BY <1>2, <1>3, <1>4, <2>1 DEF TimetableGains, Timetable
    <2>2. CASE s # Stu(p)
      <3>1. students'[s] = students[s] /\ students[s].used \in Nat
        BY <1>2, <2>2 DEF TypeOK, StudentRow
      <3>2. Timetable(s)' = Timetable(s)
        BY <1>3, <2>2 DEF Timetable
      <3>3. QED
        BY <3>1, <3>2 DEF TimetableKept
    <2>3. QED
      BY <2>1, <2>2
  <1>7. QED
    BY <1>2, <1>5, <1>6 DEF BothSteps, RosterStep, TimetableStep

LEMMA DropSteps ==
  ASSUME TypeOK, Rows, NEW p \in Sessions, CommitDrop(p)
  PROVE  BothSteps
  <1>1. pc[p] = "write" /\ ~IsGrab(p)
    BY DEF CommitDrop
  <1>2. /\ courses'[Crs(p)].selected = FloorMinus(courses[Crs(p)].selected, 1)
        /\ students'[Stu(p)].used
             = FloorMinus(students[Stu(p)].used, courses[Crs(p)].credit)
        /\ \A c \in Courses : /\ c # Crs(p) => courses'[c] = courses[c]
                              /\ courses'[c].credit = courses[c].credit
        /\ \A s \in Students : s # Stu(p) => students'[s] = students[s]
    <2>1. /\ courses' = [courses EXCEPT ![Crs(p)].selected
                            = FloorMinus(courses[Crs(p)].selected, 1)]
          /\ students' = [students EXCEPT ![Stu(p)].used
                             = FloorMinus(students[Stu(p)].used, courses[Crs(p)].credit)]
          /\ Stu(p) \in Students /\ Crs(p) \in Courses
      BY <1>1, Writer DEF CommitDrop
    <2>2. QED
      BY <2>1, CourseCounted, StudentCounted
  <1>3. \A s \in Students, c \in Courses :
          enrollments'[<<s, c>>] = "active" <=>
            enrollments[<<s, c>>] = "active" /\ ~(s = Stu(p) /\ c = Crs(p))
    BY <1>1, Writer DEF CommitDrop, TypeOK
  <1>4. /\ Stu(p) \in Students /\ Crs(p) \in Courses
        /\ enrollments[<<Stu(p), Crs(p)>>] = "active"
    BY <1>1, Writer
  <1>5. ASSUME NEW c \in Courses
        PROVE  RosterKept(c) \/ \E s \in Students : RosterLoses(c, s)
    <2>1. CASE c = Crs(p)
      BY <1>2, <1>3, <1>4, <2>1 DEF RosterLoses, Roster
    <2>2. CASE c # Crs(p)
      <3>1. courses'[c] = courses[c] /\ courses[c].selected \in Nat
        BY <1>2, <2>2 DEF TypeOK, CourseRow
      <3>2. Roster(c)' = Roster(c)
        BY <1>3, <2>2 DEF Roster
      <3>3. QED
        BY <3>1, <3>2 DEF RosterKept
    <2>3. QED
      BY <2>1, <2>2
  <1>6. ASSUME NEW s \in Students
        PROVE  TimetableKept(s) \/ \E c \in Courses : TimetableLoses(s, c)
    <2>1. CASE s = Stu(p)
      BY <1>2, <1>3, <1>4, <2>1 DEF TimetableLoses, Timetable
    <2>2. CASE s # Stu(p)
      <3>1. students'[s] = students[s] /\ students[s].used \in Nat
        BY <1>2, <2>2 DEF TypeOK, StudentRow
      <3>2. Timetable(s)' = Timetable(s)
        BY <1>3, <2>2 DEF Timetable
      <3>3. QED
        BY <3>1, <3>2 DEF TimetableKept
    <2>3. QED
      BY <2>1, <2>2
  <1>7. QED
    BY <1>2, <1>5, <1>6 DEF BothSteps, RosterStep, TimetableStep

(* Steps that write no enrollment keep every roster and timetable.         *)
LEMMA KeptSteps ==
  ASSUME TypeOK, enrollments' = enrollments,
         \A c \in Courses :
           /\ courses'[c].selected >= courses[c].selected
           /\ errors' = 0 => courses'[c].selected = courses[c].selected,
         \A s \in Students : students'[s].used >= students[s].used
  PROVE  BothSteps
  BY DEF BothSteps, RosterStep, TimetableStep, RosterKept, TimetableKept, Roster,
         Timetable

LEMMA FailSteps ==
  ASSUME TypeOK, Rows, errors \in Nat, NEW p \in Sessions, StatementFails(p)
  PROVE  BothSteps
  <1>1. errors' # 0 /\ enrollments' = enrollments
    BY DEF StatementFails, LostWrites
  <1>2. /\ \A c \in Courses : courses[c].selected \in Nat
        /\ \A s \in Students : students[s].used \in Nat
    BY DEF TypeOK, CourseRow, StudentRow
  <1>3. \A c \in Courses : courses'[c].selected >= courses[c].selected
    <2>1. CASE courses' = courses
      BY <1>2, <2>1
    <2>2. CASE pc[p] = "write" /\ CountWritten(p)
      BY <1>2, <2>2, Writer, CourseCounted DEF CountWritten
    <2>3. QED
      BY <2>1, <2>2 DEF StatementFails, LostWrites
  <1>4. \A s \in Students : students'[s].used >= students[s].used
    <2>1. CASE students' = students
      BY <1>2, <2>1
    <2>2. CASE pc[p] = "write" /\ CreditWritten(p)
      <3>1. /\ Stu(p) \in Students /\ courses[Crs(p)].credit \in Nat
            /\ students' = [students EXCEPT ![Stu(p)].used
                              = students[Stu(p)].used + courses[Crs(p)].credit]
        BY <2>2, Writer DEF CreditWritten, CourseRow
      <3>2. QED
        BY <1>2, <3>1, StudentCounted
    <2>3. QED
      BY <2>1, <2>2 DEF StatementFails, LostWrites
  <1>5. QED
    BY <1>1, <1>3, <1>4, KeptSteps

LEMMA EditSteps ==
  ASSUME TypeOK, EditorOK,
         \/ \E c \in Courses : ReadCourse(c)
         \/ \E s \in Students, e \in StudentEdits : EditStudent(s, e)
         \/ \E e \in CourseEdits : CheckEdit(e)
         \/ WriteCourse
  PROVE  BothSteps
  <1>1. /\ \A c \in Courses : courses[c].selected \in Nat
        /\ \A s \in Students : students[s].used \in Nat
    BY DEF TypeOK, CourseRow, StudentRow
  <1>2. CASE UNCHANGED vars
    BY <1>1, <1>2, KeptSteps DEF vars
  <1>3. ASSUME NEW s \in Students, NEW e \in StudentEdits, EditStudent(s, e)
        PROVE  BothSteps
    <2>1. With(students[s], e).used = students[s].used
      BY EditedStudent DEF TypeOK
    <2>2. \A t \in Students : students'[t].used = students[t].used
      BY <1>3, <2>1 DEF EditStudent, TypeOK
    <2>3. QED
      BY <1>1, <1>3, <2>2, KeptSteps DEF EditStudent
  <1>4. CASE WriteCourse
    <2>1. \A c \in Courses : courses'[c].selected = courses[c].selected
      BY <1>4, WriteCourseWrites DEF TypeOK
    <2>2. QED
      BY <1>1, <1>4, <2>1, WriteCourseWrites, KeptSteps
  <1>5. QED
    BY <1>2, <1>3, <1>4 DEF ReadCourse, CheckEdit

LEMMA EachStep ==
  ASSUME Sound, ErrorNext
  PROVE  BothSteps
  <1>1. CASE Next
    <2>1. CASE UNCHANGED <<courses, students, enrollments>>
      <3>1. /\ \A c \in Courses : courses[c].selected \in Nat
            /\ \A s \in Students : students[s].used \in Nat
        BY DEF Sound, TypeOK, CourseRow, StudentRow
      <3>2. QED
        BY <2>1, <3>1, KeptSteps DEF Sound
    <2>2. QED
      BY <1>1, <2>1, OnlyCommitsWrite, GrabSteps, DropSteps DEF Sound
  <1>2. QED
    BY <1>1, ErrorNextCases, FailSteps, EditSteps DEF ErrorCases, Sound
-----------------------------------------------------------------------------
(***************************************************************************)
(* The counters.                                                           *)
(***************************************************************************)
LEMMA RosterSize ==
  ASSUME NEW c \in Courses, NEW s \in Students
  PROVE  /\ Cardinality(Roster(c)) \in Nat
         /\ s \notin Roster(c) =>
              Cardinality(Roster(c) \cup {s}) = Cardinality(Roster(c)) + 1
         /\ s \in Roster(c) =>
              /\ Cardinality(Roster(c) \ {s}) = Cardinality(Roster(c)) - 1
              /\ Cardinality(Roster(c)) > 0
  <1>1. IsFiniteSet(Roster(c)) /\ Cardinality(Roster(c)) \in Nat
    BY RosterFinite
  <1>2. s \notin Roster(c) =>
          Cardinality(Roster(c) \cup {s}) = Cardinality(Roster(c)) + 1
    BY <1>1, FS_AddElement
  <1>3. s \in Roster(c) => Cardinality(Roster(c) \ {s}) = Cardinality(Roster(c)) - 1
    BY <1>1, FS_RemoveElement
  <1>4. s \in Roster(c) => Cardinality(Roster(c) \ {s}) \in Nat
    <2>1. IsFiniteSet(Roster(c) \ {s})
      BY <1>1, FS_Subset
    <2>2. QED
      BY <2>1, FS_CardinalityType
  <1>5. QED
    BY <1>1, <1>2, <1>3, <1>4

RostersCovered ==
  \A c \in Courses : courses[c].selected >= Cardinality(Roster(c))

LEMMA CoveredNext ==
  ASSUME TypeOK, TypeOK', RosterStep, NEW c \in Courses
  PROVE  /\ courses[c].selected >= Cardinality(Roster(c)) =>
              courses'[c].selected >= Cardinality(Roster(c)')
         /\ errors' = 0 /\ courses[c].selected = Cardinality(Roster(c)) =>
              courses'[c].selected = Cardinality(Roster(c)')
  <1>1. /\ courses[c].selected \in Nat /\ courses'[c].selected \in Nat
        /\ Cardinality(Roster(c)) \in Nat
    BY RosterFinite DEF TypeOK, CourseRow
  <1>2. CASE RosterKept(c)
    BY <1>1, <1>2 DEF RosterKept
  <1>3. CASE \E s \in Students : RosterGains(c, s)
    BY <1>1, <1>3, RosterSize DEF RosterGains
  <1>4. CASE \E s \in Students : RosterLoses(c, s)
    BY <1>1, <1>4, RosterSize DEF RosterLoses, FloorMinus
  <1>5. QED
    BY <1>2, <1>3, <1>4 DEF RosterStep

CreditsCovered == ~repriced => \A s \in Students : students[s].used >= Credits(s)

(* A course that somebody holds has a counter above zero, so that an edit  *)
(* of its credit is recorded.                                              *)
LEMMA CreditsSame ==
  ASSUME TypeOK, RostersCovered, ~Reprices, NEW s \in Students,
         NEW c \in Timetable(s)
  PROVE  courses'[c].credit = courses[c].credit
  <1>1. c \in Courses /\ s \in Roster(c)
    BY DEF Timetable, Roster
  <1>2. courses[c].selected > 0
    <2>1. Cardinality(Roster(c)) \in Nat /\ Cardinality(Roster(c)) > 0
      BY <1>1, RosterSize
    <2>2. courses[c].selected >= Cardinality(Roster(c)) /\ courses[c].selected \in Nat
      BY <1>1 DEF RostersCovered, TypeOK, CourseRow
    <2>3. QED
      BY <2>1, <2>2
  <1>3. QED
    BY <1>1, <1>2 DEF Reprices

LEMMA CreditsNext ==
  ASSUME TypeOK, TypeOK', RostersCovered, TimetableStep, ~Reprices,
         NEW s \in Students, students[s].used >= Credits(s)
  PROVE  students'[s].used >= Credits(s)'
  <1>1. /\ IsFiniteSet(Timetable(s)) /\ Timetable(s) \subseteq Courses
        /\ \A c \in Courses : CreditOf[c] \in Nat /\ CreditOf[c] = courses[c].credit
        /\ Credits(s) = SumOver(CreditOf, Timetable(s)) /\ Credits(s) \in Nat
        /\ students[s].used \in Nat /\ students'[s].used \in Nat
        /\ Credits(s)' = SumOver(CreditOf', Timetable(s)')
    BY CreditsTyped DEF CreditOf, Credits, Timetable, TypeOK, StudentRow
  <1>2. CASE TimetableKept(s)
    <2>1. \A c \in Timetable(s) : CreditOf'[c] = CreditOf[c]
      BY <1>1, CreditsSame DEF CreditOf
    <2>2. SumOver(CreditOf', Timetable(s)) = SumOver(CreditOf, Timetable(s))
      BY <2>1, SumSame
    <2>3. QED
      BY <1>1, <1>2, <2>2 DEF TimetableKept
  <1>3. ASSUME NEW c \in Courses, TimetableGains(s, c) \/ TimetableLoses(s, c),
               \A d \in Courses : courses'[d].credit = courses[d].credit
        PROVE  students'[s].used >= Credits(s)'
    <2>1. CreditOf' = CreditOf
      BY <1>3 DEF CreditOf
    <2>2. CASE TimetableGains(s, c)
      <3>1. SumOver(CreditOf, Timetable(s) \cup {c}) = Credits(s) + courses[c].credit
        BY <1>1, <2>2, SumAdd DEF TimetableGains
      <3>2. QED
        BY <1>1, <1>3, <2>1, <2>2, <3>1 DEF TimetableGains
    <2>3. CASE TimetableLoses(s, c)
      <3>1. /\ SumOver(CreditOf, Timetable(s) \ {c}) = Credits(s) - courses[c].credit
            /\ courses[c].credit <= Credits(s)
        BY <1>1, <2>3, SumRemove DEF TimetableLoses
      <3>2. QED
        BY <1>1, <1>3, <2>1, <2>3, <3>1 DEF TimetableLoses, FloorMinus
    <2>4. QED
      BY <1>3, <2>2, <2>3
  <1>4. QED
    BY <1>2, <1>3 DEF TimetableStep

ErrorInv ==
  /\ Sound
  /\ CountMatchesUnlessErrors
  /\ RostersCovered
  /\ CreditsCovered

LEMMA ErrorInvInit == ErrorInit => ErrorInv
  <1> SUFFICES ASSUME ErrorInit PROVE ErrorInv
    OBVIOUS
  <1>1. Init /\ Sound /\ Books
    BY SoundInit, BooksInit DEF ErrorInit, AdminInit
  <1>2. CountMatchesRoster
    BY <1>1 DEF Books
  <1>3. RostersCovered
    BY <1>2, RosterFinite DEF CountMatchesRoster, RostersCovered
  <1>4. ASSUME NEW s \in Students PROVE students[s].used >= Credits(s)
    <2>1. students[s].used = 0
      BY <1>1, TableAssumption DEF Init
    <2>2. Timetable(s) = {}
      BY <1>1 DEF Init, Timetable, Keys
    <2>3. QED
      BY <2>1, <2>2, SumEmpty DEF Credits
  <1>5. QED
    BY <1>1, <1>2, <1>3, <1>4 DEF ErrorInv, CountMatchesUnlessErrors, CreditsCovered

LEMMA ErrorInvNext ==
  ASSUME ErrorInv, [ErrorNext]_errorVars
  PROVE  ErrorInv'
  <1>1. Sound /\ Sound' /\ TypeOK /\ TypeOK'
    BY SoundNext DEF ErrorInv, Sound
  <1>2. CASE ErrorNext
    <2>1. RosterStep /\ TimetableStep
      BY <1>1, <1>2, EachStep DEF BothSteps
    <2>2. RostersCovered'
      BY <1>1, <2>1, CoveredNext DEF ErrorInv, RostersCovered
    <2>3. CountMatchesUnlessErrors'
      <3>1. errors' = 0 => errors = 0
        BY <1>1, <1>2, ErrorNextCases DEF ErrorCases, StatementFails, Sound
      <3>2. QED
        BY <1>1, <2>1, <3>1, CoveredNext
        DEF ErrorInv, CountMatchesUnlessErrors, CountMatchesRoster
    <2>4. CreditsCovered'
      <3>1. ~repriced' => ~repriced /\ ~Reprices
        BY <1>2 DEF ErrorNext
      <3>2. QED
        BY <1>1, <2>1, <3>1, CreditsNext DEF ErrorInv, CreditsCovered
    <2>5. QED
      BY <1>1, <2>2, <2>3, <2>4 DEF ErrorInv
  <1>3. CASE UNCHANGED errorVars
    <2>1. UNCHANGED <<courses, students, enrollments, errors, repriced>>
      BY <1>3 DEF errorVars, adminVars, vars
    <2>2. /\ \A c \in Courses : Roster(c)' = Roster(c)
          /\ \A s \in Students : Credits(s)' = Credits(s)
      BY <2>1 DEF Roster, Credits, Timetable
    <2>3. QED
      BY <1>1, <2>1, <2>2
      DEF ErrorInv, CountMatchesUnlessErrors, CountMatchesRoster, RostersCovered,
          CreditsCovered
  <1>4. QED
    BY <1>2, <1>3

LEMMA ErrorInvAlways == ErrorSpec => []ErrorInv
  <1>1. QED
    BY ErrorInvInit, ErrorInvNext, PTL DEF ErrorSpec

(* As long as no statement of a grab has failed, selected_count is the     *)
(* number of active enrollments, whatever an administrator edits between   *)
(* the steps of grabs and drops: UpdateCourse writes only the columns of   *)
(* the form, and not before the row's lock is free.                        *)
THEOREM CountsSurviveEdits == ErrorSpec => []CountMatchesUnlessErrors
  <1>1. ErrorInv => CountMatchesUnlessErrors
    BY DEF ErrorInv
  <1>2. QED
    BY <1>1, ErrorInvAlways, PTL

(* What HandleGrabMessage commits after an error only makes selected_count *)
(* and credit_used too high: no place and no credit is ever given twice on *)
(* a counter that misses an enrollment.                                    *)
THEOREM CountersNeverTooLow == ErrorSpec => []CountersCoverRoster
  <1>1. ErrorInv => CountersCoverRoster
    BY DEF ErrorInv, RostersCovered, CreditsCovered, CountersCoverRoster
  <1>2. QED
    BY <1>1, ErrorInvAlways, PTL
-----------------------------------------------------------------------------
(***************************************************************************)
(* The rules in force.  Whoever raises a counter holds the row, so what it *)
(* has checked is still so.                                                *)
(***************************************************************************)
RaisesObeyRules ==
  /\ \A c \in Courses : courses'[c].selected > courses[c].selected =>
       courses[c].status = 1 /\ courses'[c].selected <= courses[c].capacity
  /\ \A s \in Students : students'[s].used > students[s].used =>
       students[s].status = 1 /\ students'[s].used <= students[s].limit

(* The row of a course and of a student is raised by a grab that is about  *)
(* to write, or not at all.                                                *)
LEMMA WriterChecked ==
  ASSUME TypeOK, Rows, NEW p \in Sessions, pc[p] = "write", IsGrab(p)
  PROVE  /\ courses[Crs(p)].status = 1
         /\ courses[Crs(p)].selected + 1 <= courses[Crs(p)].capacity
         /\ students[Stu(p)].status = 1
         /\ students[Stu(p)].used + courses[Crs(p)].credit <= students[Stu(p)].limit
  <1>1. RowsCurrent(p)
    BY DEF Rows
  <1>2. courses[Crs(p)] \in CourseRow
    BY Writer
  <1>3. QED
    BY <1>1, <1>2 DEF RowsCurrent, CourseRefuses, CourseRow

LEMMA RaisedCourse ==
  ASSUME TypeOK, Rows, NEW p \in Sessions, pc[p] = "write", IsGrab(p), CountWritten(p)
  PROVE  \A c \in Courses : courses'[c].selected > courses[c].selected =>
           courses[c].status = 1 /\ courses'[c].selected <= courses[c].capacity
  <1>1. /\ courses' = [courses EXCEPT ![Crs(p)].selected = courses[Crs(p)].selected + 1]
        /\ Crs(p) \in Courses
    BY Writer DEF CountWritten
  <1>2. /\ courses'[Crs(p)].selected = courses[Crs(p)].selected + 1
        /\ \A c \in Courses : c # Crs(p) => courses'[c] = courses[c]
        /\ \A c \in Courses : courses[c].selected \in Nat
    BY <1>1, CourseCounted DEF TypeOK, CourseRow
  <1>3. QED
    BY <1>2, WriterChecked

LEMMA RaisedStudent ==
  ASSUME TypeOK, Rows, NEW p \in Sessions, pc[p] = "write", IsGrab(p), CreditWritten(p)
  PROVE  \A s \in Students : students'[s].used > students[s].used =>
           students[s].status = 1 /\ students'[s].used <= students[s].limit
  <1>1. /\ students' = [students EXCEPT ![Stu(p)].used
                          = students[Stu(p)].used + courses[Crs(p)].credit]
        /\ Stu(p) \in Students
    BY Writer DEF CreditWritten
  <1>2. /\ students'[Stu(p)].used = students[Stu(p)].used + courses[Crs(p)].credit
        /\ \A s \in Students : s # Stu(p) => students'[s] = students[s]
        /\ \A s \in Students : students[s].used \in Nat
    BY <1>1, StudentCounted DEF TypeOK, StudentRow
  <1>3. QED
    BY <1>2, WriterChecked

(* No counter is raised past the capacity or limit in force, nor for a     *)
(* closed course or a barred student: an edit waits for the locks of the   *)
(* grab that has checked them, and a grab that fails half-way has made its *)
(* checks before its writes.                                               *)
THEOREM RaisesFollowRules == ErrorSpec => CountersObeyCurrentRules
  <1>1. ErrorInv /\ [ErrorNext]_errorVars => [RaisesObeyRules]_errorVars
    <2> SUFFICES ASSUME ErrorInv, ErrorNext PROVE RaisesObeyRules
      OBVIOUS
    <2>1. TypeOK /\ Rows /\ EditorOK /\ Sound
      BY DEF ErrorInv, Sound
    <2>2. /\ \A c \in Courses : courses[c].selected \in Nat
          /\ \A s \in Students : students[s].used \in Nat
      BY <2>1 DEF TypeOK, CourseRow, StudentRow
    <2>3. ASSUME \A c \in Courses : courses'[c].selected <= courses[c].selected,
                 \A s \in Students : students'[s].used <= students[s].used,
                 TypeOK'
          PROVE  RaisesObeyRules
      <3>1. /\ \A c \in Courses : courses'[c].selected \in Nat
            /\ \A s \in Students : students'[s].used \in Nat
        BY <2>3 DEF TypeOK, CourseRow, StudentRow
      <3>2. QED
        BY <2>2, <2>3, <3>1 DEF RaisesObeyRules
    <2>4. TypeOK'
      BY <2>1, SoundNext DEF Sound
    <2>5. ASSUME UNCHANGED <<courses, students>> PROVE RaisesObeyRules
      BY <2>2, <2>5 DEF RaisesObeyRules
    <2>6. ASSUME NEW p \in Sessions, CommitGrab(p) PROVE RaisesObeyRules
      BY <2>1, <2>6, RaisedCourse, RaisedStudent
      DEF RaisesObeyRules, CommitGrab, CountWritten, CreditWritten
    <2>7. ASSUME NEW p \in Sessions, StatementFails(p) PROVE RaisesObeyRules
      BY <2>1, <2>2, <2>7, RaisedCourse, RaisedStudent
      DEF RaisesObeyRules, StatementFails, LostWrites
    <2>8. ASSUME NEW p \in Sessions, CommitDrop(p) PROVE RaisesObeyRules
      <3>1. /\ courses' = [courses EXCEPT ![Crs(p)].selected
                              = FloorMinus(courses[Crs(p)].selected, 1)]
            /\ students' = [students EXCEPT ![Stu(p)].used
                  = FloorMinus(students[Stu(p)].used, courses[Crs(p)].credit)]
            /\ Stu(p) \in Students /\ Crs(p) \in Courses
            /\ courses[Crs(p)].credit \in Nat
        BY <2>1, <2>8, Writer DEF CommitDrop, CourseRow
      <3>2. \A m, n \in Nat : FloorMinus(m, n) <= m
        BY DEF FloorMinus
      <3>3. /\ \A c \in Courses : courses'[c].selected <= courses[c].selected
            /\ \A s \in Students : students'[s].used <= students[s].used
        BY <2>1, <2>2, <3>1, <3>2, CourseCounted, StudentCounted
      <3>4. QED
        BY <2>3, <2>4, <3>3
    <2>9. CASE Next
      BY <2>5, <2>6, <2>8, <2>9, OnlyCommitsWrite
    <2>10. CASE WriteCourse
      <3>1. \A c \in Courses : courses'[c].selected = courses[c].selected
        BY <2>1, <2>10, WriteCourseWrites DEF TypeOK
      <3>2. students' = students
        BY <2>1, <2>10, WriteCourseWrites
      <3>3. QED
        BY <2>2, <2>3, <2>4, <3>1, <3>2
    <2>11. ASSUME NEW s \in Students, NEW e \in StudentEdits, EditStudent(s, e)
           PROVE  RaisesObeyRules
      <3>1. With(students[s], e).used = students[s].used
        BY <2>1, EditedStudent DEF TypeOK
      <3>2. \A t \in Students : students'[t].used = students[t].used
        BY <2>1, <2>11, <3>1 DEF EditStudent, TypeOK
      <3>3. courses' = courses
        BY <2>11 DEF EditStudent
      <3>4. QED
        BY <2>2, <2>3, <2>4, <3>2, <3>3
    <2>12. CASE \/ \E c \in Courses : ReadCourse(c)
                \/ \E e \in CourseEdits : CheckEdit(e)
      BY <2>5, <2>12 DEF ReadCourse, CheckEdit, vars
    <2>13. QED
      BY <2>7, <2>9, <2>10, <2>11, <2>12, ErrorNextCases DEF ErrorCases
  <1>2. QED
    BY <1>1, ErrorInvAlways, PTL
    DEF ErrorSpec, CountersObeyCurrentRules, RaisesObeyRules
=============================================================================
