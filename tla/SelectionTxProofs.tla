-------------------------- MODULE SelectionTxProofs --------------------------
(***************************************************************************)
(* Proofs about SelectionTx for any number of students, courses, requests  *)
(* and sessions.                                                           *)
(***************************************************************************)
EXTENDS SelectionTx, SumsProofs, FiniteSetTheorems, TLAPS

(* What Finish leaves of a lock table.                                     *)
LEMMA ReleaseType ==
  ASSUME NEW S, NEW lock \in [S -> Sessions \cup {None}], NEW p
  PROVE  Release(lock, p) \in [S -> Sessions \cup {None}]
  BY DEF Release

LEMMA FinishType ==
  ASSUME TypeOK, NEW p \in Sessions, Finish(p)
  PROVE  /\ studentLock' \in [Students -> Sessions \cup {None}]
         /\ courseLock' \in [Courses -> Sessions \cup {None}]
         /\ requestLock' \in [Requests -> Sessions \cup {None}]
         /\ pc' \in [Sessions -> Statement]
         /\ grab' \in [Sessions -> Requests \cup {None}]
         /\ target' \in [Sessions -> Keys \cup {None}]
         /\ studentRow' \in [Sessions -> StudentRow]
         /\ courseRow' \in [Sessions -> CourseRow]
  <1>1. /\ studentLock' \in [Students -> Sessions \cup {None}]
        /\ courseLock' \in [Courses -> Sessions \cup {None}]
        /\ requestLock' \in [Requests -> Sessions \cup {None}]
    BY ReleaseType DEF Finish, TypeOK
  <1>2. NoStudentRow \in StudentRow /\ NoCourseRow \in CourseRow
    BY DEF NoStudentRow, StudentRow, NoCourseRow, CourseRow
  <1>3. QED
    BY <1>1, <1>2 DEF Finish, TypeOK, Statement

(* The successor of a statement is a statement.                            *)
LEMMA GoOnType ==
  ASSUME TypeOK, NEW p \in Sessions, GoOn(p),
         pc[p] \in {"student", "course", "enrollment", "rules"}
  PROVE  pc' \in [Sessions -> Statement]
  BY DEF TypeOK, GoOn, Following, Statement

LEMMA InitTypeOK == Init => TypeOK
  BY TableAssumption
  DEF Init, TypeOK, CourseRow, StudentRow, NoCourseRow, NoStudentRow, Statement

(* A session beyond its first statement has a target.                      *)
HasTarget == \A p \in Sessions : pc[p] # "idle" => target[p] \in Keys

LEMMA NextCases ==
  ASSUME Next
  PROVE  \/ \E p \in Sessions, r \in Requests : BeginGrab(p, r)
         \/ \E p \in Sessions, k \in Keys : BeginDrop(p, k)
         \/ \E p \in Sessions : LockStudent(p) \/ LockCourse(p)
         \/ \E p \in Sessions : LockEnrollment(p) \/ CheckRules(p)
         \/ \E p \in Sessions : Reject(p) \/ CommitGrab(p) \/ CommitDrop(p)
         \/ \E p \in Sessions : DeadlockAbort(p) \/ SystemError(p)
         \/ \E r \in Requests : FailTimedOut(r)
  BY DEF Next, Advance

(***************************************************************************)
(* Types.  What a step writes into a table is computed from the session's  *)
(* typed copies; the key it writes under comes from its target.            *)
(***************************************************************************)
LEMMA TypeBegin ==
  ASSUME TypeOK, NEW p \in Sessions,
         \/ \E r \in Requests : BeginGrab(p, r)
         \/ \E k \in Keys : BeginDrop(p, k)
  PROVE  TypeOK' /\ (HasTarget => HasTarget')
  <1>1. ASSUME NEW r \in Requests, BeginGrab(p, r)
        PROVE  TypeOK' /\ (HasTarget => HasTarget')
    <2>1. requestLock' \in [Requests -> Sessions \cup {None}]
      BY <1>1 DEF TypeOK, BeginGrab
    <2>2. pc' \in [Sessions -> Statement] /\ grab' \in [Sessions -> Requests \cup {None}]
      BY <1>1 DEF TypeOK, BeginGrab, Following, Statement
    <2>3. target' \in [Sessions -> Keys \cup {None}] /\ target'[p] \in Keys
      BY <1>1, RequestKeyAssumption DEF TypeOK, BeginGrab
    <2>4. HasTarget => HasTarget'
      BY <1>1, <2>3 DEF TypeOK, BeginGrab, HasTarget
    <2>5. QED
      BY <1>1, <2>1, <2>2, <2>3, <2>4 DEF TypeOK, BeginGrab, tables
  <1>2. ASSUME NEW k \in Keys, BeginDrop(p, k)
        PROVE  TypeOK' /\ (HasTarget => HasTarget')
    <2>1. pc' \in [Sessions -> Statement]
      BY <1>2 DEF TypeOK, BeginDrop, Following, Statement
    <2>2. target' \in [Sessions -> Keys \cup {None}]
      BY <1>2 DEF TypeOK, BeginDrop
    <2>3. HasTarget => HasTarget'
      BY <1>2 DEF TypeOK, BeginDrop, HasTarget
    <2>4. QED
      BY <1>2, <2>1, <2>2, <2>3 DEF TypeOK, BeginDrop, tables, locks
  <1>3. QED
    BY <1>1, <1>2

LEMMA TypeRead ==
  ASSUME TypeOK, HasTarget, NEW p \in Sessions,
         LockStudent(p) \/ LockCourse(p) \/ LockEnrollment(p) \/ CheckRules(p)
  PROVE  TypeOK' /\ HasTarget'
  <1>1. /\ pc' \in [Sessions -> Statement]
        /\ pc[p] # "idle"
        /\ target' = target
        /\ \A q \in Sessions : q # p => pc'[q] = pc[q]
    BY GoOnType
    DEF TypeOK, LockStudent, LockCourse, LockEnrollment, CheckRules, GoOn
  <1>2. Stu(p) \in Students /\ Crs(p) \in Courses
    BY <1>1 DEF HasTarget, Keys, Stu, Crs
  <1>3. HasTarget'
    BY <1>1 DEF HasTarget
  <1>4. CASE LockStudent(p)
    <2>1. /\ studentLock' \in [Students -> Sessions \cup {None}]
          /\ studentRow' \in [Sessions -> StudentRow]
      BY <1>2, <1>4 DEF TypeOK, LockStudent
    <2>2. QED
      BY <1>1, <1>3, <1>4, <2>1 DEF TypeOK, LockStudent, tables
  <1>5. CASE LockCourse(p)
    <2>1. /\ courseLock' \in [Courses -> Sessions \cup {None}]
          /\ courseRow' \in [Sessions -> CourseRow]
      BY <1>2, <1>5 DEF TypeOK, LockCourse
    <2>2. QED
      BY <1>1, <1>3, <1>5, <2>1 DEF TypeOK, LockCourse, tables
  <1>6. CASE LockEnrollment(p) \/ CheckRules(p)
    BY <1>1, <1>3, <1>6 DEF TypeOK, LockEnrollment, CheckRules, tables, locks
  <1>7. QED
    BY <1>4, <1>5, <1>6

LEMMA FinishTarget ==
  ASSUME TypeOK, HasTarget, NEW p \in Sessions, Finish(p)
  PROVE  HasTarget'
  BY DEF TypeOK, HasTarget, Finish

(* A row of a table is replaced by one with another counter.               *)
LEMMA CountedCourse ==
  ASSUME NEW f \in [Courses -> CourseRow], NEW c \in Courses, NEW n \in Nat
  PROVE  [f EXCEPT ![c].selected = n] \in [Courses -> CourseRow]
  <1>1. [f[c] EXCEPT !.selected = n] \in CourseRow
    BY DEF CourseRow
  <1>2. QED
    BY <1>1

LEMMA CountedStudent ==
  ASSUME NEW f \in [Students -> StudentRow], NEW s \in Students, NEW n \in Nat
  PROVE  [f EXCEPT ![s].used = n] \in [Students -> StudentRow]
  <1>1. [f[s] EXCEPT !.used = n] \in StudentRow
    BY DEF StudentRow
  <1>2. QED
    BY <1>1

LEMMA TypeEnd ==
  ASSUME TypeOK, HasTarget, NEW p \in Sessions,
         \/ Reject(p) \/ CommitGrab(p) \/ CommitDrop(p)
         \/ DeadlockAbort(p) \/ SystemError(p)
  PROVE  TypeOK' /\ HasTarget'
  <1>1. Finish(p) /\ pc[p] # "idle"
    BY DEF Reject, CommitGrab, CommitDrop, DeadlockAbort, SystemError
  <1>2. HasTarget'
    BY <1>1, FinishTarget
  <1>3. target[p] \in Keys /\ Stu(p) \in Students /\ Crs(p) \in Courses
    BY <1>1 DEF HasTarget, Keys, Stu, Crs
  <1>4. studentRow[p] \in StudentRow /\ courseRow[p] \in CourseRow
    BY DEF TypeOK
  <1>5. /\ courses' \in [Courses -> CourseRow]
        /\ students' \in [Students -> StudentRow]
        /\ enrollments' \in [Keys -> {"none", "active", "dropped"}]
        /\ requests' \in [Requests -> {"none", "failed", "success"}]
    <2>1. CASE Reject(p)
      BY <2>1 DEF TypeOK, Reject, IsGrab
    <2>2. CASE CommitGrab(p)
      <3>1. /\ courseRow[p].selected + 1 \in Nat
            /\ studentRow[p].used + courseRow[p].credit \in Nat
        BY <1>4 DEF CourseRow, StudentRow
      <3>2. courses' \in [Courses -> CourseRow]
        BY <1>3, <2>2, <3>1, CountedCourse DEF TypeOK, CommitGrab
      <3>3. students' \in [Students -> StudentRow]
        BY <1>3, <2>2, <3>1, CountedStudent DEF TypeOK, CommitGrab
      <3>4. QED
        BY <1>3, <2>2, <3>2, <3>3 DEF TypeOK, CommitGrab
    <2>3. CASE CommitDrop(p)
      <3>1. /\ FloorMinus(courseRow[p].selected, 1) \in Nat
            /\ FloorMinus(studentRow[p].used, courseRow[p].credit) \in Nat
        BY <1>4 DEF CourseRow, StudentRow, FloorMinus
      <3>2. courses' \in [Courses -> CourseRow]
        BY <1>3, <2>3, <3>1, CountedCourse DEF TypeOK, CommitDrop
      <3>3. students' \in [Students -> StudentRow]
        BY <1>3, <2>3, <3>1, CountedStudent DEF TypeOK, CommitDrop
      <3>4. QED
        BY <1>3, <2>3, <3>2, <3>3 DEF TypeOK, CommitDrop
    <2>4. CASE DeadlockAbort(p) \/ SystemError(p)
      BY <2>4 DEF TypeOK, DeadlockAbort, SystemError, tables
    <2>5. QED
      BY <2>1, <2>2, <2>3, <2>4
  <1>6. QED
    BY <1>1, <1>2, <1>5, FinishType DEF TypeOK

LEMMA TypeNext ==
  ASSUME TypeOK, HasTarget, [Next]_vars
  PROVE  TypeOK' /\ HasTarget'
  <1>1. CASE Next
    <2>1. ASSUME NEW r \in Requests, FailTimedOut(r)
          PROVE  TypeOK' /\ HasTarget'
      BY <2>1 DEF TypeOK, HasTarget, FailTimedOut, locks, local
    <2>2. QED
      BY <1>1, <2>1, NextCases, TypeBegin, TypeRead, TypeEnd
  <1>2. CASE UNCHANGED vars
    BY <1>2 DEF TypeOK, HasTarget, vars
  <1>3. QED
    BY <1>1, <1>2

(* The tables, locks and sessions always hold well-formed values: no copy, *)
(* counter or status leaves its domain, and selected_count and credit_used *)
(* never go below zero, however grabs, drops, deadlocks and timeouts mix.  *)
THEOREM TypeCorrect == Spec => []TypeOK
  <1>1. Init => TypeOK /\ HasTarget
    BY InitTypeOK DEF Init, HasTarget
  <1>2. TypeOK /\ HasTarget /\ [Next]_vars => (TypeOK /\ HasTarget)'
    BY TypeNext
  <1>3. QED
    BY <1>1, <1>2, PTL DEF Spec
-----------------------------------------------------------------------------
(***************************************************************************)
(* Row locks.  RowsCurrent is what they keep for a session whatever is     *)
(* written to rows it has not locked: all of CopiesCurrent but the slots   *)
(* of the student's other courses.                                         *)
(***************************************************************************)
RowsCurrent(p) ==
  /\ pc[p] # "idle" => target[p] \in Keys
  /\ IsGrab(p) => /\ pc[p] # "idle"
                  /\ target[p] = RequestKey[grab[p]]
                  /\ requestLock[grab[p]] = p
                  /\ requests[grab[p]] = "none"
  /\ pc[p] \in {"course", "enrollment", "rules", "write"} =>
       /\ studentLock[Stu(p)] = p
       /\ studentRow[p] = students[Stu(p)]
       /\ students[Stu(p)].status = 1
  /\ pc[p] \in {"enrollment", "rules", "write"} =>
       /\ courseLock[Crs(p)] = p
       /\ courseRow[p] = courses[Crs(p)]
       /\ ~CourseRefuses(p)
  /\ pc[p] = "rules" => IsGrab(p)
  /\ pc[p] \in {"rules", "write"} => ~EnrollmentRefuses(p)
  /\ pc[p] = "write" /\ IsGrab(p) =>
       studentRow[p].used + courseRow[p].credit <= studentRow[p].limit

Rows == \A p \in Sessions : RowsCurrent(p)

(* A step of one session leaves another session alone when it touches      *)
(* nothing that is under the other's locks.                                *)
Undisturbed(q) ==
  /\ pc'[q] = pc[q] /\ grab'[q] = grab[q] /\ target'[q] = target[q]
  /\ studentRow'[q] = studentRow[q] /\ courseRow'[q] = courseRow[q]
  /\ \A s \in Students : studentLock[s] = q =>
       /\ studentLock'[s] = q
       /\ students'[s] = students[s]
       /\ \A c \in Courses : enrollments'[<<s, c>>] = enrollments[<<s, c>>]
  /\ \A c \in Courses : courseLock[c] = q =>
       courseLock'[c] = q /\ courses'[c] = courses[c]
  /\ \A r \in Requests : requestLock[r] = q =>
       requestLock'[r] = q /\ requests'[r] = requests[r]

LEMMA RowsTarget == ASSUME Rows PROVE HasTarget
  BY DEF Rows, RowsCurrent, HasTarget

LEMMA KeyParts ==
  ASSUME NEW k \in Keys
  PROVE  k[1] \in Students /\ k[2] \in Courses /\ k = <<k[1], k[2]>>
  BY DEF Keys

LEMMA UndisturbedStays ==
  ASSUME TypeOK, Rows, NEW q \in Sessions, Undisturbed(q)
  PROVE  RowsCurrent(q)'
  <1>1. RowsCurrent(q)
    BY DEF Rows
  <1>2. CASE pc[q] = "idle"
    BY <1>1, <1>2 DEF Undisturbed, RowsCurrent, IsGrab
  <1>3. CASE pc[q] # "idle"
    <2>1. /\ target[q] \in Keys
          /\ Stu(q) \in Students /\ Crs(q) \in Courses
          /\ target[q] = <<Stu(q), Crs(q)>>
      BY <1>1, <1>3, KeyParts DEF RowsCurrent, Stu, Crs
    <2>2. /\ Stu(q)' = Stu(q) /\ Crs(q)' = Crs(q)
          /\ IsGrab(q)' <=> IsGrab(q)
          /\ target'[q] = target[q] /\ pc'[q] = pc[q] /\ grab'[q] = grab[q]
          /\ studentRow'[q] = studentRow[q] /\ courseRow'[q] = courseRow[q]
      BY DEF Undisturbed, Stu, Crs, IsGrab
    <2>3. IsGrab(q) => grab[q] \in Requests
      BY DEF TypeOK, IsGrab
    <2>4. (IsGrab(q) => /\ pc[q] # "idle"
                        /\ target[q] = RequestKey[grab[q]]
                        /\ requestLock[grab[q]] = q
                        /\ requests[grab[q]] = "none")'
      BY <1>1, <2>2, <2>3 DEF RowsCurrent, Undisturbed
    <2>5. (pc[q] \in {"course", "enrollment", "rules", "write"} =>
             /\ studentLock[Stu(q)] = q
             /\ studentRow[q] = students[Stu(q)]
             /\ students[Stu(q)].status = 1)'
      BY <1>1, <2>1, <2>2 DEF RowsCurrent, Undisturbed
    <2>6. (pc[q] \in {"enrollment", "rules", "write"} =>
             /\ courseLock[Crs(q)] = q
             /\ courseRow[q] = courses[Crs(q)]
             /\ ~CourseRefuses(q))'
      BY <1>1, <2>1, <2>2 DEF RowsCurrent, Undisturbed, CourseRefuses
    <2>7. pc[q] \in {"rules", "write"} =>
            enrollments'[target[q]] = enrollments[target[q]]
      BY <1>1, <2>1 DEF RowsCurrent, Undisturbed
    <2>8. (pc[q] \in {"rules", "write"} => ~EnrollmentRefuses(q))'
      BY <1>1, <2>2, <2>7 DEF RowsCurrent, EnrollmentRefuses
    <2>9. QED
      BY <1>1, <2>1, <2>2, <2>4, <2>5, <2>6, <2>8 DEF RowsCurrent
  <1>4. QED
    BY <1>2, <1>3

LEMMA BeginUndisturbs ==
  ASSUME TypeOK, NEW p \in Sessions, NEW q \in Sessions, q # p,
         \/ \E r \in Requests : BeginGrab(p, r)
         \/ \E k \in Keys : BeginDrop(p, k)
  PROVE  Undisturbed(q)
  <1>1. CASE \E r \in Requests : BeginGrab(p, r)
    BY <1>1, NoneAssumption DEF TypeOK, BeginGrab, Undisturbed, tables
  <1>2. CASE \E k \in Keys : BeginDrop(p, k)
    BY <1>2 DEF TypeOK, BeginDrop, Undisturbed, tables, locks
  <1>3. QED
    BY <1>1, <1>2

LEMMA ReadUndisturbs ==
  ASSUME TypeOK, NEW p \in Sessions, NEW q \in Sessions, q # p,
         LockStudent(p) \/ LockCourse(p) \/ LockEnrollment(p) \/ CheckRules(p)
  PROVE  Undisturbed(q)
  <1>1. CASE LockStudent(p)
    BY <1>1, NoneAssumption DEF TypeOK, LockStudent, GoOn, Undisturbed, tables
  <1>2. CASE LockCourse(p)
    BY <1>2, NoneAssumption DEF TypeOK, LockCourse, GoOn, Undisturbed, tables
  <1>3. CASE LockEnrollment(p) \/ CheckRules(p)
    BY <1>3 DEF TypeOK, LockEnrollment, CheckRules, GoOn, Undisturbed, tables, locks
  <1>4. QED
    BY <1>1, <1>2, <1>3

(* Whatever a transaction writes when it ends is under its own locks.      *)
OwnWrites(p) ==
  /\ \/ courses' = courses
     \/ pc[p] = "write" /\ \E n : courses' = [courses EXCEPT ![Crs(p)].selected = n]
  /\ \/ students' = students
     \/ pc[p] = "write" /\ \E n : students' = [students EXCEPT ![Stu(p)].used = n]
  /\ \/ enrollments' = enrollments
     \/ pc[p] = "write" /\ \E e : enrollments' = [enrollments EXCEPT ![target[p]] = e]
  /\ \/ requests' = requests
     \/ IsGrab(p) /\ \E v : requests' = [requests EXCEPT ![grab[p]] = v]

LEMMA EndWrites ==
  ASSUME NEW p \in Sessions,
         \/ Reject(p) \/ CommitGrab(p) \/ CommitDrop(p)
         \/ DeadlockAbort(p) \/ SystemError(p)
  PROVE  Finish(p) /\ pc[p] # "idle" /\ OwnWrites(p)
  <1>1. CASE CommitGrab(p)
    BY <1>1 DEF CommitGrab, OwnWrites
  <1>2. CASE CommitDrop(p)
    BY <1>2 DEF CommitDrop, OwnWrites
  <1>3. CASE Reject(p) \/ DeadlockAbort(p) \/ SystemError(p)
    BY <1>3 DEF Reject, DeadlockAbort, SystemError, OwnWrites, tables
  <1>4. QED
    BY <1>1, <1>2, <1>3

(* So its end disturbs nobody, and it gives up its own locks only.         *)
LEMMA EndUndisturbs ==
  ASSUME TypeOK, Rows, NEW p \in Sessions, NEW q \in Sessions, q # p,
         Finish(p), pc[p] # "idle", OwnWrites(p)
  PROVE  Undisturbed(q)
  <1>1. RowsCurrent(p)
    BY DEF Rows
  <1>2. /\ target[p] \in Keys /\ target[p] = <<Stu(p), Crs(p)>>
        /\ Stu(p) \in Students /\ Crs(p) \in Courses
    BY <1>1, KeyParts DEF RowsCurrent, Stu, Crs
  <1>3. /\ pc'[q] = pc[q] /\ grab'[q] = grab[q] /\ target'[q] = target[q]
        /\ studentRow'[q] = studentRow[q] /\ courseRow'[q] = courseRow[q]
        /\ \A s \in Students : studentLock[s] = q => studentLock'[s] = q
        /\ \A c \in Courses : courseLock[c] = q => courseLock'[c] = q
        /\ \A r \in Requests : requestLock[r] = q => requestLock'[r] = q
    BY DEF Finish, Release, TypeOK
  <1>4. ASSUME pc[p] = "write"
        PROVE  studentLock[Stu(p)] = p /\ courseLock[Crs(p)] = p
    BY <1>1, <1>4 DEF RowsCurrent
  <1>5. ASSUME NEW s \in Students, studentLock[s] = q
        PROVE  /\ students'[s] = students[s]
               /\ \A c \in Courses : enrollments'[<<s, c>>] = enrollments[<<s, c>>]
    <2>1. pc[p] = "write" => s # Stu(p)
      BY <1>4, <1>5
    <2>2. students'[s] = students[s]
      BY <2>1 DEF OwnWrites, TypeOK
    <2>3. \A c \in Courses : /\ <<s, c>> \in Keys
                             /\ pc[p] = "write" => <<s, c>> # target[p]
      BY <1>2, <2>1 DEF Keys
    <2>4. QED
      BY <2>2, <2>3 DEF OwnWrites, TypeOK
  <1>6. ASSUME NEW c \in Courses, courseLock[c] = q
        PROVE  courses'[c] = courses[c]
    <2>1. pc[p] = "write" => c # Crs(p)
      BY <1>4, <1>6
    <2>2. QED
      BY <2>1 DEF OwnWrites, TypeOK
  <1>7. ASSUME NEW r \in Requests, requestLock[r] = q
        PROVE  requests'[r] = requests[r]
    <2>1. IsGrab(p) => grab[p] \in Requests /\ grab[p] # r
      BY <1>1, <1>7 DEF RowsCurrent, IsGrab, TypeOK
    <2>2. QED
      BY <2>1 DEF OwnWrites, TypeOK
  <1>8. QED
    BY <1>3, <1>5, <1>6, <1>7 DEF Undisturbed

LEMMA TimeoutUndisturbs ==
  ASSUME TypeOK, NEW q \in Sessions, NEW r \in Requests, FailTimedOut(r)
  PROVE  Undisturbed(q)
  BY NoneAssumption DEF TypeOK, FailTimedOut, Undisturbed, locks, local

(* What a session has just read or checked is so.                          *)
LEMMA BeginCurrent ==
  ASSUME TypeOK, Rows, NEW p \in Sessions,
         \/ \E r \in Requests : BeginGrab(p, r)
         \/ \E k \in Keys : BeginDrop(p, k)
  PROVE  RowsCurrent(p)' /\ pc'[p] = "student"
  <1>1. ASSUME NEW r \in Requests, BeginGrab(p, r)
        PROVE  RowsCurrent(p)' /\ pc'[p] = "student"
    <2>1. pc'[p] = "student" /\ target'[p] = RequestKey[r] /\ grab'[p] = r
      BY <1>1 DEF BeginGrab, Following, TypeOK
    <2>2. requestLock'[r] = p /\ requests'[r] = "none" /\ RequestKey[r] \in Keys
      BY <1>1, RequestKeyAssumption DEF BeginGrab, ShouldProcess, TypeOK, tables
    <2>3. QED
      BY <2>1, <2>2 DEF RowsCurrent
  <1>2. ASSUME NEW k \in Keys, BeginDrop(p, k)
        PROVE  RowsCurrent(p)' /\ pc'[p] = "student"
    <2>1. pc'[p] = "student" /\ target'[p] = k /\ grab'[p] = None
      BY <1>2 DEF BeginDrop, Following, TypeOK, RowsCurrent, Rows, IsGrab
    <2>2. QED
      BY <2>1 DEF RowsCurrent, IsGrab
  <1>3. QED
    BY <1>1, <1>2

LEMMA ReadCurrent ==
  ASSUME TypeOK, Rows, NEW p \in Sessions,
         LockStudent(p) \/ LockCourse(p) \/ LockEnrollment(p) \/ CheckRules(p)
  PROVE  RowsCurrent(p)'
  <1>1. /\ RowsCurrent(p) /\ pc[p] # "idle"
        /\ grab' = grab /\ target' = target /\ requests' = requests
        /\ courses' = courses /\ students' = students /\ enrollments' = enrollments
        /\ requestLock' = requestLock
        /\ pc'[p] = Following(IsGrab(p))[pc[p]]
    BY DEF LockStudent, LockCourse, LockEnrollment, CheckRules, GoOn, tables, locks,
           Rows, TypeOK
  <1>2. /\ target[p] \in Keys /\ Stu(p) \in Students /\ Crs(p) \in Courses
        /\ Stu(p)' = Stu(p) /\ Crs(p)' = Crs(p) /\ (IsGrab(p)' <=> IsGrab(p))
    BY <1>1, KeyParts DEF RowsCurrent, Stu, Crs, IsGrab
  <1>3. (EnrollmentRefuses(p)' <=> EnrollmentRefuses(p))
        /\ (CourseRefuses(p)' <=> CourseRefuses(p))
    BY <1>1, <1>2 DEF EnrollmentRefuses, CourseRefuses
  <1>4. CASE LockStudent(p)
    <2>1. pc'[p] = "course"
      BY <1>1, <1>4 DEF LockStudent, Following
    <2>2. /\ studentLock'[Stu(p)] = p /\ studentRow'[p] = students[Stu(p)]
          /\ students[Stu(p)].status = 1
      BY <1>2, <1>4 DEF LockStudent, TypeOK
    <2>3. QED
      BY <1>1, <1>2, <2>1, <2>2 DEF RowsCurrent
  <1>5. CASE LockCourse(p)
    <2>1. pc'[p] = "enrollment"
      BY <1>1, <1>5 DEF LockCourse, Following
    <2>2. /\ courseLock'[Crs(p)] = p /\ courseRow'[p] = courses[Crs(p)]
          /\ ~CourseRefuses(p)
          /\ studentLock' = studentLock /\ studentRow' = studentRow
      BY <1>2, <1>5 DEF LockCourse, TypeOK
    <2>3. QED
      BY <1>1, <1>2, <1>3, <1>5, <2>1, <2>2 DEF RowsCurrent, LockCourse
  <1>6. CASE LockEnrollment(p)
    <2>1. /\ studentLock' = studentLock /\ studentRow' = studentRow
          /\ courseLock' = courseLock /\ courseRow' = courseRow
      BY <1>6 DEF LockEnrollment, locks
    <2>2. pc[p] = "enrollment" /\ ~EnrollmentRefuses(p)
      BY <1>6 DEF LockEnrollment
    <2>3. pc'[p] = IF IsGrab(p) THEN "rules" ELSE "write"
      BY <1>1, <2>2 DEF Following
    <2>4. QED
      BY <1>1, <1>2, <1>3, <2>1, <2>2, <2>3 DEF RowsCurrent
  <1>7. CASE CheckRules(p)
    <2>1. /\ studentLock' = studentLock /\ studentRow' = studentRow
          /\ courseLock' = courseLock /\ courseRow' = courseRow
      BY <1>7 DEF CheckRules, locks
    <2>2. pc[p] = "rules" /\ ~RulesRefuse(p)
      BY <1>7 DEF CheckRules
    <2>3. pc'[p] = "write"
      BY <1>1, <2>2 DEF Following
    <2>4. studentRow[p].used + courseRow[p].credit <= studentRow[p].limit
      BY <2>2 DEF RulesRefuse, TypeOK, StudentRow, CourseRow
    <2>5. QED
      BY <1>1, <1>2, <1>3, <2>1, <2>2, <2>3, <2>4 DEF RowsCurrent
  <1>8. QED
    BY <1>4, <1>5, <1>6, <1>7

LEMMA EndCurrent ==
  ASSUME TypeOK, NEW p \in Sessions, Finish(p)
  PROVE  RowsCurrent(p)' /\ pc'[p] = "idle"
  BY DEF TypeOK, Finish, RowsCurrent, IsGrab

(* A session that is about to write after a step was left alone by it, or  *)
(* has just locked its enrollment or checked the rules.                    *)
LEMMA StepOfOthers ==
  ASSUME TypeOK, Rows, [Next]_vars, NEW q \in Sessions
  PROVE  \/ Undisturbed(q)
         \/ pc'[q] \in {"idle", "student"} /\ RowsCurrent(q)'
         \/ (LockStudent(q) \/ LockCourse(q) \/ LockEnrollment(q) \/ CheckRules(q))
  <1>1. CASE \E p \in Sessions :
               \/ \E r \in Requests : BeginGrab(p, r)
               \/ \E k \in Keys : BeginDrop(p, k)
    BY <1>1, BeginUndisturbs, BeginCurrent
  <1>2. CASE \E p \in Sessions :
               \/ LockStudent(p) \/ LockCourse(p) \/ LockEnrollment(p) \/ CheckRules(p)
    BY <1>2, ReadUndisturbs
  <1>3. CASE \E p \in Sessions :
               \/ Reject(p) \/ CommitGrab(p) \/ CommitDrop(p)
               \/ DeadlockAbort(p) \/ SystemError(p)
    BY <1>3, EndWrites, EndUndisturbs, EndCurrent
  <1>4. CASE \E r \in Requests : FailTimedOut(r)
    BY <1>4, TimeoutUndisturbs
  <1>5. CASE UNCHANGED vars
    BY <1>5 DEF vars, Undisturbed
  <1>6. QED
    BY <1>1, <1>2, <1>3, <1>4, <1>5, NextCases

LEMMA RowsNext ==
  ASSUME TypeOK, Rows, [Next]_vars
  PROVE  TypeOK' /\ Rows'
  <1>1. TypeOK'
    BY TypeNext, RowsTarget
  <1>2. ASSUME NEW q \in Sessions PROVE RowsCurrent(q)'
    BY StepOfOthers, UndisturbedStays, ReadCurrent
  <1>3. QED
    BY <1>1, <1>2 DEF Rows
-----------------------------------------------------------------------------
(***************************************************************************)
(* The rest of CopiesCurrent: as long as nobody edits a course, the slots  *)
(* a grab has checked without a lock stay as they were.                    *)
(***************************************************************************)
Locking == TypeOK /\ LockDiscipline /\ Rows

LEMMA LockingTarget == ASSUME Locking PROVE HasTarget
  BY RowsTarget DEF Locking

LEMMA SlotsFixed ==
  ASSUME TypeOK, [Next]_vars, NEW c \in Courses
  PROVE  courses'[c].slot = courses[c].slot
  <1>1. \/ \E p \in Sessions : CommitGrab(p) \/ CommitDrop(p)
        \/ courses' = courses
    BY NextCases
    DEF BeginGrab, BeginDrop, LockStudent, LockCourse, LockEnrollment, CheckRules,
        Reject, DeadlockAbort, SystemError, FailTimedOut, tables, vars
  <1>2. courses' = courses \/ \E d, n : courses' = [courses EXCEPT ![d].selected = n]
    BY <1>1 DEF CommitGrab, CommitDrop
  <1>3. QED
    BY <1>2 DEF TypeOK, CourseRow

(* The student's courses, and their slots, are what the check has seen.    *)
LEMMA SlotsStayChecked ==
  ASSUME TypeOK, Rows, NEW q \in Sessions, pc[q] = "write",
         Undisturbed(q), \A c \in Courses : courses'[c].slot = courses[c].slot
  PROVE  SlotConflict(q)' <=> SlotConflict(q)
  <1>1. /\ target[q] \in Keys /\ Stu(q) \in Students /\ studentLock[Stu(q)] = q
    BY KeyParts DEF Rows, RowsCurrent, Stu
  <1>2. courseRow'[q] = courseRow[q] /\ Stu(q)' = Stu(q)
    BY DEF Undisturbed, Stu
  <1>3. Timetable(Stu(q))' = Timetable(Stu(q))
    BY <1>1, <1>2 DEF Undisturbed, Timetable
  <1>4. QED
    BY <1>2, <1>3 DEF SlotConflict, Timetable

LEMMA LockingNext ==
  ASSUME Locking, [Next]_vars
  PROVE  Locking'
  <1>1. TypeOK /\ Rows /\ TypeOK' /\ Rows'
    BY RowsNext DEF Locking
  <1>2. ASSUME NEW q \in Sessions, pc'[q] = "write", IsGrab(q)'
        PROVE  ~SlotConflict(q)'
    <2>1. CASE Undisturbed(q)
      <3>1. pc[q] = "write" /\ IsGrab(q)
        BY <1>2, <2>1 DEF Undisturbed, IsGrab
      <3>2. ~SlotConflict(q)
        BY <3>1 DEF Locking, LockDiscipline, CopiesCurrent, RulesRefuse
      <3>3. QED
        BY <1>1, <2>1, <3>1, <3>2, SlotsFixed, SlotsStayChecked
    <2>2. CASE CheckRules(q)
      <3>1. ~SlotConflict(q)
        BY <2>2 DEF CheckRules, RulesRefuse
      <3>2. UNCHANGED <<courses, enrollments, target, courseRow>>
        BY <2>2 DEF CheckRules, tables
      <3>3. QED
        BY <3>1, <3>2 DEF SlotConflict, Timetable, Stu
    <2>3. CASE LockStudent(q) \/ LockCourse(q) \/ LockEnrollment(q)
      <3>1. grab' = grab /\ pc'[q] = Following(IsGrab(q))[pc[q]]
        BY <2>3, <1>1
        DEF LockStudent, LockCourse, LockEnrollment, GoOn, TypeOK
      <3>2. QED
        BY <1>2, <2>3, <3>1
        DEF LockStudent, LockCourse, LockEnrollment, Following, IsGrab
    <2>4. QED
      BY <1>1, <1>2, <2>1, <2>2, <2>3, StepOfOthers
  <1>3. ASSUME NEW q \in Sessions PROVE CopiesCurrent(q)'
    <2>1. RowsCurrent(q)'
      BY <1>1 DEF Rows
    <2>2. (studentRow[q] \in StudentRow /\ courseRow[q] \in CourseRow)'
      BY <1>1 DEF TypeOK
    <2>3. (pc[q] = "write" /\ IsGrab(q) => ~RulesRefuse(q))'
      BY <1>2, <2>1, <2>2 DEF RowsCurrent, RulesRefuse, StudentRow, CourseRow
    <2>4. QED
      BY <2>1, <2>3 DEF RowsCurrent, CopiesCurrent
  <1>4. QED
    BY <1>1, <1>3 DEF Locking, LockDiscipline

LEMMA LockingAlways == Spec => []Locking
  <1>1. Init => Locking
    BY InitTypeOK DEF Init, Locking, LockDiscipline, CopiesCurrent, Rows, RowsCurrent, IsGrab
  <1>2. Locking /\ [Next]_vars => Locking'
    BY LockingNext
  <1>3. QED
    BY <1>1, <1>2, PTL DEF Spec

(* From its locking read to its commit a session's copy of a row equals    *)
(* the row, and what it has checked stays true: applySelectCourseTx and    *)
(* DropCourse may compute the new counters from what they read.            *)
THEOREM LocksProtect == Spec => []LockDiscipline
  <1>1. Locking => LockDiscipline
    BY DEF Locking
  <1>2. QED
    BY <1>1, LockingAlways, PTL
-----------------------------------------------------------------------------
(***************************************************************************)
(* What the locks are for: the counters and rules of the tables.           *)
(***************************************************************************)
WithinLimit == \A s \in Students : students[s].used <= students[s].limit

Books ==
  /\ Locking
  /\ CountMatchesRoster
  /\ NoOversell
  /\ NoSlotClash
  /\ WithinLimit

LEMMA RosterFinite ==
  ASSUME NEW c \in Courses
  PROVE  /\ IsFiniteSet(Roster(c)) /\ Cardinality(Roster(c)) \in Nat
         /\ IsFiniteSet(Roster(c)') /\ Cardinality(Roster(c)') \in Nat
  BY FiniteAssumption, FS_Subset, FS_CardinalityType DEF Roster

(* A step that leaves the three tables alone leaves the books alone.       *)
LEMMA BooksKept ==
  ASSUME Books, Locking', courses' = courses, students' = students,
         enrollments' = enrollments
  PROVE  Books'
  <1>1. /\ \A c \in Courses : Roster(c)' = Roster(c)
        /\ \A s \in Students : Timetable(s)' = Timetable(s)
    BY DEF Roster, Timetable
  <1>2. CountMatchesRoster' /\ NoOversell'
    BY <1>1 DEF Books, CountMatchesRoster, NoOversell
  <1>3. NoSlotClash' /\ WithinLimit'
    BY <1>1 DEF Books, NoSlotClash, WithinLimit
  <1>4. QED
    BY <1>2, <1>3 DEF Books

LEMMA CommitGrabBooks ==
  ASSUME Books, Locking', NEW p \in Sessions, CommitGrab(p)
  PROVE  Books'
  <1>1. CopiesCurrent(p) /\ pc[p] = "write" /\ IsGrab(p)
    BY DEF Books, Locking, LockDiscipline, CommitGrab
  <1>2. /\ target[p] \in Keys /\ target[p] = <<Stu(p), Crs(p)>>
        /\ Stu(p) \in Students /\ Crs(p) \in Courses
    BY <1>1, KeyParts DEF CopiesCurrent, Stu, Crs
  <1>3. /\ courseRow[p] = courses[Crs(p)] /\ studentRow[p] = students[Stu(p)]
        /\ courses[Crs(p)].selected < courses[Crs(p)].capacity
        /\ enrollments[target[p]] # "active"
        /\ ~RulesRefuse(p)
    <2>1. /\ courseRow[p] = courses[Crs(p)] /\ studentRow[p] = students[Stu(p)]
          /\ ~CourseRefuses(p) /\ ~EnrollmentRefuses(p) /\ ~RulesRefuse(p)
      BY <1>1 DEF CopiesCurrent
    <2>2. courses[Crs(p)] \in CourseRow
      BY <1>2 DEF Books, Locking, TypeOK
    <2>3. QED
      BY <1>1, <2>1, <2>2 DEF CourseRefuses, EnrollmentRefuses, CourseRow
  <1>4. ASSUME NEW c \in Courses, c # Crs(p)
        PROVE  courses'[c] = courses[c] /\ Roster(c)' = Roster(c)
    <2>1. \A s \in Students : <<s, c>> \in Keys /\ <<s, c>> # target[p]
      BY <1>2, <1>4 DEF Keys
    <2>2. \A s \in Students : enrollments'[<<s, c>>] = enrollments[<<s, c>>]
      BY <2>1 DEF CommitGrab, Books, Locking, TypeOK
    <2>3. courses'[c] = courses[c]
      BY <1>4 DEF CommitGrab, Books, Locking, TypeOK
    <2>4. QED
      BY <2>2, <2>3 DEF Roster
  <1>5. ASSUME NEW c \in Courses, c = Crs(p)
        PROVE  /\ courses'[c].selected = courses[c].selected + 1
               /\ courses'[c].capacity = courses[c].capacity
               /\ Roster(c)' = Roster(c) \cup {Stu(p)}
               /\ Stu(p) \notin Roster(c)
    <2>1. courses[c] \in CourseRow
      BY DEF Books, Locking, TypeOK
    <2>2. courses'[c] = [courses[c] EXCEPT !.selected = courses[c].selected + 1]
      BY <1>3, <1>5 DEF CommitGrab, Books, Locking, TypeOK
    <2>3. \A s \in Students : <<s, c>> \in Keys /\ (<<s, c>> = target[p] <=> s = Stu(p))
      BY <1>2, <1>5 DEF Keys
    <2>4. \A s \in Students : enrollments'[<<s, c>>] = "active" <=>
                                enrollments[<<s, c>>] = "active" \/ s = Stu(p)
      BY <2>3 DEF CommitGrab, Books, Locking, TypeOK
    <2>5. Roster(c)' = Roster(c) \cup {Stu(p)}
      BY <1>2, <2>4 DEF Roster
    <2>6. Stu(p) \notin Roster(c)
      BY <1>2, <1>3, <1>5 DEF Roster
    <2>7. QED
      BY <2>1, <2>2, <2>5, <2>6 DEF CourseRow
  <1>6. ASSUME NEW c \in Courses
        PROVE  /\ courses'[c].selected = Cardinality(Roster(c)')
               /\ Cardinality(Roster(c)') <= courses'[c].capacity
    <2>1. CASE c = Crs(p)
      <3>1. Cardinality(Roster(c)') = Cardinality(Roster(c)) + 1
        <4>1. IsFiniteSet(Roster(c))
          BY RosterFinite
        <4>2. Stu(p) \notin Roster(c) /\ Roster(c)' = Roster(c) \cup {Stu(p)}
          BY <1>5, <2>1
        <4>3. QED
          BY <4>1, <4>2, FS_AddElement
      <3>2. courses[c].selected = Cardinality(Roster(c)) /\ courses[c] \in CourseRow
        BY DEF Books, CountMatchesRoster, Locking, TypeOK
      <3>3. QED
        BY <1>3, <1>5, <2>1, <3>1, <3>2 DEF CourseRow
    <2>2. CASE c # Crs(p)
      BY <1>4, <2>2 DEF Books, CountMatchesRoster, NoOversell
    <2>3. QED
      BY <2>1, <2>2
  <1>7. \A c \in Courses : courses'[c].slot = courses[c].slot
    BY <1>2, <1>3 DEF CommitGrab, Books, Locking, TypeOK, CourseRow
  <1>8. NoSlotClash'
    <2> SUFFICES ASSUME NEW s \in Students,
                        NEW c \in Timetable(s)', NEW d \in Timetable(s)',
                        courses[c].slot = courses[d].slot
                 PROVE  c = d
      BY <1>7 DEF NoSlotClash, Timetable
    <2>1. \A e \in Timetable(s)' : e \in Timetable(s) \/ (s = Stu(p) /\ e = Crs(p))
      <3>1. \A e \in Courses : <<s, e>> \in Keys
                    /\ (<<s, e>> = target[p] <=> s = Stu(p) /\ e = Crs(p))
        BY <1>2 DEF Keys
      <3>2. QED
        BY <3>1 DEF Timetable, CommitGrab, Books, Locking, TypeOK
    <2>2. \A e \in Timetable(Stu(p)) : courses[e].slot # courses[Crs(p)].slot
      BY <1>3 DEF RulesRefuse, SlotConflict
    <2>3. QED
      BY <2>1, <2>2 DEF Books, NoSlotClash
  <1>9. WithinLimit'
    <2> SUFFICES ASSUME NEW s \in Students
                 PROVE  students'[s].used <= students'[s].limit
      BY DEF WithinLimit
    <2>1. CASE s = Stu(p)
      <3>1. students[s] \in StudentRow /\ courses[Crs(p)] \in CourseRow
        BY <1>2 DEF Books, Locking, TypeOK
      <3>2. students[s].used + courses[Crs(p)].credit <= students[s].limit
        BY <1>3, <2>1, <3>1 DEF RulesRefuse, StudentRow, CourseRow
      <3>3. students'[s] = [students[s] EXCEPT
                              !.used = students[s].used + courses[Crs(p)].credit]
        BY <1>2, <1>3, <2>1 DEF CommitGrab, Books, Locking, TypeOK
      <3>4. QED
        BY <3>1, <3>2, <3>3 DEF StudentRow
    <2>2. CASE s # Stu(p)
      BY <1>2, <2>2 DEF CommitGrab, Books, Locking, TypeOK, WithinLimit
    <2>3. QED
      BY <2>1, <2>2
  <1>10. QED
    BY <1>6, <1>8, <1>9 DEF Books, CountMatchesRoster, NoOversell

LEMMA CommitDropBooks ==
  ASSUME Books, Locking', NEW p \in Sessions, CommitDrop(p)
  PROVE  Books'
  <1>1. CopiesCurrent(p) /\ pc[p] = "write" /\ ~IsGrab(p)
    BY DEF Books, Locking, LockDiscipline, CommitDrop
  <1>2. /\ target[p] \in Keys /\ target[p] = <<Stu(p), Crs(p)>>
        /\ Stu(p) \in Students /\ Crs(p) \in Courses
    BY <1>1, KeyParts DEF CopiesCurrent, Stu, Crs
  <1>3. /\ courseRow[p] = courses[Crs(p)] /\ studentRow[p] = students[Stu(p)]
        /\ enrollments[target[p]] = "active"
    BY <1>1 DEF CopiesCurrent, EnrollmentRefuses
  <1>4. ASSUME NEW s \in Students, NEW c \in Courses
        PROVE  enrollments'[<<s, c>>] = "active" <=>
                 enrollments[<<s, c>>] = "active" /\ ~(s = Stu(p) /\ c = Crs(p))
    <2>1. <<s, c>> \in Keys /\ (<<s, c>> = target[p] <=> s = Stu(p) /\ c = Crs(p))
      BY <1>2 DEF Keys
    <2>2. QED
      BY <2>1 DEF CommitDrop, Books, Locking, TypeOK
  <1>5. ASSUME NEW c \in Courses
        PROVE  /\ courses'[c].selected = Cardinality(Roster(c)')
               /\ Cardinality(Roster(c)') <= courses'[c].capacity
    <2>1. /\ courses[c] \in CourseRow
          /\ courses[c].selected = Cardinality(Roster(c))
          /\ Cardinality(Roster(c)) <= courses[c].capacity
      BY DEF Books, Locking, TypeOK, CountMatchesRoster, NoOversell
    <2>2. CASE c = Crs(p)
      <3>1. Stu(p) \in Roster(c) /\ Roster(c)' = Roster(c) \ {Stu(p)}
        BY <1>2, <1>3, <1>4, <2>2 DEF Roster
      <3>2. Cardinality(Roster(c)') = Cardinality(Roster(c)) - 1
        <4>1. IsFiniteSet(Roster(c))
          BY RosterFinite
        <4>2. QED
          BY <3>1, <4>1, FS_RemoveElement
      <3>3. Cardinality(Roster(c)) \in Nat /\ Cardinality(Roster(c)') \in Nat
        BY RosterFinite
      <3>4. FloorMinus(courses[c].selected, 1) = courses[c].selected - 1
        BY <2>1, <3>2, <3>3 DEF FloorMinus
      <3>5. courses'[c] = [courses[c] EXCEPT !.selected = courses[c].selected - 1]
        BY <1>3, <2>2, <3>4 DEF CommitDrop, Books, Locking, TypeOK
      <3>6. QED
        BY <2>1, <3>2, <3>3, <3>5 DEF CourseRow
    <2>3. CASE c # Crs(p)
      <3>1. Roster(c)' = Roster(c)
        BY <1>4, <2>3 DEF Roster
      <3>2. courses'[c] = courses[c]
        BY <2>3 DEF CommitDrop, Books, Locking, TypeOK
      <3>3. QED
        BY <2>1, <3>1, <3>2
    <2>4. QED
      BY <2>2, <2>3
  <1>6. \A c \in Courses : courses'[c].slot = courses[c].slot
    BY <1>2, <1>3 DEF CommitDrop, Books, Locking, TypeOK, CourseRow
  <1>7. NoSlotClash'
    <2>1. \A s \in Students : Timetable(s)' \subseteq Timetable(s)
      BY <1>4 DEF Timetable
    <2>2. QED
      BY <1>6, <2>1 DEF Books, NoSlotClash, Timetable
  <1>8. WithinLimit'
    <2> SUFFICES ASSUME NEW s \in Students
                 PROVE  students'[s].used <= students'[s].limit
      BY DEF WithinLimit
    <2>1. students[s] \in StudentRow /\ students[s].used <= students[s].limit
      BY DEF Books, Locking, TypeOK, WithinLimit
    <2>2. CASE s = Stu(p)
      <3>1. courses[Crs(p)] \in CourseRow
        BY <1>2 DEF Books, Locking, TypeOK
      <3>2. FloorMinus(students[s].used, courses[Crs(p)].credit) <= students[s].used
        BY <2>1, <3>1 DEF FloorMinus, StudentRow, CourseRow
      <3>3. FloorMinus(students[s].used, courses[Crs(p)].credit) \in Nat
        BY <2>1, <3>1 DEF FloorMinus, StudentRow, CourseRow
      <3>4. students'[s] = [students[s] EXCEPT
                      !.used = FloorMinus(students[s].used, courses[Crs(p)].credit)]
        BY <1>3, <2>2 DEF CommitDrop, Books, Locking, TypeOK
      <3>5. QED
        BY <2>1, <3>2, <3>3, <3>4 DEF StudentRow
    <2>3. CASE s # Stu(p)
      BY <2>1, <2>3 DEF CommitDrop, Books, Locking, TypeOK
    <2>4. QED
      BY <2>2, <2>3
  <1>9. QED
    BY <1>5, <1>7, <1>8 DEF Books, CountMatchesRoster, NoOversell

(* Only the two commits write the tables that the books are about.         *)
LEMMA OnlyCommitsWrite ==
  ASSUME [Next]_vars
  PROVE  \/ \E p \in Sessions : CommitGrab(p) \/ CommitDrop(p)
         \/ UNCHANGED <<courses, students, enrollments>>
  BY NextCases
  DEF BeginGrab, BeginDrop, LockStudent, LockCourse, LockEnrollment, CheckRules, Reject,
      DeadlockAbort, SystemError, FailTimedOut, tables, vars

LEMMA BooksNext ==
  ASSUME Books, [Next]_vars
  PROVE  Books'
  <1>1. Locking'
    BY LockingNext DEF Books
  <1>2. QED
    BY <1>1, OnlyCommitsWrite, BooksKept, CommitGrabBooks, CommitDropBooks

LEMMA BooksInit ==
  ASSUME Init
  PROVE  Books
  <1>1. Locking
    BY InitTypeOK DEF Init, Locking, LockDiscipline, CopiesCurrent, Rows, RowsCurrent, IsGrab
  <1>2. \A s \in Students, c \in Courses : enrollments[<<s, c>>] # "active"
    BY DEF Init, Keys
  <1>3. /\ \A c \in Courses : Roster(c) = {}
        /\ \A s \in Students : Timetable(s) = {}
    BY <1>2 DEF Roster, Timetable
  <1>4. \A c \in Courses : courses[c].selected = 0 /\ courses[c].capacity \in Nat
    BY TableAssumption DEF Init
  <1>5. \A s \in Students : students[s].used = 0 /\ students[s].limit \in Nat
    BY TableAssumption DEF Init
  <1>6. CountMatchesRoster /\ NoOversell
    BY <1>3, <1>4, FS_EmptySet DEF CountMatchesRoster, NoOversell
  <1>7. NoSlotClash /\ WithinLimit
    BY <1>3, <1>5 DEF NoSlotClash, WithinLimit
  <1>8. QED
    BY <1>1, <1>6, <1>7 DEF Books

LEMMA BooksAlways == Spec => []Books
  <1>1. Init => Books
    BY BooksInit
  <1>2. Books /\ [Next]_vars => Books'
    BY BooksNext
  <1>3. QED
    BY <1>1, <1>2, PTL DEF Spec

(* selected_count is the number of active enrollments of the course at     *)
(* every moment: no grab or drop loses another's update.                   *)
THEOREM CountsCorrect == Spec => []CountMatchesRoster
  <1>1. Books => CountMatchesRoster
    BY DEF Books
  <1>2. QED
    BY <1>1, BooksAlways, PTL

(* No course has more active enrollments than places, for any number of    *)
(* students racing for the last ones (administrators leaving it alone).    *)
THEOREM NeverOversold == Spec => []NoOversell
  <1>1. Books => NoOversell
    BY DEF Books
  <1>2. QED
    BY <1>1, BooksAlways, PTL

(* No student has two courses in one slot: the unlocked join read is safe  *)
(* because every grab of hers holds her row.                               *)
THEOREM NeverClashing == Spec => []NoSlotClash
  <1>1. Books => NoSlotClash
    BY DEF Books
  <1>2. QED
    BY <1>1, BooksAlways, PTL

(* No student's credit_used exceeds her credit_limit, and it is the sum of *)
(* the credits of her active courses: see CreditsPaid.                     *)
LEMMA LimitsKept == Spec => []WithinLimit
  <1>1. Books => WithinLimit
    BY DEF Books
  <1>2. QED
    BY <1>1, BooksAlways, PTL
-----------------------------------------------------------------------------
(***************************************************************************)
(* Credits.  A commit adds to, or takes from, a student's credit_used what *)
(* it adds to, or takes from, the sum over her courses.                    *)
(***************************************************************************)
CreditOf == [c \in Courses |-> courses[c].credit]
CreditsPaid == \A s \in Students : students[s].used = Credits(s)
Ledger == Books /\ CreditsPaid

LEMMA CreditsTyped ==
  ASSUME TypeOK, NEW s \in Students
  PROVE  /\ IsFiniteSet(Timetable(s))
         /\ \A c \in Courses : CreditOf[c] \in Nat
         /\ Credits(s) = SumOver(CreditOf, Timetable(s))
         /\ Credits(s) \in Nat
  <1>1. Timetable(s) \subseteq Courses
    BY DEF Timetable
  <1>2. IsFiniteSet(Timetable(s))
    BY <1>1, FiniteAssumption, FS_Subset
  <1>3. \A c \in Courses : CreditOf[c] \in Nat
    BY DEF CreditOf, TypeOK, CourseRow
  <1>4. Credits(s) = SumOver(CreditOf, Timetable(s))
    BY DEF Credits, CreditOf
  <1>5. QED
    BY <1>1, <1>2, <1>3, <1>4, SumType

(* Which row of courses and of students a commit writes, and how.          *)
LEMMA CommitWrites ==
  ASSUME Locking, NEW p \in Sessions, CommitGrab(p) \/ CommitDrop(p)
  PROVE  /\ CopiesCurrent(p)
         /\ target[p] \in Keys /\ target[p] = <<Stu(p), Crs(p)>>
         /\ Stu(p) \in Students /\ Crs(p) \in Courses
         /\ courseRow[p] = courses[Crs(p)] /\ studentRow[p] = students[Stu(p)]
         /\ \A c \in Courses : /\ courses'[c].credit = courses[c].credit
                               /\ courses'[c].slot = courses[c].slot
                               /\ courses'[c].status = courses[c].status
                               /\ courses'[c].capacity = courses[c].capacity
         /\ \A s \in Students : students'[s].limit = students[s].limit
  <1>1. CopiesCurrent(p) /\ pc[p] = "write"
    BY DEF Locking, LockDiscipline, CommitGrab, CommitDrop
  <1>2. /\ target[p] \in Keys /\ target[p] = <<Stu(p), Crs(p)>>
        /\ Stu(p) \in Students /\ Crs(p) \in Courses
    BY <1>1, KeyParts DEF CopiesCurrent, Stu, Crs
  <1>3. courseRow[p] = courses[Crs(p)] /\ studentRow[p] = students[Stu(p)]
    BY <1>1 DEF CopiesCurrent
  <1>4. \E n : courses' = [courses EXCEPT ![Crs(p)].selected = n]
    BY DEF CommitGrab, CommitDrop
  <1>5. \A c \in Courses : /\ courses'[c].credit = courses[c].credit
                           /\ courses'[c].slot = courses[c].slot
                           /\ courses'[c].status = courses[c].status
                           /\ courses'[c].capacity = courses[c].capacity
    BY <1>4 DEF Locking, TypeOK, CourseRow
  <1>6. \E n : students' = [students EXCEPT ![Stu(p)].used = n]
    BY DEF CommitGrab, CommitDrop
  <1>7. \A s \in Students : students'[s].limit = students[s].limit
    BY <1>6 DEF Locking, TypeOK, StudentRow
  <1>8. QED
    BY <1>1, <1>2, <1>3, <1>5, <1>7

LEMMA CommitGrabLedger ==
  ASSUME Ledger, NEW p \in Sessions, CommitGrab(p)
  PROVE  CreditsPaid'
  <1>1. TypeOK /\ Locking
    BY DEF Ledger, Books, Locking
  <1>2. /\ CopiesCurrent(p) /\ target[p] \in Keys
        /\ Stu(p) \in Students /\ Crs(p) \in Courses
        /\ target[p] = <<Stu(p), Crs(p)>>
        /\ courseRow[p] = courses[Crs(p)] /\ studentRow[p] = students[Stu(p)]
        /\ CreditOf' = CreditOf
    BY <1>1, CommitWrites DEF CreditOf
  <1>3. enrollments[target[p]] # "active"
    BY <1>2 DEF CopiesCurrent, EnrollmentRefuses, CommitGrab
  <1>4. ASSUME NEW s \in Students
        PROVE  /\ students'[s].used = IF s = Stu(p) THEN students[s].used + CreditOf[Crs(p)]
                                                    ELSE students[s].used
               /\ Timetable(s)' = IF s = Stu(p) THEN Timetable(s) \cup {Crs(p)}
                                                ELSE Timetable(s)
    <2>1. students'[s].used = IF s = Stu(p) THEN students[s].used + CreditOf[Crs(p)]
                                            ELSE students[s].used
      BY <1>1, <1>2 DEF CommitGrab, TypeOK, StudentRow, CreditOf
    <2>2. \A c \in Courses : <<s, c>> \in Keys
                             /\ (<<s, c>> = target[p] <=> s = Stu(p) /\ c = Crs(p))
      BY <1>2 DEF Keys
    <2>3. \A c \in Courses : enrollments'[<<s, c>>] = "active" <=>
                enrollments[<<s, c>>] = "active" \/ (s = Stu(p) /\ c = Crs(p))
      BY <1>1, <2>2 DEF CommitGrab, TypeOK
    <2>4. QED
      BY <1>2, <2>1, <2>3 DEF Timetable
  <1>5. ASSUME NEW s \in Students PROVE students'[s].used = Credits(s)'
    <2>1. /\ IsFiniteSet(Timetable(s)) /\ \A c \in Courses : CreditOf[c] \in Nat
          /\ students[s].used = SumOver(CreditOf, Timetable(s))
      BY <1>1, CreditsTyped DEF Ledger, CreditsPaid
    <2>2. Credits(s)' = SumOver(CreditOf, Timetable(s)')
      BY <1>2 DEF Credits, CreditOf
    <2>3. CASE s = Stu(p)
      <3>1. Crs(p) \notin Timetable(s) /\ Timetable(s) \subseteq Courses
        BY <1>2, <1>3, <2>3 DEF Timetable
      <3>2. SumOver(CreditOf, Timetable(s) \cup {Crs(p)})
              = SumOver(CreditOf, Timetable(s)) + CreditOf[Crs(p)]
        BY <1>2, <2>1, <3>1, SumAdd
      <3>3. QED
        BY <1>4, <2>1, <2>2, <2>3, <3>2
    <2>4. CASE s # Stu(p)
      BY <1>4, <2>1, <2>2, <2>4
    <2>5. QED
      BY <2>3, <2>4
  <1>6. QED
    BY <1>5 DEF CreditsPaid

LEMMA CommitDropLedger ==
  ASSUME Ledger, NEW p \in Sessions, CommitDrop(p)
  PROVE  CreditsPaid'
  <1>1. TypeOK /\ Locking
    BY DEF Ledger, Books, Locking
  <1>2. /\ CopiesCurrent(p) /\ target[p] \in Keys
        /\ Stu(p) \in Students /\ Crs(p) \in Courses
        /\ target[p] = <<Stu(p), Crs(p)>>
        /\ courseRow[p] = courses[Crs(p)] /\ studentRow[p] = students[Stu(p)]
        /\ CreditOf' = CreditOf
    BY <1>1, CommitWrites DEF CreditOf
  <1>3. enrollments[target[p]] = "active"
    BY <1>2 DEF CopiesCurrent, EnrollmentRefuses, CommitDrop
  <1>4. ASSUME NEW s \in Students
        PROVE  /\ students'[s].used = IF s = Stu(p)
                                      THEN FloorMinus(students[s].used, CreditOf[Crs(p)])
                                      ELSE students[s].used
               /\ Timetable(s)' = IF s = Stu(p) THEN Timetable(s) \ {Crs(p)}
                                                ELSE Timetable(s)
    <2>1. students'[s].used = IF s = Stu(p)
                              THEN FloorMinus(students[s].used, CreditOf[Crs(p)])
                              ELSE students[s].used
      BY <1>1, <1>2 DEF CommitDrop, TypeOK, StudentRow, CreditOf
    <2>2. \A c \in Courses : <<s, c>> \in Keys
                             /\ (<<s, c>> = target[p] <=> s = Stu(p) /\ c = Crs(p))
      BY <1>2 DEF Keys
    <2>3. \A c \in Courses : enrollments'[<<s, c>>] = "active" <=>
                enrollments[<<s, c>>] = "active" /\ ~(s = Stu(p) /\ c = Crs(p))
      BY <1>1, <2>2 DEF CommitDrop, TypeOK
    <2>4. QED
      BY <1>2, <2>1, <2>3 DEF Timetable
  <1>5. ASSUME NEW s \in Students PROVE students'[s].used = Credits(s)'
    <2>1. /\ IsFiniteSet(Timetable(s)) /\ \A c \in Courses : CreditOf[c] \in Nat
          /\ students[s].used = SumOver(CreditOf, Timetable(s))
          /\ SumOver(CreditOf, Timetable(s)) \in Nat
      BY <1>1, CreditsTyped DEF Ledger, CreditsPaid
    <2>2. Credits(s)' = SumOver(CreditOf, Timetable(s)')
      BY <1>2 DEF Credits, CreditOf
    <2>3. CASE s = Stu(p)
      <3>1. Crs(p) \in Timetable(s) /\ Timetable(s) \subseteq Courses
        BY <1>2, <1>3, <2>3 DEF Timetable
      <3>2. /\ SumOver(CreditOf, Timetable(s) \ {Crs(p)})
                 = SumOver(CreditOf, Timetable(s)) - CreditOf[Crs(p)]
            /\ CreditOf[Crs(p)] <= SumOver(CreditOf, Timetable(s))
        BY <1>2, <2>1, <3>1, SumRemove
      <3>3. FloorMinus(students[s].used, CreditOf[Crs(p)])
              = SumOver(CreditOf, Timetable(s)) - CreditOf[Crs(p)]
        BY <2>1, <3>2 DEF FloorMinus
      <3>4. QED
        BY <1>4, <2>2, <2>3, <3>2, <3>3
    <2>4. CASE s # Stu(p)
      BY <1>4, <2>1, <2>2, <2>4
    <2>5. QED
      BY <2>3, <2>4
  <1>6. QED
    BY <1>5 DEF CreditsPaid

LEMMA LedgerAlways == Spec => []Ledger
  <1>1. Init => CreditsPaid
    <2> SUFFICES ASSUME Init, NEW s \in Students PROVE students[s].used = Credits(s)
      BY DEF CreditsPaid
    <2>1. students[s].used = 0
      BY TableAssumption DEF Init
    <2>2. \A c \in Courses : <<s, c>> \in Keys
      BY DEF Keys
    <2>3. Timetable(s) = {}
      BY <2>2 DEF Init, Timetable
    <2>4. QED
      BY <2>1, <2>3, SumEmpty DEF Credits
  <1>2. Ledger /\ [Next]_vars => CreditsPaid'
    <2>1. ASSUME Ledger, UNCHANGED <<courses, students, enrollments>>
          PROVE  CreditsPaid'
      BY <2>1 DEF Ledger, CreditsPaid, Credits, Timetable
    <2>2. QED
      BY <2>1, OnlyCommitsWrite, CommitGrabLedger, CommitDropLedger
  <1>3. QED
    BY <1>1, <1>2, BooksInit, BooksNext, PTL DEF Spec, Ledger

(* credit_used is the sum of the credits of the student's active courses,  *)
(* and within her limit: grabs and drops of one student write it from      *)
(* copies that are current, so neither loses what the other has written.   *)
THEOREM CreditsCorrect == Spec => []CreditsWithinLimit
  <1>1. Ledger => CreditsWithinLimit
    BY DEF Ledger, Books, CreditsPaid, WithinLimit, CreditsWithinLimit
  <1>2. QED
    BY <1>1, LedgerAlways, PTL
-----------------------------------------------------------------------------
(***************************************************************************)
(* The refinement.  A commit of a grab is Accept, one of a drop Drop, the  *)
(* end of a refused or timed out request Refuse; nothing else shows.       *)
(***************************************************************************)
LEMMA PromiseSums ==
  /\ \A S : Promise!Cardinality(S) = Cardinality(S)
  /\ \A f, S : Promise!SumOver(f, S) = SumOver(f, S)
  <1>1. \A S : Promise!Cardinality(S) = Cardinality(S)
    BY DEF Promise!Cardinality, Cardinality
  <1>2. \A f, S : Promise!Units(f, S) = Units(f, S)
    BY DEF Promise!Units, Units
  <1>3. QED
    BY <1>1, <1>2 DEF Promise!SumOver, SumOver

LEMMA PromiseOperators ==
  ASSUME TypeOK
  PROVE  /\ \A c \in Courses : Promise!RosterOf(c) = Roster(c)
         /\ \A s \in Students : /\ Promise!TimetableOf(s) = Timetable(s)
                                /\ Promise!CreditsOf(s) = Credits(s)
  <1>1. \A s \in Students, c \in Courses : <<s, c>> \in Keys
    BY DEF Keys
  <1>2. /\ \A c \in Courses : Promise!RosterOf(c) = Roster(c)
        /\ \A s \in Students : Promise!TimetableOf(s) = Timetable(s)
    BY <1>1 DEF Promise!RosterOf, Promise!TimetableOf, Roster, Timetable
  <1>3. ASSUME NEW s \in Students PROVE Promise!CreditsOf(s) = Credits(s)
    <2>1. [c \in Courses |-> [c_1 \in Courses |->
                 [status |-> courses[c_1].status,
                  capacity |-> courses[c_1].capacity,
                  credit |-> courses[c_1].credit,
                  slot |-> courses[c_1].slot]][c].credit]
            = [c \in Courses |-> courses[c].credit]
      OBVIOUS
    <2>2. QED
      BY <1>2, <2>1, PromiseSums DEF Promise!CreditsOf, Credits
  <1>4. QED
    BY <1>2, <1>3

CatalogueKept ==
  /\ \A c \in Courses : /\ courses'[c].credit = courses[c].credit
                        /\ courses'[c].slot = courses[c].slot
                        /\ courses'[c].status = courses[c].status
                        /\ courses'[c].capacity = courses[c].capacity
  /\ \A s \in Students : students'[s].limit = students[s].limit

LEMMA CommitGrabAccepts ==
  ASSUME Ledger, NEW p \in Sessions, CommitGrab(p)
  PROVE  Promise!Accept(grab[p])
  <1>1. TypeOK /\ Locking
    BY DEF Ledger, Books, Locking
  <1>2. /\ CopiesCurrent(p) /\ target[p] \in Keys
        /\ Stu(p) \in Students /\ Crs(p) \in Courses
        /\ target[p] = <<Stu(p), Crs(p)>>
        /\ courseRow[p] = courses[Crs(p)] /\ studentRow[p] = students[Stu(p)]
        /\ CatalogueKept
    BY <1>1, CommitWrites DEF CatalogueKept
  <1>3. /\ pc[p] = "write" /\ IsGrab(p) /\ grab[p] \in Requests
        /\ requests[grab[p]] = "none" /\ target[p] = RequestKey[grab[p]]
        /\ ~CourseRefuses(p) /\ ~EnrollmentRefuses(p) /\ ~RulesRefuse(p)
    BY <1>1, <1>2 DEF CopiesCurrent, CommitGrab, IsGrab, TypeOK
  <1>4. /\ courses[Crs(p)] \in CourseRow /\ students[Stu(p)] \in StudentRow
        /\ courses[Crs(p)].selected = Cardinality(Roster(Crs(p)))
        /\ students[Stu(p)].used = Credits(Stu(p))
    BY <1>1, <1>2 DEF TypeOK, Ledger, Books, CountMatchesRoster, CreditsPaid
  <1>5. Promise!Admissible(Stu(p), Crs(p))
    <2>1. courses[Crs(p)].status = 1
      BY <1>3 DEF CourseRefuses
    <2>2. Cardinality(Promise!RosterOf(Crs(p))) < courses[Crs(p)].capacity
      BY <1>1, <1>2, <1>3, <1>4, PromiseOperators DEF CourseRefuses, CourseRow
    <2>3. <<Stu(p), Crs(p)>> \notin {k \in Keys : enrollments[k] = "active"}
      BY <1>2, <1>3 DEF EnrollmentRefuses
    <2>4. \A d \in Timetable(Stu(p)) : courses[d].slot # courses[Crs(p)].slot
      BY <1>2, <1>3 DEF RulesRefuse, SlotConflict
    <2>5. Credits(Stu(p)) + courses[Crs(p)].credit <= students[Stu(p)].limit
      BY <1>2, <1>3, <1>4 DEF RulesRefuse, CourseRow, StudentRow
    <2>6. /\ Promise!TimetableOf(Stu(p)) = Timetable(Stu(p))
          /\ Promise!CreditsOf(Stu(p)) = Credits(Stu(p))
          /\ Timetable(Stu(p)) \subseteq Courses
      BY <1>1, <1>2, PromiseOperators DEF Timetable
    <2>7. QED
      BY <1>2, <2>1, <2>2, <2>3, <2>4, <2>5, <2>6, PromiseSums
      DEF Promise!Admissible
  <1>6. {k \in Keys : enrollments'[k] = "active"}
          = {k \in Keys : enrollments[k] = "active"} \cup {RequestKey[grab[p]]}
    BY <1>1, <1>2, <1>3 DEF CommitGrab, TypeOK
  <1>7. requests' = [requests EXCEPT ![grab[p]] = "success"]
    BY DEF CommitGrab
  <1>8. RequestKey[grab[p]][1] = Stu(p) /\ RequestKey[grab[p]][2] = Crs(p)
    BY <1>3 DEF Stu, Crs
  <1>9. QED
    BY <1>2, <1>3, <1>5, <1>6, <1>7, <1>8 DEF Promise!Accept, CatalogueKept

LEMMA CommitDropDrops ==
  ASSUME Ledger, NEW p \in Sessions, CommitDrop(p)
  PROVE  Promise!Drop(target[p]) /\ target[p] \in Keys
  <1>1. TypeOK /\ Locking
    BY DEF Ledger, Books, Locking
  <1>2. CopiesCurrent(p) /\ target[p] \in Keys /\ CatalogueKept
    BY <1>1, CommitWrites DEF CatalogueKept
  <1>3. enrollments[target[p]] = "active"
    BY <1>2 DEF CopiesCurrent, EnrollmentRefuses, CommitDrop
  <1>4. {k \in Keys : enrollments'[k] = "active"}
          = {k \in Keys : enrollments[k] = "active"} \ {target[p]}
    BY <1>1, <1>2 DEF CommitDrop, TypeOK
  <1>5. requests' = requests
    BY DEF CommitDrop
  <1>6. QED
    BY <1>2, <1>3, <1>4, <1>5 DEF Promise!Drop, CatalogueKept

(* The locking transactions implement the indivisible selection: whatever  *)
(* they interleave with, what HandleGrabMessage and DropCourse commit is a *)
(* selection that obeys all the rules, or a drop of a course that is held, *)
(* and a request is decided once.                                          *)
THEOREM TransactionsImplementSelection == Spec => ImplementsEnrollment
  <1>1. Init => Promise!Init
    BY DEF Init, Promise!Init
  <1>2. Ledger /\ [Next]_vars => [Promise!Next]_(Promise!vars)
    <2> SUFFICES ASSUME Ledger, [Next]_vars PROVE [Promise!Next]_(Promise!vars)
      OBVIOUS
    <2>1. ASSUME NEW p \in Sessions, CommitGrab(p) PROVE Promise!Next
      <3>1. grab[p] \in Requests
        BY <2>1 DEF CommitGrab, IsGrab, Ledger, Books, Locking, LockDiscipline,
                    CopiesCurrent, TypeOK
      <3>2. Promise!Accept(grab[p])
        BY <2>1, CommitGrabAccepts
      <3>3. PICK r \in Requests : Promise!Accept(r)
        BY <3>1, <3>2 DEF Promise!Accept
      <3>4. QED
        BY <3>3 DEF Promise!Next
    <2>2. ASSUME NEW p \in Sessions, CommitDrop(p) PROVE Promise!Next
      <3>1. Promise!Drop(target[p]) /\ target[p] \in Keys
        BY <2>2, CommitDropDrops
      <3>2. PICK k \in Keys : Promise!Drop(k)
        BY <3>1 DEF Promise!Drop
      <3>3. QED
        BY <3>2 DEF Promise!Next, Keys
    <2>3. ASSUME UNCHANGED <<courses, students, enrollments>>,
                 NEW r \in Requests, requests[r] = "none",
                 requests' = [requests EXCEPT ![r] = "failed"]
          PROVE  Promise!Next
      <3>1. Promise!Refuse(r)
        BY <2>3 DEF Promise!Refuse
      <3>2. QED
        BY <3>1 DEF Promise!Next
    <2>4. ASSUME UNCHANGED tables PROVE UNCHANGED Promise!vars
      BY <2>4 DEF Promise!vars, tables
    <2>5. ASSUME NEW p \in Sessions, Reject(p) PROVE [Promise!Next]_(Promise!vars)
      <3>1. IsGrab(p) => grab[p] \in Requests /\ requests[grab[p]] = "none"
        BY DEF Ledger, Books, Locking, LockDiscipline, CopiesCurrent, TypeOK, IsGrab
      <3>2. QED
        BY <2>3, <2>4, <2>5, <3>1 DEF Reject, tables
    <2>6. ASSUME NEW r \in Requests, FailTimedOut(r) PROVE Promise!Next
      BY <2>3, <2>6 DEF FailTimedOut, ShouldProcess
    <2>7. \/ \E p \in Sessions : CommitGrab(p) \/ CommitDrop(p) \/ Reject(p)
          \/ \E r \in Requests : FailTimedOut(r)
          \/ UNCHANGED tables
      BY NextCases
      DEF BeginGrab, BeginDrop, LockStudent, LockCourse, LockEnrollment, CheckRules,
          DeadlockAbort, SystemError, vars, tables
    <2>8. QED
      BY <2>1, <2>2, <2>4, <2>5, <2>6, <2>7
  <1>3. QED
    BY <1>1, <1>2, LedgerAlways, PTL DEF Spec, ImplementsEnrollment, Promise!Spec
-----------------------------------------------------------------------------
(***************************************************************************)
(* Idempotency.  The request's uncommitted row keeps every other decision  *)
(* away until the transaction ends.                                        *)
(***************************************************************************)
LEMMA CommitDecides ==
  ASSUME Locking, NEW p \in Sessions, CommitGrab(p)
  PROVE  DecideStep
  <1>1. CopiesCurrent(p) /\ IsGrab(p) /\ pc[p] = "write"
    BY DEF Locking, LockDiscipline, CommitGrab
  <1>2. /\ grab[p] \in Requests /\ requests[grab[p]] = "none"
        /\ target[p] = RequestKey[grab[p]]
    BY <1>1 DEF CopiesCurrent, IsGrab, Locking, TypeOK
  <1>3. requests'[grab[p]] = "success"
    BY <1>2 DEF CommitGrab, Locking, TypeOK
  <1>4. \A r \in Requests : requests[r] # "none" => requests'[r] = requests[r]
    BY <1>2 DEF CommitGrab, Locking, TypeOK
  <1>5. \A k \in Keys : k # target[p] => enrollments'[k] = enrollments[k]
    BY DEF CommitGrab, Locking, TypeOK
  <1>6. QED
    BY <1>2, <1>3, <1>4, <1>5 DEF DecideStep

LEMMA OthersDecideNothing ==
  ASSUME Locking, NEW p \in Sessions,
         CommitDrop(p) \/ Reject(p)
  PROVE  DecideStep
  <1>1. CopiesCurrent(p)
    BY DEF Locking, LockDiscipline
  <1>2. \A r \in Requests : requests[r] # "none" => requests'[r] = requests[r]
    <2>1. IsGrab(p) => grab[p] \in Requests /\ requests[grab[p]] = "none"
      BY <1>1 DEF CopiesCurrent, IsGrab, Locking, TypeOK
    <2>2. QED
      BY <2>1 DEF CommitDrop, Reject, Locking, TypeOK
  <1>3. \A k \in Keys : enrollments'[k] = "active" => enrollments[k] = "active"
    BY DEF CommitDrop, Reject, Locking, TypeOK
  <1>4. QED
    BY <1>2, <1>3 DEF DecideStep

(* A request is decided once and a student enrolled at most once by it,    *)
(* however often its message is delivered and whoever else closes it.      *)
THEOREM DecidedAtMostOnce == Spec => AppliedOnce
  <1>1. Locking /\ [Next]_vars => [DecideStep]_vars
    <2> SUFFICES ASSUME Locking, Next PROVE DecideStep
      OBVIOUS
    <2>1. CASE \E p \in Sessions : Reject(p) \/ CommitGrab(p) \/ CommitDrop(p)
      BY <2>1, CommitDecides, OthersDecideNothing
    <2>2. CASE \E r \in Requests : FailTimedOut(r)
      BY <2>2 DEF FailTimedOut, ShouldProcess, DecideStep, Locking, TypeOK
    <2>3. CASE UNCHANGED <<requests, enrollments>>
      BY <2>3 DEF DecideStep
    <2>4. \/ \E p \in Sessions : Reject(p) \/ CommitGrab(p) \/ CommitDrop(p)
          \/ \E r \in Requests : FailTimedOut(r)
          \/ UNCHANGED <<requests, enrollments>>
      BY NextCases
      DEF BeginGrab, BeginDrop, LockStudent, LockCourse, LockEnrollment, CheckRules,
          DeadlockAbort, SystemError, tables
    <2>5. QED
      BY <2>1, <2>2, <2>3, <2>4
  <1>2. QED
    BY <1>1, LockingAlways, PTL DEF Spec, AppliedOnce
-----------------------------------------------------------------------------
(***************************************************************************)
(* Lock order.  Who holds a student's row is past that statement, who      *)
(* holds a course's row waits for no row any more.                         *)
(***************************************************************************)
LocksInOrder ==
  /\ \A s \in Students, p \in Sessions : studentLock[s] = p =>
       pc[p] \in {"course", "enrollment", "rules", "write"}
  /\ \A c \in Courses, p \in Sessions : courseLock[c] = p =>
       pc[p] \in {"enrollment", "rules", "write"}

LEMMA OrderFinish ==
  ASSUME TypeOK, LocksInOrder, NEW p \in Sessions, Finish(p)
  PROVE  LocksInOrder'
  BY NoneAssumption DEF TypeOK, LocksInOrder, Finish, Release

LEMMA OrderNext ==
  ASSUME Locking, LocksInOrder, [Next]_vars
  PROVE  LocksInOrder'
  <1>1. ASSUME NEW p \in Sessions,
               \/ \E r \in Requests : BeginGrab(p, r)
               \/ \E k \in Keys : BeginDrop(p, k)
        PROVE  LocksInOrder'
    <2>1. /\ studentLock' = studentLock /\ courseLock' = courseLock
          /\ pc[p] = "idle"
          /\ \A q \in Sessions : q # p => pc'[q] = pc[q]
      BY <1>1 DEF BeginGrab, BeginDrop, locks, Locking, TypeOK
    <2>2. QED
      BY <2>1 DEF LocksInOrder
  <1>2. ASSUME NEW p \in Sessions,
               LockStudent(p) \/ LockCourse(p) \/ LockEnrollment(p) \/ CheckRules(p)
        PROVE  LocksInOrder'
    <2>1. CopiesCurrent(p) /\ pc[p] # "idle" /\ Stu(p) \in Students /\ Crs(p) \in Courses
      BY <1>2, LockingTarget, KeyParts
      DEF Locking, LockDiscipline, HasTarget, Stu, Crs, LockStudent, LockCourse,
          LockEnrollment, CheckRules
    <2>2. CASE LockStudent(p)
      BY <2>1, <2>2 DEF LockStudent, GoOn, Following, LocksInOrder, Locking, TypeOK
    <2>3. CASE LockCourse(p)
      BY <2>1, <2>3 DEF LockCourse, GoOn, Following, LocksInOrder, Locking, TypeOK
    <2>4. CASE LockEnrollment(p)
      BY <2>4 DEF LockEnrollment, GoOn, Following, LocksInOrder, locks, Locking, TypeOK
    <2>5. CASE CheckRules(p)
      BY <2>5 DEF CheckRules, GoOn, Following, LocksInOrder, locks, Locking, TypeOK
    <2>6. QED
      BY <1>2, <2>2, <2>3, <2>4, <2>5
  <1>3. ASSUME NEW p \in Sessions,
               \/ Reject(p) \/ CommitGrab(p) \/ CommitDrop(p)
               \/ DeadlockAbort(p) \/ SystemError(p)
        PROVE  LocksInOrder'
    BY <1>3, OrderFinish
    DEF Locking, Reject, CommitGrab, CommitDrop, DeadlockAbort, SystemError
  <1>4. ASSUME NEW r \in Requests, FailTimedOut(r)
        PROVE  LocksInOrder'
    BY <1>4 DEF LocksInOrder, FailTimedOut, locks, local
  <1>5. CASE UNCHANGED vars
    BY <1>5 DEF LocksInOrder, vars
  <1>6. QED
    BY <1>1, <1>2, <1>3, <1>4, <1>5, NextCases

(* Sessions never wait for each other's row locks in a cycle, since grabs  *)
(* and drops lock the student before the course.                           *)
THEOREM NoLockCycle == Spec => []NoRowLockCycle
  <1>1. Init => LocksInOrder
    BY NoneAssumption DEF Init, LocksInOrder
  <1>2. Locking /\ LocksInOrder /\ [Next]_vars => LocksInOrder'
    BY OrderNext
  <1>3. Locking /\ LocksInOrder => NoRowLockCycle
    <2> SUFFICES ASSUME Locking, LocksInOrder,
                        NEW D \in SUBSET Sessions, D # {},
                        \A p \in D : RowWaits(p) \cap D # {}
                 PROVE  FALSE
      BY DEF NoRowLockCycle
    <2>1. \A p \in D : \E q \in D : q \in RowWaits(p)
      OBVIOUS
    <2>2. \A p \in D : pc[p] \in {"student", "course"}
      BY <2>1 DEF RowWaits
    <2>3. \A p \in D : /\ Stu(p) \in Students /\ Crs(p) \in Courses
      BY <2>2, LockingTarget, KeyParts DEF HasTarget, Stu, Crs
    <2>4. \A p \in D, q \in D : q \in RowWaits(p) => pc[p] = "student" /\ pc[q] = "course"
      BY <2>2, <2>3 DEF RowWaits, LocksInOrder
    <2>5. QED
      BY <2>1, <2>4
  <1>4. QED
    BY <1>1, <1>2, <1>3, LockingAlways, PTL DEF Spec
=============================================================================
