---------------------------- MODULE SelectionTx ----------------------------
(***************************************************************************)
(* The MySQL transactions that decide a selection, lock by lock.           *)
(*                                                                         *)
(* A session is one database connection inside a transaction: a worker     *)
(* goroutine handling a grab message (HandleGrabMessage) or an HTTP        *)
(* goroutine dropping a course (DropCourse).  Each SELECT ... FOR UPDATE   *)
(* is a step of its own; what a session has read stays in its own copy of  *)
(* the row, and what it writes becomes visible when it commits.  InnoDB    *)
(* (REPEATABLE READ, the server's default) is modelled from its use: a row *)
(* lock is held until the end of the transaction, a locking read of an     *)
(* absent key locks the gap of the index it falls in, an insert into a gap *)
(* waits for the others that hold it, a cycle of waits is broken by        *)
(* rolling one session back.                                               *)
(*                                                                         *)
(* Administrators do not edit courses here: CourseAdmin adds them.  No     *)
(* statement fails on a live connection: SelectionErrors adds that.        *)
(***************************************************************************)
EXTENDS Integers, FiniteSets, Sums

CONSTANTS
  Students, Courses, Requests,
  Sessions,      \* database connections
  RequestKey,    \* [Requests -> Students \X Courses]: who asks for what
  KeyRank,       \* order of the keys in the index uk_student_course
  CourseTables,  \* the contents table courses may start with
  StudentTables, \* the contents table students may start with
  None           \* no session, no request, no key

Keys == Students \X Courses

ASSUME RequestKeyAssumption == RequestKey \in [Requests -> Keys]
ASSUME KeyRankAssumption ==
  /\ KeyRank \in [Keys -> Nat]
  /\ \A k, l \in Keys : KeyRank[k] = KeyRank[l] => k = l
ASSUME NoneAssumption == None \notin Sessions \cup Requests \cup Keys
ASSUME TableAssumption ==
  /\ CourseTables \subseteq
       [Courses -> [status : {0, 1}, capacity : Nat, selected : {0},
                    credit : Nat, slot : Nat]]
  /\ StudentTables \subseteq
       [Students -> [status : {0, 1}, used : {0}, limit : Nat]]
ASSUME FiniteAssumption == IsFiniteSet(Students) /\ IsFiniteSet(Courses)

VARIABLES
  courses,      \* table courses: [Courses -> CourseRow]
  students,     \* table students: [Students -> StudentRow]
  enrollments,  \* table enrollments: no row, an active row or a dropped row
  requests,     \* table selection_requests: no row, or its final status
  studentLock,  \* which session holds the lock of a student's row
  courseLock,   \* which session holds the lock of a course's row
  requestLock,  \* which session inserted (uncommitted) a request's row
  pc,           \* the next statement of each session
  grab,         \* the request a session processes; None for a drop
  target,       \* the <<student, course>> the session works on
  studentRow,   \* the session's copy of the student row it has locked
  courseRow     \* the session's copy of the course row it has locked

tables == <<courses, students, enrollments, requests>>
locks == <<studentLock, courseLock, requestLock>>
local == <<pc, grab, target, studentRow, courseRow>>
vars == <<courses, students, enrollments, requests, studentLock, courseLock,
          requestLock, pc, grab, target, studentRow, courseRow>>

CourseRow == [status : {0, 1}, capacity : Nat, selected : Nat, credit : Nat,
              slot : Nat]
StudentRow == [status : Int, used : Nat, limit : Int]  \* columns without a CHECK
NoCourseRow == [status |-> 0, capacity |-> 0, selected |-> 0, credit |-> 0,
                slot |-> 0]
NoStudentRow == [status |-> 0, used |-> 0, limit |-> 0]

Statement == {"idle", "student", "course", "enrollment", "rules", "write"}

Stu(p) == target[p][1]
Crs(p) == target[p][2]
IsGrab(p) == grab[p] # None

Roster(c) == {s \in Students : enrollments[<<s, c>>] = "active"}
Timetable(s) == {c \in Courses : enrollments[<<s, c>>] = "active"}
Credits(s) == SumOver([c \in Courses |-> courses[c].credit], Timetable(s))
-----------------------------------------------------------------------------
(***************************************************************************)
(* Faulty variants.  Each is the operator its name ends with, after one    *)
(* plausible programming mistake; a property is worth checking only if one *)
(* of them breaks it.                                                      *)
(***************************************************************************)
FaultyFollowing(isGrab) ==  \* a drop locks the course before the student
  IF isGrab
  THEN [begin |-> "student", student |-> "course", course |-> "enrollment",
        enrollment |-> "rules", rules |-> "write"]
  ELSE [begin |-> "course", course |-> "student", student |-> "enrollment",
        enrollment |-> "write"]

(***************************************************************************)
(* The order of the statements: both transactions lock the student, the    *)
(* course and the enrollment in this order.                                *)
(***************************************************************************)
Following(isGrab) ==
  [begin |-> "student", student |-> "course", course |-> "enrollment",
   enrollment |-> IF isGrab THEN "rules" ELSE "write", rules |-> "write"]

GoOn(p) == pc' = [pc EXCEPT ![p] = Following(IsGrab(p))[pc[p]]]
-----------------------------------------------------------------------------
(***************************************************************************)
(* Gap locks.  The two keys lie in the same gap when no row separates them.*)
(***************************************************************************)
SameGap(k, l) ==
  \A m \in Keys :
    (KeyRank[m] - KeyRank[k]) * (KeyRank[m] - KeyRank[l]) <= 0
      => enrollments[m] = "none"

HoldsGap(q) ==
  /\ IsGrab(q)
  /\ pc[q] \in {"rules", "write"}
  /\ enrollments[target[q]] = "none"

GapWaits(p) ==
  IF pc[p] = "write" /\ IsGrab(p) /\ enrollments[target[p]] = "none"
  THEN {q \in Sessions \ {p} : HoldsGap(q) /\ SameGap(target[p], target[q])}
  ELSE {}

(* The sessions whose row lock p waits for.                                *)
RowWaits(p) ==
  {q \in Sessions :
     \/ pc[p] = "student" /\ studentLock[Stu(p)] = q
     \/ pc[p] = "course" /\ courseLock[Crs(p)] = q}

Waits(p) == RowWaits(p) \cup GapWaits(p)

(* p is on a cycle of waits: InnoDB's deadlock detector sees these.        *)
Deadlocked(p) ==
  \E D \in SUBSET Sessions :
    /\ p \in D
    /\ \A q \in D : /\ Waits(q) \cap D # {}
                    /\ \E w \in D : q \in Waits(w)
-----------------------------------------------------------------------------
Init ==
  /\ courses \in CourseTables
  /\ students \in StudentTables
  /\ enrollments = [k \in Keys |-> "none"]
  /\ requests = [r \in Requests |-> "none"]
  /\ studentLock = [s \in Students |-> None]
  /\ courseLock = [c \in Courses |-> None]
  /\ requestLock = [r \in Requests |-> None]
  /\ pc = [p \in Sessions |-> "idle"]
  /\ grab = [p \in Sessions |-> None]
  /\ target = [p \in Sessions |-> None]
  /\ studentRow = [p \in Sessions |-> NoStudentRow]
  /\ courseRow = [p \in Sessions |-> NoCourseRow]

FaultyFinish(p) ==  \* an error path returns without ending the transaction
  /\ pc' = [pc EXCEPT ![p] = "idle"]
  /\ grab' = [grab EXCEPT ![p] = None]
  /\ target' = [target EXCEPT ![p] = None]
  /\ studentRow' = [studentRow EXCEPT ![p] = NoStudentRow]
  /\ courseRow' = [courseRow EXCEPT ![p] = NoCourseRow]
  /\ UNCHANGED locks

(* COMMIT or ROLLBACK: every lock of the session goes, and its memory.     *)
Release(lock, p) == [x \in DOMAIN lock |-> IF lock[x] = p THEN None ELSE lock[x]]

Finish(p) ==
  /\ studentLock' = Release(studentLock, p)
  /\ courseLock' = Release(courseLock, p)
  /\ requestLock' = Release(requestLock, p)
  /\ pc' = [pc EXCEPT ![p] = "idle"]
  /\ grab' = [grab EXCEPT ![p] = None]
  /\ target' = [target EXCEPT ![p] = None]
  /\ studentRow' = [studentRow EXCEPT ![p] = NoStudentRow]
  /\ courseRow' = [courseRow EXCEPT ![p] = NoCourseRow]
-----------------------------------------------------------------------------
(***************************************************************************)
(* More faulty variants.                                                   *)
(***************************************************************************)
FaultyShouldProcess(r) == TRUE          \* a redelivered message starts over

FaultyLockStudent(p) ==                 \* a plain read instead of FOR UPDATE
  /\ pc[p] = "student"
  /\ students[Stu(p)].status = 1
  /\ studentRow' = [studentRow EXCEPT ![p] = students[Stu(p)]]
  /\ GoOn(p)
  /\ UNCHANGED <<tables, locks, grab, target, courseRow>>

FaultyLockCourse(p) ==                  \* the same for the course
  /\ pc[p] = "course"
  /\ courses[Crs(p)].status = 1
  /\ courses[Crs(p)].selected < courses[Crs(p)].capacity
  /\ courseRow' = [courseRow EXCEPT ![p] = courses[Crs(p)]]
  /\ GoOn(p)
  /\ UNCHANGED <<tables, locks, grab, target, studentRow>>

FaultyCourseRefuses(p) ==               \* off by one at the last place
  /\ IsGrab(p)
  /\ \/ courses[Crs(p)].status # 1
     \/ courses[Crs(p)].selected > courses[Crs(p)].capacity

FaultySlotConflict(p) ==                \* slot 0 means none, as in the cache
  \E c \in Timetable(Stu(p)) :
    courses[c].slot = courseRow[p].slot /\ courses[c].slot # 0

FaultyFloorMinus(n, d) == d - n         \* operands swapped
-----------------------------------------------------------------------------
(***************************************************************************)
(* The idempotency gate.  The worker inserts the request's row, pending,   *)
(* and leaves everything to the holder of an existing final row: a message *)
(* that is delivered again commits an empty transaction.  A conflicting    *)
(* insert waits until the first transaction ends.                          *)
(***************************************************************************)
ShouldProcess(r) == requests[r] = "none"

BeginGrab(p, r) ==
  /\ pc[p] = "idle"
  /\ requestLock[r] = None
  /\ ShouldProcess(r)
  /\ requestLock' = [requestLock EXCEPT ![r] = p]
  /\ pc' = [pc EXCEPT ![p] = Following(TRUE).begin]
  /\ grab' = [grab EXCEPT ![p] = r]
  /\ target' = [target EXCEPT ![p] = RequestKey[r]]
  /\ UNCHANGED <<tables, studentLock, courseLock, studentRow, courseRow>>

BeginDrop(p, k) ==
  /\ pc[p] = "idle"
  /\ pc' = [pc EXCEPT ![p] = Following(FALSE).begin]
  /\ target' = [target EXCEPT ![p] = k]
  /\ UNCHANGED <<tables, locks, grab, studentRow, courseRow>>

LockStudent(p) ==
  /\ pc[p] = "student"
  /\ studentLock[Stu(p)] = None
  /\ students[Stu(p)].status = 1
  /\ studentLock' = [studentLock EXCEPT ![Stu(p)] = p]
  /\ studentRow' = [studentRow EXCEPT ![p] = students[Stu(p)]]
  /\ GoOn(p)
  /\ UNCHANGED <<tables, courseLock, requestLock, grab, target, courseRow>>

(* A grab, but not a drop, insists on an open course with a free place.    *)
CourseRefuses(p) ==
  /\ IsGrab(p)
  /\ \/ courses[Crs(p)].status # 1
     \/ courses[Crs(p)].selected >= courses[Crs(p)].capacity

LockCourse(p) ==
  /\ pc[p] = "course"
  /\ courseLock[Crs(p)] = None
  /\ ~CourseRefuses(p)
  /\ courseLock' = [courseLock EXCEPT ![Crs(p)] = p]
  /\ courseRow' = [courseRow EXCEPT ![p] = courses[Crs(p)]]
  /\ GoOn(p)
  /\ UNCHANGED <<tables, studentLock, requestLock, grab, target, studentRow>>

(* An active row refuses a grab; a drop needs one.                         *)
EnrollmentRefuses(p) == IsGrab(p) <=> enrollments[target[p]] = "active"

LockEnrollment(p) ==
  /\ pc[p] = "enrollment"
  /\ ~EnrollmentRefuses(p)
  /\ GoOn(p)
  /\ UNCHANGED <<tables, locks, grab, target, studentRow, courseRow>>

(* The join over the student's active enrollments, a consistent read: the  *)
(* first of the transaction, so its snapshot is taken now.                 *)
SlotConflict(p) ==
  \E c \in Timetable(Stu(p)) : courses[c].slot = courseRow[p].slot

RulesRefuse(p) ==
  \/ SlotConflict(p)
  \/ studentRow[p].used + courseRow[p].credit > studentRow[p].limit

CheckRules(p) ==
  /\ pc[p] = "rules"
  /\ ~RulesRefuse(p)
  /\ GoOn(p)
  /\ UNCHANGED <<tables, locks, grab, target, studentRow, courseRow>>

(* A business error ends a grab with a failed request and a drop with a    *)
(* rollback.                                                               *)
Reject(p) ==
  /\ \/ /\ pc[p] = "student"
        /\ studentLock[Stu(p)] = None
        /\ students[Stu(p)].status # 1
     \/ /\ pc[p] = "course"
        /\ courseLock[Crs(p)] = None
        /\ CourseRefuses(p)
     \/ pc[p] = "enrollment" /\ EnrollmentRefuses(p)
     \/ pc[p] = "rules" /\ RulesRefuse(p)
  /\ requests' = IF IsGrab(p) THEN [requests EXCEPT ![grab[p]] = "failed"]
                              ELSE requests
  /\ Finish(p)
  /\ UNCHANGED <<courses, students, enrollments>>

(* The updates are computed from the copies read under the locks.          *)
CommitGrab(p) ==
  /\ pc[p] = "write"
  /\ IsGrab(p)
  /\ GapWaits(p) = {}
  /\ courses' = [courses EXCEPT ![Crs(p)].selected = courseRow[p].selected + 1]
  /\ students' = [students EXCEPT
                    ![Stu(p)].used = studentRow[p].used + courseRow[p].credit]
  /\ enrollments' = [enrollments EXCEPT ![target[p]] = "active"]
  /\ requests' = [requests EXCEPT ![grab[p]] = "success"]
  /\ Finish(p)

FloorMinus(n, d) == IF n >= d THEN n - d ELSE 0

CommitDrop(p) ==
  /\ pc[p] = "write"
  /\ ~IsGrab(p)
  /\ enrollments' = [enrollments EXCEPT ![target[p]] = "dropped"]
  /\ courses' = [courses EXCEPT
                   ![Crs(p)].selected = FloorMinus(courseRow[p].selected, 1)]
  /\ students' = [students EXCEPT
                    ![Stu(p)].used = FloorMinus(studentRow[p].used,
                                                courseRow[p].credit)]
  /\ UNCHANGED requests
  /\ Finish(p)

(* The deadlock detector's victim is rolled back as a whole.  (The worker  *)
(* answers a grab as failed then: AsyncSelection's DecideAsVictim.)        *)
DeadlockAbort(p) == pc[p] # "idle" /\ Deadlocked(p) /\ Finish(p) /\ UNCHANGED tables

(* A lost connection or a crash at any statement: the same rollback.       *)
SystemError(p) == pc[p] # "idle" /\ Finish(p) /\ UNCHANGED tables

(* createFinalFailedSelectionRequest: the sweeper or a poll closes a timed *)
(* out request with an autocommitted insert that leaves a row there alone. *)
FailTimedOut(r) ==
  /\ requestLock[r] = None
  /\ ShouldProcess(r)
  /\ requests' = [requests EXCEPT ![r] = "failed"]
  /\ UNCHANGED <<courses, students, enrollments, locks, local>>
-----------------------------------------------------------------------------
Advance(p) ==
  \/ LockStudent(p)
  \/ LockCourse(p)
  \/ LockEnrollment(p)
  \/ CheckRules(p)
  \/ Reject(p)
  \/ CommitGrab(p)
  \/ CommitDrop(p)
  \/ DeadlockAbort(p)

Next ==
  \/ \E p \in Sessions, r \in Requests : BeginGrab(p, r)
  \/ \E p \in Sessions, k \in Keys : BeginDrop(p, k)
  \/ \E p \in Sessions : Advance(p)
  \/ \E p \in Sessions : SystemError(p)
  \/ \E r \in Requests : FailTimedOut(r)

Spec == Init /\ [][Next]_vars

(* A begun transaction is driven on by its goroutine; InnoDB serves its    *)
(* lock queue in order, so a session that can have its lock time and again *)
(* gets it.  Nothing makes a transaction begin, or fail.                   *)
FairSpec == Spec /\ \A p \in Sessions : SF_vars(Advance(p))
-----------------------------------------------------------------------------
(* Every variable holds what the tables, locks and sessions can hold; a    *)
(* selected_count or credit_used that went below zero would show here.     *)
TypeOK ==
  /\ courses \in [Courses -> CourseRow]
  /\ students \in [Students -> StudentRow]
  /\ enrollments \in [Keys -> {"none", "active", "dropped"}]
  /\ requests \in [Requests -> {"none", "failed", "success"}]
  /\ studentLock \in [Students -> Sessions \cup {None}]
  /\ courseLock \in [Courses -> Sessions \cup {None}]
  /\ requestLock \in [Requests -> Sessions \cup {None}]
  /\ pc \in [Sessions -> Statement]
  /\ grab \in [Sessions -> Requests \cup {None}]
  /\ target \in [Sessions -> Keys \cup {None}]
  /\ studentRow \in [Sessions -> StudentRow]
  /\ courseRow \in [Sessions -> CourseRow]

(* selected_count, written from a copy read earlier in the transaction, is *)
(* the number of active enrollment rows: no concurrent grab or drop of the *)
(* course loses an update.                                                 *)
CountMatchesRoster ==
  \A c \in Courses : courses[c].selected = Cardinality(Roster(c))

(* No course is ever oversold, whoever races for its last place (README:   *)
(* "the MySQL transaction guarantees no overselling").                     *)
NoOversell == \A c \in Courses : Cardinality(Roster(c)) <= courses[c].capacity

(* credit_used is the sum of the credits of the student's active courses   *)
(* and within her limit, though her grabs of two courses and a drop may    *)
(* run at once in different sessions.                                      *)
CreditsWithinLimit ==
  \A s \in Students : /\ students[s].used = Credits(s)
                      /\ students[s].used <= students[s].limit

(* No student holds two courses in the same time slot, although the check  *)
(* is an unlocked read: the student's row lock must serialise her grabs.   *)
NoSlotClash ==
  \A s \in Students : \A c, d \in Timetable(s) :
    courses[c].slot = courses[d].slot => c = d

(* A session's copy of a row is the row, from the locking read to the end  *)
(* of its transaction, and what it has checked still holds: the locks it   *)
(* holds keep every other session's commit away from what it relies on.    *)
CopiesCurrent(p) ==
  /\ pc[p] # "idle" => target[p] \in Keys
  /\ IsGrab(p) => /\ pc[p] # "idle"
                  /\ target[p] = RequestKey[grab[p]]
                  /\ requestLock[grab[p]] = p
                  /\ requests[grab[p]] = "none"
  /\ pc[p] \in {"course", "enrollment", "rules", "write"} =>
       /\ studentLock[Stu(p)] = p
       /\ studentRow[p] = students[Stu(p)]
  /\ pc[p] \in {"enrollment", "rules", "write"} =>
       /\ courseLock[Crs(p)] = p
       /\ courseRow[p] = courses[Crs(p)]
       /\ ~CourseRefuses(p)
  /\ pc[p] = "rules" => IsGrab(p)
  /\ pc[p] \in {"rules", "write"} => ~EnrollmentRefuses(p)
  /\ pc[p] = "write" /\ IsGrab(p) => ~RulesRefuse(p)

LockDiscipline == \A p \in Sessions : CopiesCurrent(p)

(* Row locks alone never deadlock: no set of sessions each waits for a row *)
(* lock of another of the set.  Grabs and drops take their locks in one    *)
(* order; only the gap locks of two first-time enrollments can cross.      *)
NoRowLockCycle ==
  ~\E D \in SUBSET Sessions :
     D # {} /\ \A p \in D : RowWaits(p) \cap D # {}

(* Each enrollment that becomes active is paid for, in the very same step, *)
(* by a request of that student for that course that becomes a success,    *)
(* and a decided request is never decided again: a message delivered       *)
(* twice, even after the student dropped the course, enrols her once.      *)
DecideStep ==
  /\ \A r \in Requests : requests[r] # "none" => requests'[r] = requests[r]
  /\ \A k \in Keys :
       enrollments[k] # "active" /\ enrollments'[k] = "active" =>
         \E r \in Requests : /\ RequestKey[r] = k
                             /\ requests[r] = "none"
                             /\ requests'[r] = "success"
AppliedOnce == [][DecideStep]_vars

(* A transaction that began ends: it is never left waiting for locks, not  *)
(* even when two first-time enrollments hold the same gap and both insert. *)
TransactionsEnd ==
  \A p \in Sessions : pc[p] # "idle" ~> pc[p] = "idle"

Promise == INSTANCE Enrollment WITH
  catalogue <- [c \in Courses |->
                  [status |-> courses[c].status, capacity |-> courses[c].capacity,
                   credit |-> courses[c].credit, slot |-> courses[c].slot]],
  creditLimit <- [s \in Students |-> students[s].limit],
  enrolled <- {k \in Keys : enrollments[k] = "active"},
  outcome <- requests

(* The locking transactions implement the indivisible selection: what each *)
(* commits obeys all the rules on the state it commits to.                 *)
ImplementsEnrollment == Promise!Spec
=============================================================================
