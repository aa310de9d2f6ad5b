-------------------------- MODULE SelectionErrors --------------------------
(***************************************************************************)
(* CourseAdmin when a statement of a grab may fail and the connection      *)
(* survive: a lock wait that times out, a full disk, a read-only server.   *)
(* Students, the worker and an administrator are at work at once.          *)
(*                                                                         *)
(* HandleGrabMessage takes every error of applySelectCourseTx for a        *)
(* business error: it marks the request failed and commits, and with it    *)
(* whatever the transaction had written before the statement that failed.  *)
(* DropCourse rolls back on any error, which SystemError is.               *)
(***************************************************************************)
EXTENDS CourseAdmin

CONSTANT MaxDisturbances  \* bound: edits and failing statements together
ASSUME MaxDisturbancesAssumption == MaxDisturbances \in Nat

VARIABLES
  disturbances,  \* how many edits and failing statements there were
  errors,   \* how many statements have failed
  repriced  \* history: a course's credit was edited while it was selected
errorVars == <<adminVars, disturbances, errors, repriced>>

ErrorInit ==
  AdminInit /\ disturbances = 0 /\ errors = 0 /\ repriced = FALSE

Disturb ==
  disturbances < MaxDisturbances /\ disturbances' = disturbances + 1
-----------------------------------------------------------------------------
(* selected_count is written first, then credit_used, then the enrollment. *)
CountWritten(p) ==
  courses' = [courses EXCEPT ![Crs(p)].selected = courseRow[p].selected + 1]

CreditWritten(p) ==
  students' = [students EXCEPT
                 ![Stu(p)].used = studentRow[p].used + courseRow[p].credit]

FaultyLostWrites(p) ==  \* the enrollment is written before the counters
  \/ UNCHANGED <<courses, students, enrollments>>
  \/ /\ pc[p] = "write"
     /\ enrollments' = [enrollments EXCEPT ![target[p]] = "active"]
     /\ UNCHANGED <<courses, students>>

(* What the failing statement leaves written.                              *)
LostWrites(p) ==
  \/ UNCHANGED <<courses, students, enrollments>>
  \/ /\ pc[p] = "write"
     /\ CountWritten(p)
     /\ CreditWritten(p) \/ UNCHANGED students
     /\ UNCHANGED enrollments

StatementFails(p) ==
  /\ pc[p] # "idle"
  /\ IsGrab(p)
  /\ Disturb
  /\ errors' = errors + 1
  /\ LostWrites(p)
  /\ requests' = [requests EXCEPT ![grab[p]] = "failed"]
  /\ Finish(p)
  /\ UNCHANGED editor

(* The race that EditsRespectSelections is about.                          *)
Reprices == \E c \in Courses : /\ courses[c].selected > 0
                               /\ courses'[c].credit # courses[c].credit

ErrorNext ==
  /\ \/ Next /\ UNCHANGED <<editor, disturbances, errors>>
     \/ BeginEdit /\ Disturb /\ UNCHANGED errors
     \/ EndEdit /\ UNCHANGED <<disturbances, errors>>
     \/ \E p \in Sessions : StatementFails(p)
  /\ repriced' = (repriced \/ Reprices)

ErrorSpec == ErrorInit /\ [][ErrorNext]_errorVars
-----------------------------------------------------------------------------
(* As long as no statement fails the counter of a course is its roster,    *)
(* whatever administrators write beside the transactions.                  *)
CountMatchesUnlessErrors == errors = 0 => CountMatchesRoster

(* Errors and edits only ever make the counters too high, never too low: a *)
(* course is closed too early and a student refused too early, but nobody  *)
(* is let in on a counter that misses an enrollment.  The credits of a     *)
(* student are those of the courses as long as these keep theirs.          *)
CountersCoverRoster ==
  /\ \A c \in Courses : courses[c].selected >= Cardinality(Roster(c))
  /\ ~repriced => \A s \in Students : students[s].used >= Credits(s)

(* Whatever administrators do at the same time, no counter is raised past  *)
(* the capacity or the limit in force, nor for a closed course or a barred *)
(* student: neither by a grab that commits, since it has read all of them  *)
(* under row locks that an edit has to wait for, nor by one that fails     *)
(* half-way, since its writes come after its checks.                       *)
CountersObeyCurrentRules ==
  [][/\ \A c \in Courses : courses'[c].selected > courses[c].selected =>
          courses[c].status = 1 /\ courses'[c].selected <= courses[c].capacity
     /\ \A s \in Students : students'[s].used > students[s].used =>
          students[s].status = 1 /\ students'[s].used <= students[s].limit]_errorVars
=============================================================================
