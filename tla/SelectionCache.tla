--------------------------- MODULE SelectionCache ---------------------------
(***************************************************************************)
(* The cache entries a selection is checked against before it is queued.   *)
(*                                                                         *)
(* Redis keeps an entry for a course (stock, status, credit, slot) and one *)
(* for a student (selected courses, slot bitmap, credits).  A goroutine    *)
(* that submits a selection ensures both: the first that misses one takes  *)
(* a rebuild lock, which expires, reads MySQL and writes Redis; the others *)
(* wait for the entry, for a while.  A drop refreshes both entries without *)
(* the lock; an administrator's edit deletes one.  Reading MySQL and       *)
(* writing Redis are separate steps, so all of them may overlap.           *)
(*                                                                         *)
(* One step each: a Lua script, a pipeline, a MySQL transaction (a grab's  *)
(* is SelectionTx).  A course that does not exist gets a missing marker,   *)
(* which expires; an administrator may create the course meanwhile, and    *)
(* may edit its status, capacity, slot and credit.  Who holds a token has  *)
(* a row, so students are never missing.                                   *)
(***************************************************************************)
EXTENDS Integers, FiniteSets

CONSTANTS
  Students, Courses,
  Callers,     \* HTTP goroutines, each submits one selection
  Asks,        \* [Callers -> SUBSET (Students \X Courses)]: may ask for one of
  Offered,     \* [Courses -> Columns]: the courses' rows to begin with
  CourseEdits, \* SUBSET Columns: what an edit may make of a row
  NewCourses,  \* the courses that may be created only after the start
  Limits,      \* what a student's credit_limit may be
  MaxDisturbances, \* bound: edits, drops, faults, expiries, second
                   \* compensations, all together
  None         \* no entry, no lock holder

Keys == Students \X Courses
Entries == Courses \cup Students
Goroutines == Callers \cup {"drop", "create"}
Columns == [status : {0, 1}, capacity : Nat, slot : Nat, credit : Nat]

ASSUME AsksAssumption == Asks \in [Callers -> SUBSET Keys]
ASSUME ColumnsAssumption ==
  /\ Offered \in [Courses -> Columns] /\ CourseEdits \subseteq Columns
  /\ NewCourses \subseteq Courses /\ Limits \subseteq Int
ASSUME BoundAssumption == MaxDisturbances \in Nat
ASSUME NamesAssumption ==
  /\ Courses \cap Students = {}
  /\ {"drop", "create"} \cap Callers = {}
ASSUME FiniteAssumption ==
  IsFiniteSet(Students) /\ IsFiniteSet(Courses) /\ IsFiniteSet(Callers)

VARIABLES
  courses,   \* MySQL: [Courses -> CourseRow]
  students,  \* MySQL: [Students -> [used, limit, version]]
  known,     \* MySQL: the courses that have a row
  enrolled,  \* MySQL: the active rows of enrollments
  cache,     \* Redis: [Entries -> an entry, or None]
  marker,    \* Redis: [Courses -> the missing marker: "none", "right" or
             \* "late", set when there was a row already (a history)]
  lock,      \* Redis: [Entries -> the goroutine whose token it holds]
  job,       \* [Goroutines -> Job]
  editor,    \* the edit in progress: which step, of which row, to what
  late,      \* history: goroutines whose lock expired before they released it
  faults,    \* how often something failed
  disturbances, \* how many edits, drops, faults, expiries and second
             \* compensations there were
  shifted    \* history: slots that an edit moved a course out of or into

mysql == <<courses, students, known, enrolled>>
redis == <<cache, marker>>
counters == <<faults, disturbances>>
vars == <<mysql, redis, lock, job, editor, late, counters, shifted>>

(* version counts the edits of a row.  It is no column: an entry carries   *)
(* the version it was read from and, in asof, the one it was written at.   *)
(* Slot 0 is no slot in Redis, but a slot like any other in MySQL.         *)
CourseRow == [status : {0, 1}, capacity : Nat, slot : Nat, credit : Nat,
              selected : Nat, version : Nat]
CourseEntry == [status : {0, 1}, stock : Nat, slot : Nat, credit : Nat,
                version : Nat, asof : Nat]
StudentEntry == [selected : SUBSET Courses, slots : SUBSET Nat, used : Nat,
                 limit : Int, version : Nat, asof : Nat]
ASSUME NoneAssumption ==
  None \notin Callers /\ None \notin CourseEntry /\ None \notin StudentEntry

Idle == [at |-> "idle", key |-> None, entry |-> None, copy |-> None]
NoEdit == [step |-> 0, entry |-> None, edit |-> None]
InRebuild == {"recheck", "read", "join", "write", "forget", "mark"}
Leaving == {"release", "quit"}  \* with the entry, without it
Active == {"look", "acquire", "wait", "reserve"} \cup InRebuild \cup Leaving

VersionOf(e) == IF e \in Courses THEN courses[e].version ELSE students[e].version
Timetable(s) == {c \in Courses : <<s, c>> \in enrolled}
(* timeSlotBitmap: the bitmap as the set of its bits.                      *)
Bits(C) == {courses[c].slot : c \in C} \ {0}
-----------------------------------------------------------------------------
(* What RefreshCourseSelectionCache reads, and the first half of what      *)
(* RefreshStudentSelectionCache does; Join is the second.                  *)
Row(e) ==
  IF e \in Courses
  THEN LET free == courses[e].capacity - courses[e].selected IN
         [status |-> courses[e].status, stock |-> IF free < 0 THEN 0 ELSE free,
          slot |-> courses[e].slot, credit |-> courses[e].credit,
          version |-> VersionOf(e), asof |-> VersionOf(e)]
  ELSE [selected |-> {}, slots |-> {}, used |-> students[e].used,
        limit |-> students[e].limit,
        version |-> VersionOf(e), asof |-> VersionOf(e)]

Joined(s, row) ==
  [row EXCEPT !.selected = Timetable(s), !.slots = Bits(Timetable(s))]

Loaded(e) == IF e \in Courses THEN Row(e) ELSE Joined(e, Row(e))

(* PreloadSelectionCaches: everything but the courses that are closed.     *)
Preloaded ==
  [e \in Entries |->
     IF e \in Courses /\ ~(e \in known /\ courses[e].status = 1) THEN None
                                                                ELSE Loaded(e)]

(* The start of the server preloads all entries, or fails to.              *)
Init ==
  /\ courses = [c \in Courses |->
                  [status |-> Offered[c].status, capacity |-> Offered[c].capacity,
                   slot |-> Offered[c].slot, credit |-> Offered[c].credit,
                   selected |-> 0, version |-> 0]]
  /\ students \in [Students -> [used : {0}, limit : Limits, version : {0}]]
  /\ known \in {Courses, Courses \ NewCourses}
  /\ enrolled = {}
  /\ cache \in {[e \in Entries |-> None], Preloaded}
  /\ marker = [c \in Courses |-> "none"]
  /\ lock = [e \in Entries |-> None]
  /\ job = [g \in Goroutines |-> Idle]
  /\ editor = NoEdit
  /\ late = {}
  /\ faults = 0 /\ disturbances = 0
  /\ shifted = {}

Disturb ==
  disturbances < MaxDisturbances /\ disturbances' = disturbances + 1
Fault == Disturb /\ faults' = faults + 1
(* A failure within an edit or a drop, which the bound has counted.        *)
FaultWithin == faults' = faults + 1 /\ UNCHANGED disturbances

Goto(g, step) == job' = [job EXCEPT ![g].at = step]
At(g, step) == job[g].at = step
Present(g) == cache[job[g].entry] # None
Marked(g) == job[g].entry \in Courses /\ marker[job[g].entry] # "none"
-----------------------------------------------------------------------------
(* EnsureCourseSelectionCache and then EnsureStudentSelectionCache.        *)
Ready(g) ==
  job' = [job EXCEPT ![g] =
            IF job[g].entry \in Courses
            THEN [@ EXCEPT !.at = "look", !.entry = job[g].key[1], !.copy = None]
            ELSE [@ EXCEPT !.at = "reserve", !.copy = None]]

Submit(p) ==
  /\ At(p, "idle")
  /\ \E k \in Asks[p] :
       job' = [job EXCEPT ![p] = [at |-> "look", key |-> k, entry |-> k[2],
                                  copy |-> None]]
  /\ UNCHANGED <<mysql, redis, lock, editor, late, counters, shifted>>

Look(p) ==
  /\ At(p, "look")
  /\ IF Marked(p) THEN Goto(p, "done")
     ELSE IF Present(p) THEN Ready(p) ELSE Goto(p, "acquire")
  /\ UNCHANGED <<mysql, redis, lock, editor, late, counters, shifted>>

(* SETNX with a fresh token.                                               *)
Acquire(p) ==
  /\ At(p, "acquire")
  /\ IF lock[job[p].entry] = None
     THEN lock' = [lock EXCEPT ![job[p].entry] = p] /\ Goto(p, "recheck")
     ELSE UNCHANGED lock /\ Goto(p, "wait")
  /\ UNCHANGED <<mysql, redis, editor, late, counters, shifted>>

FaultyRecheck(p) ==  \* rebuilds even if another has just done so
  /\ At(p, "recheck")
  /\ Goto(p, "read")
  /\ UNCHANGED <<mysql, redis, lock, editor, late, counters, shifted>>

Recheck(p) ==
  /\ At(p, "recheck")
  /\ Goto(p, IF Marked(p) THEN "quit" ELSE IF Present(p) THEN "release" ELSE "read")
  /\ UNCHANGED <<mysql, redis, lock, editor, late, counters, shifted>>

FaultyWaitEnds(p) ==  \* waits until the entry is there
  /\ At(p, "wait")
  /\ Present(p)
  /\ Ready(p)
  /\ UNCHANGED <<mysql, redis, lock, editor, late, counters, shifted>>

(* Polls until the entry or the marker is there or the time is up: "busy". *)
WaitEnds(p) ==
  /\ At(p, "wait")
  /\ \/ Present(p) /\ ~Marked(p) /\ Ready(p)
     \/ Goto(p, "done")
  /\ UNCHANGED <<mysql, redis, lock, editor, late, counters, shifted>>

Leave(p) == IF At(p, "release") THEN Ready(p) ELSE Goto(p, "done")

FaultyRelease(p) ==  \* deletes the lock without comparing the token
  /\ job[p].at \in Leaving
  /\ lock' = [lock EXCEPT ![job[p].entry] = None]
  /\ Leave(p)
  /\ late' = late \ {p}
  /\ UNCHANGED <<mysql, redis, editor, counters, shifted>>

(* The script deletes the lock only if it holds the caller's token.        *)
Release(p) ==
  /\ job[p].at \in Leaving
  /\ lock' = [lock EXCEPT ![job[p].entry] = IF @ = p THEN None ELSE @]
  /\ Leave(p)
  /\ late' = late \ {p}
  /\ UNCHANGED <<mysql, redis, editor, counters, shifted>>

(* Three seconds are over, whatever the holder is doing.                   *)
ExpireLock(e) ==
  /\ lock[e] # None
  /\ Disturb
  /\ late' = late \cup
               {p \in Callers : /\ lock[e] = p /\ job[p].entry = e
                                /\ job[p].at \in InRebuild \cup Leaving}
  /\ lock' = [lock EXCEPT ![e] = None]
  /\ UNCHANGED <<mysql, redis, job, editor, faults, shifted>>

(* An error ends the call; releasing the lock is attempted and may fail.   *)
CallFails(p) ==
  /\ job[p].at \in Active \ (Leaving \cup {"forget", "mark"})
  /\ Fault
  /\ Goto(p, "done")
  /\ LET e == job[p].entry IN
       lock' \in {lock, [lock EXCEPT ![e] = IF @ = p THEN None ELSE @]}
  /\ late' = late \ {p}
  /\ UNCHANGED <<mysql, redis, editor, shifted>>

(* An error of the release is ignored.                                     *)
ReleaseFails(p) ==
  /\ job[p].at \in Leaving
  /\ Fault
  /\ Leave(p)
  /\ late' = late \ {p}
  /\ UNCHANGED <<mysql, redis, lock, editor, shifted>>
-----------------------------------------------------------------------------
(* The refresh proper, shared by rebuilds, drops and creations.            *)
Read(g) ==
  /\ At(g, "read")
  /\ LET e == job[g].entry IN
       IF e \in Courses \ known THEN Goto(g, "forget")
       ELSE job' = [job EXCEPT ![g].at = IF e \in Courses THEN "write" ELSE "join",
                               ![g].copy = Row(e)]
  /\ UNCHANGED <<mysql, redis, lock, editor, late, counters, shifted>>

Join(g) ==
  /\ At(g, "join")
  /\ job' = [job EXCEPT ![g].at = "write", ![g].copy = Joined(job[g].entry, @)]
  /\ UNCHANGED <<mysql, redis, lock, editor, late, counters, shifted>>

AfterWrite(g) ==
  IF g \in Callers THEN Goto(g, "release")
  ELSE job' = [job EXCEPT ![g] =
                 IF g = "drop" /\ @.entry \in Courses
                 THEN [@ EXCEPT !.at = "read", !.entry = job[g].key[1], !.copy = None]
                 ELSE Idle]

FaultyWrite(g) ==  \* leaves the missing marker
  /\ At(g, "write")
  /\ LET e == job[g].entry IN
       cache' = [cache EXCEPT ![e] = [job[g].copy EXCEPT !.asof = VersionOf(e)]]
  /\ AfterWrite(g)
  /\ UNCHANGED <<mysql, marker, lock, editor, late, counters, shifted>>

Unmarked(E) == [c \in Courses |-> IF c \in E THEN "none" ELSE marker[c]]

(* One pipeline: the keys of the entry are set, the marker is deleted.     *)
Write(g) ==
  /\ At(g, "write")
  /\ LET e == job[g].entry IN
       /\ cache' = [cache EXCEPT ![e] = [job[g].copy EXCEPT !.asof = VersionOf(e)]]
       /\ marker' = Unmarked({e})
  /\ AfterWrite(g)
  /\ UNCHANGED <<mysql, lock, editor, late, counters, shifted>>

(* InvalidateCourseSelectionCache, InvalidateStudentSelectionCache.        *)
Invalidate(E) ==
  /\ cache' = [e \in Entries |-> IF e \in E THEN None ELSE cache[e]]
  /\ marker' = Unmarked(E)

(* There is no such course: what there is of it goes, ...                  *)
Forget(p) ==
  /\ At(p, "forget")
  /\ \/ Invalidate({job[p].entry}) /\ UNCHANGED counters
     \/ Fault /\ UNCHANGED redis
  /\ Goto(p, "mark")
  /\ UNCHANGED <<mysql, lock, editor, late, shifted>>

(* ... and a marker is set.  The errors of both are ignored.               *)
Mark(p) ==
  /\ At(p, "mark")
  /\ \/ /\ marker' = [marker EXCEPT ![job[p].entry] =
                         IF job[p].entry \in known THEN "late" ELSE "right"]
        /\ UNCHANGED counters
     \/ Fault /\ UNCHANGED marker
  /\ Goto(p, "quit")
  /\ UNCHANGED <<mysql, cache, lock, editor, late, shifted>>

(* After 30 to 60 seconds, and no time is too short for that.              *)
ExpireMarker(c) ==
  /\ marker[c] # "none"
  /\ marker' = Unmarked({c})
  /\ UNCHANGED <<mysql, cache, lock, job, editor, late, counters, shifted>>
-----------------------------------------------------------------------------
FaultyReserve(p) ==  \* does not look at the stock
  LET s == job[p].key[1]
      c == job[p].key[2] IN
    /\ At(p, "reserve")
    /\ cache[c] # None /\ cache[s] # None
    /\ cache[c].status = 1
    /\ c \notin cache[s].selected
    /\ cache[c].slot \notin cache[s].slots
    /\ cache[s].used + cache[c].credit <= cache[s].limit
    /\ cache' = [cache EXCEPT ![c].stock = @ - 1,
                              ![s].selected = @ \cup {c},
                              ![s].slots = @ \cup ({cache[c].slot} \ {0}),
                              ![s].used = @ + cache[c].credit]
    /\ Goto(p, "pending")
    /\ UNCHANGED <<mysql, marker, lock, editor, late, counters, shifted>>

(* reserveSelectionScript on what it finds, not on what was ensured: the   *)
(* slot and the credit are the course entry's, however old.                *)
Reservable(s, c) ==
  /\ cache[c] # None /\ cache[s] # None
  /\ cache[c].status = 1
  /\ cache[c].stock > 0
  /\ c \notin cache[s].selected
  /\ cache[c].slot \notin cache[s].slots
  /\ cache[s].used + cache[c].credit <= cache[s].limit

Reserve(p) ==
  LET s == job[p].key[1]
      c == job[p].key[2] IN
    /\ At(p, "reserve")
    /\ Reservable(s, c)
    /\ cache' = [cache EXCEPT ![c].stock = @ - 1,
                              ![s].selected = @ \cup {c},
                              ![s].slots = @ \cup ({cache[c].slot} \ {0}),
                              ![s].used = @ + cache[c].credit]
    /\ Goto(p, "pending")
    /\ UNCHANGED <<mysql, marker, lock, editor, late, counters, shifted>>

Refused(p) ==
  /\ At(p, "reserve")
  /\ ~Reservable(job[p].key[1], job[p].key[2])
  /\ Goto(p, "done")
  /\ UNCHANGED <<mysql, redis, lock, editor, late, counters, shifted>>

(* The worker's transaction, when it accepts: MySQL alone decides.         *)
Accept(p) ==
  LET s == job[p].key[1]
      c == job[p].key[2] IN
    /\ At(p, "pending")
    /\ courses[c].status = 1
    /\ courses[c].selected < courses[c].capacity
    /\ \A d \in Timetable(s) : courses[d].slot # courses[c].slot
    /\ students[s].used + courses[c].credit <= students[s].limit
    /\ courses' = [courses EXCEPT ![c].selected = @ + 1]
    /\ students' = [students EXCEPT ![s].used = @ + courses[c].credit]
    /\ enrolled' = enrolled \cup {<<s, c>>}
    /\ Goto(p, "done")
    /\ UNCHANGED <<known, redis, lock, editor, late, counters, shifted>>

(* It refuses, or the request times out before it comes to that.           *)
Refuse(p) ==
  /\ At(p, "pending")
  /\ Goto(p, "cleanup")
  /\ UNCHANGED <<mysql, redis, lock, editor, late, counters, shifted>>

FloorMinus(n, d) == IF n >= d THEN n - d ELSE 0

FaultyReleased(s, c) ==  \* gives everything back but the slot
  [cache EXCEPT ![c].stock = @ + 1,
                ![s].selected = @ \ {c},
                ![s].used = FloorMinus(@, cache[c].credit)]

(* releaseReservedSelectionScript, successful.                             *)
Released(s, c) ==
  [cache EXCEPT ![c].stock = @ + 1,
                ![s].selected = @ \ {c},
                ![s].slots = @ \ {cache[c].slot},
                ![s].used = FloorMinus(@, cache[c].credit)]

(* The script sees a selection of this course by this student, whoever's   *)
(* it is, or fails; then both entries are deleted.                         *)
Compensate(s, c) ==
  LET visible == cache[c] # None /\ cache[s] # None /\ c \in cache[s].selected IN
    \/ visible /\ cache' = Released(s, c) /\ UNCHANGED marker
    \/ ~visible /\ Invalidate({c, s})

CleanUp(p) ==
  LET k == job[p].key IN
    /\ job[p].at \in {"cleanup", "again"}
    /\ \/ Compensate(k[1], k[2]) /\ UNCHANGED counters
       \/ Fault /\ Invalidate({k[2], k[1]})
    /\ Goto(p, "done")
    /\ UNCHANGED <<mysql, lock, editor, late, shifted>>

(* Sweeper, polls and the worker each clean up after a request that they   *)
(* found timed out or failed: another of them is still to come to that.    *)
CleanUpFirst(p) ==
  /\ job[p].at \in {"cleanup", "again"}
  /\ Disturb
  /\ Compensate(job[p].key[1], job[p].key[2])
  /\ Goto(p, "again")
  /\ UNCHANGED <<mysql, lock, editor, late, faults, shifted>>

(* The deletion fails too: the message, or the next sweep, comes again.    *)
CleanUpFails(p) ==
  /\ job[p].at \in {"cleanup", "again"}
  /\ Fault
  /\ UNCHANGED redis \/ Invalidate({job[p].key[2]})
  /\ UNCHANGED <<mysql, lock, job, editor, late, shifted>>
-----------------------------------------------------------------------------
(* DropCourse: the transaction, then a refresh of the course's entry and   *)
(* of the student's.                                                       *)
Drop(k) ==
  /\ At("drop", "idle")
  /\ Disturb
  /\ k \in enrolled
  /\ enrolled' = enrolled \ {k}
  /\ courses' = [courses EXCEPT ![k[2]].selected = FloorMinus(@, 1)]
  /\ students' = [students EXCEPT ![k[1]].used = FloorMinus(@, courses[k[2]].credit)]
  /\ job' = [job EXCEPT !["drop"] = [at |-> "read", key |-> k, entry |-> k[2],
                                     copy |-> None]]
  /\ UNCHANGED <<known, redis, lock, editor, late, faults, shifted>>

(* A refresh that fails deletes both entries; if that fails, it is logged. *)
RefreshFails ==
  /\ ~At("drop", "idle")
  /\ FaultWithin
  /\ LET k == job["drop"].key IN
       UNCHANGED redis \/ Invalidate({k[2]}) \/ Invalidate({k[1], k[2]})
  /\ job' = [job EXCEPT !["drop"] = Idle]
  /\ UNCHANGED <<mysql, lock, editor, late, shifted>>
-----------------------------------------------------------------------------
FaultyEditOrder == <<"delete", "update">>

(* UpdateCourse and UpdateStudentByNo: MySQL first, then the entry goes.   *)
EditOrder == <<"update", "delete">>

(* The columns an edit may write: a course with selections keeps its slot, *)
(* its credit and their places, and is not closed.  Reservations that are  *)
(* still pending are no selections.                                        *)
Editable(row, edit) ==
  /\ edit.capacity > 0
  /\ edit.capacity = row.capacity \/ edit.capacity >= row.selected
  /\ row.selected > 0 =>
       /\ edit.slot = row.slot
       /\ edit.credit = row.credit
       /\ edit.status = 0 => row.status = 0

(* Reads the row and checks the edit against it.  A column the edit leaves *)
(* out keeps its value: one administrator edits at a time.                 *)
StartEdit(e) ==
  /\ editor.step = 0
  /\ Disturb
  /\ \/ /\ e \in known
        /\ \E edit \in CourseEdits :
             /\ Editable(courses[e], edit)
             /\ editor' = [step |-> 1, entry |-> e, edit |-> edit]
     \/ /\ e \in Students
        /\ editor' = [step |-> 1, entry |-> e, edit |-> None]
  /\ UNCHANGED <<mysql, redis, lock, job, late, faults, shifted>>

NextStep == IF editor.step = 1 THEN [editor EXCEPT !.step = 2] ELSE NoEdit

Edited(row, edit) ==
  [row EXCEPT !.status = edit.status, !.capacity = edit.capacity,
              !.slot = edit.slot, !.credit = edit.credit, !.version = @ + 1]

EditRow ==
  LET e == editor.entry IN
    /\ editor.step # 0
    /\ EditOrder[editor.step] = "update"
    /\ \/ /\ e \in Courses
          /\ courses' = [courses EXCEPT ![e] = Edited(@, editor.edit)]
          /\ shifted' = IF editor.edit.slot = courses[e].slot THEN shifted
                        ELSE shifted \cup {courses[e].slot, editor.edit.slot}
          /\ UNCHANGED students
       \/ /\ e \in Students
          /\ \E n \in Limits : students' =
               [students EXCEPT ![e].limit = n, ![e].version = @ + 1]
          /\ UNCHANGED <<courses, shifted>>
    /\ editor' = NextStep
    /\ UNCHANGED <<known, enrolled, redis, lock, job, late, counters>>

(* A deletion that fails is logged.                                        *)
DeleteEntry ==
  /\ editor.step # 0
  /\ EditOrder[editor.step] = "delete"
  /\ \/ Invalidate({editor.entry}) /\ UNCHANGED counters
     \/ FaultWithin /\ UNCHANGED redis
  /\ editor' = NextStep
  /\ UNCHANGED <<mysql, lock, job, late, shifted>>

(* CreateCourse: an open course's entry is warmed up at once, without the  *)
(* lock.  A closed one disturbs nobody before it is edited.                *)
CreateCourse(c) ==
  /\ At("create", "idle")
  /\ c \notin known
  /\ known' = known \cup {c}
  /\ \/ /\ Disturb
        /\ courses' = [courses EXCEPT ![c].status = 1]
        /\ job' = [job EXCEPT !["create"] = [Idle EXCEPT !.at = "read", !.entry = c]]
     \/ /\ courses' = [courses EXCEPT ![c].status = 0]
        /\ UNCHANGED <<job, disturbances>>
  /\ UNCHANGED <<students, enrolled, redis, lock, editor, late, faults, shifted>>

(* A warm-up that fails is logged.                                         *)
WarmUpFails ==
  /\ ~At("create", "idle")
  /\ FaultWithin
  /\ job' = [job EXCEPT !["create"] = Idle]
  /\ UNCHANGED <<mysql, redis, lock, editor, late, shifted>>

(* The server dies with all its goroutines; what is queued stays queued.   *)
(* It starts again and preloads the entries, unless that fails.            *)
ServerCrash ==
  /\ Fault
  /\ job' = [g \in Goroutines |->
               IF g \notin Callers THEN Idle
               ELSE IF job[g].at \in Active THEN [job[g] EXCEPT !.at = "done"]
                                           ELSE job[g]]
  /\ editor' = NoEdit
  /\ late' = {}
  /\ \/ UNCHANGED redis
     \/ cache' = Preloaded /\ marker' = Unmarked(known)
  /\ UNCHANGED <<mysql, lock, shifted>>
-----------------------------------------------------------------------------
Call(p) ==
  \/ Look(p) \/ Acquire(p) \/ Recheck(p) \/ WaitEnds(p) \/ Release(p)
  \/ Read(p) \/ Join(p) \/ Write(p) \/ Forget(p) \/ Mark(p)
  \/ Reserve(p) \/ Refused(p)

Next ==
  \/ \E p \in Callers :
       \/ Submit(p)
       \/ Call(p)
       \/ CallFails(p)
       \/ ReleaseFails(p)
       \/ Accept(p)
       \/ Refuse(p)
       \/ CleanUp(p)
       \/ CleanUpFirst(p)
       \/ CleanUpFails(p)
  \/ \E e \in Entries : ExpireLock(e)
  \/ \E k \in Keys : Drop(k)
  \/ \E g \in {"drop", "create"} : Read(g) \/ Join(g) \/ Write(g)
  \/ RefreshFails
  \/ \E c \in Courses : CreateCourse(c) \/ ExpireMarker(c)
  \/ WarmUpFails
  \/ \E e \in Entries : StartEdit(e)
  \/ EditRow
  \/ DeleteEntry
  \/ ServerCrash

Spec == Init /\ [][Next]_vars

(* Goroutines run on: while some call can go on, one does.  Locks need not *)
(* expire, and nobody need submit.                                         *)
Fairness == WF_vars(\E p \in Callers : Call(p))
FairSpec == Spec /\ Fairness
-----------------------------------------------------------------------------
(* Entries hold what the scripts expect; a stock below zero would show.    *)
TypeOK ==
  /\ courses \in [Courses -> CourseRow]
  /\ students \in [Students -> [used : Nat, limit : Int, version : Nat]]
  /\ enrolled \subseteq Keys /\ known \subseteq Courses
  /\ marker \in [Courses -> {"none", "right", "late"}]
  /\ \A c \in Courses : cache[c] = None \/ cache[c] \in CourseEntry
  /\ \A s \in Students : cache[s] = None \/ cache[s] \in StudentEntry
  /\ lock \in [Entries -> Callers \cup {None}]
  /\ \A g \in Goroutines :
       /\ job[g].at \in Active \cup {"idle", "pending", "cleanup", "again", "done"}
       /\ job[g].key \in Keys \cup {None}
       /\ job[g].entry \in Entries \cup {None}
  /\ editor.step \in 0..2 /\ editor.entry \in Entries \cup {None}
  /\ editor.edit \in CourseEdits \cup {None}
  /\ late \subseteq Callers /\ shifted \subseteq Nat
  /\ faults \in 0..disturbances /\ disturbances \in 0..MaxDisturbances

(* The lock keeps rebuilds of one entry apart (README: "avoids that a hot  *)
(* key is rebuilt concurrently"): two run at once only if the lock of one  *)
(* of them expired, and not because a late one released another's lock.    *)
OneRebuilder ==
  \A p, q \in Callers \ late :
    /\ p # q
    /\ job[p].at \in InRebuild
    /\ job[q].at \in InRebuild
    => job[p].entry # job[q].entry

Reserved(c) == {p \in Callers : job[p].at \in {"pending", "cleanup"} /\ job[p].key[2] = c}

(* Many callers that find the entries cold never wipe out a reservation:   *)
(* what Redis has on a course and a student is what MySQL has plus what is *)
(* reserved, as long as no lock expires, nobody edits, drops or fails, and *)
(* no request is compensated twice.                                        *)
CacheExact ==
  disturbances = 0 =>
    /\ \A c \in Courses : cache[c] # None =>
         cache[c].stock =
           courses[c].capacity - courses[c].selected - Cardinality(Reserved(c))
    /\ \A s \in Students : cache[s] # None =>
         cache[s].selected =
           Timetable(s) \cup {c \in Courses : \E p \in Reserved(c) : job[p].key[1] = s}

(* The bitmap of a student has a bit for the slot of each selected course  *)
(* and no other, through reservations, releases, refreshes and rebuilds.   *)
(* Out of this fall the slots that an edit moved a course out of or into:  *)
(* a reservation set the bit of one, its release may clear the other's.    *)
BitmapMatchesSelected ==
  \A s \in Students : cache[s] # None =>
    cache[s].slots \ shifted = Bits(cache[s].selected) \ shifted

(* README: "after an edit the cache entry is deleted and rebuilt from      *)
(* MySQL".  Short of a failure, an entry disagrees with an edited row only *)
(* until the deletion that follows, or if a refresh had read the row       *)
(* before the edit and wrote it after (that one stays).                    *)
EditsReachCache ==
  faults = 0 =>
    \A e \in Entries :
      \/ cache[e] = None
      \/ cache[e].version = VersionOf(e)
      \/ editor.step # 0 /\ editor.entry = e
      \/ cache[e].version < cache[e].asof

(* A course that is there and open is not hidden by a missing marker left  *)
(* from the time before it was created or opened: the warm-up or the edit  *)
(* that is under way takes it away.  Short of a failure the marker that    *)
(* stays is one whose setter had looked for the course before it was       *)
(* there, and set the marker after ("late"); that one stays until it       *)
(* expires.                                                                *)
MarkersLifted ==
  faults = 0 =>
    \A c \in known :
      \/ courses[c].status = 0
      \/ marker[c] # "right"
      \/ ~At("create", "idle") /\ job["create"].entry = c
      \/ editor.step # 0 /\ editor.entry = c

(* Every submission comes to an end, also when the holder of a rebuild     *)
(* lock has died: the one who waits for the entry gives up, and neither    *)
(* inherits the lock nor waits for its expiry.                             *)
CallsEnd == []<>(\A p \in Callers : job[p].at \notin Active)
=============================================================================
