----------------------- MODULE AsyncSelectionProofs -----------------------
(***************************************************************************)
(* What AsyncSelection keeps for any students, courses, requests, shards   *)
(* and number of faults.                                                   *)
(***************************************************************************)
EXTENDS AsyncSelection, FiniteSetTheorems, TLAPS

(* The stores' contents, with the domains of the caches.                   *)
StoresTyped ==
  /\ TypeOK
  /\ stock \in [Courses -> Nat \cup {None}]
  /\ held \in [Students -> (SUBSET Courses) \cup {None}]

(* The transaction looks before it enrols.                                 *)
NotOversold == \A c \in Courses : Cardinality(Roster(c)) <= Capacity[c]

TypeInv == StoresTyped /\ NotOversold

USE DEF mysql, places, states, ages, procs

LEMMA FaultCounts ==
  ASSUME TypeInv, Fault
  PROVE  faults' \in 0..MaxFaults
  BY BoundAssumption DEF TypeInv, StoresTyped, TypeOK, Fault

(* Where a goroutine's job goes next.                                      *)
LEMMA JobTypes ==
  ASSUME NEW P, NEW jobs \in [P -> Job], NEW n \in P
  PROVE  /\ jobs[n] # Idle => jobs[n].for \in Requests /\ jobs[n].at \in Steps
         /\ jobs[n].at # "idle" => jobs[n] # Idle
         /\ \A step \in Steps : jobs[n] # Idle => Move(jobs, n, step) \in [P -> Job]
         /\ \A status \in Final : jobs[n] # Idle => Closed(jobs, n, status) \in [P -> Job]
         /\ [jobs EXCEPT ![n] = Idle] \in [P -> Job]
         /\ \A r \in Requests, step \in Steps :
              [jobs EXCEPT ![n] = At(step, r)] \in [P -> Job]
  <1>1. Idle \in Job /\ \A r \in Requests, step \in Steps : At(step, r) \in Job
    BY DEF Job, Idle, At
  <1>2. jobs[n] # Idle =>
          jobs[n] \in [at : Steps, for : Requests, status : {"none"} \cup Final]
    BY DEF Job
  <1>3. jobs[n].at # "idle" => jobs[n] # Idle
    BY DEF Idle
  <1>4. ASSUME jobs[n] # Idle, NEW step \in Steps PROVE Move(jobs, n, step) \in [P -> Job]
    <2>1. [jobs[n] EXCEPT !.at = step] \in Job
      BY <1>2, <1>4 DEF Job
    <2>2. Move(jobs, n, step) = [jobs EXCEPT ![n] = [jobs[n] EXCEPT !.at = step]]
      BY DEF Move
    <2>3. QED
      BY <2>1, <2>2
  <1>5. ASSUME jobs[n] # Idle, NEW status \in Final
        PROVE  Closed(jobs, n, status) \in [P -> Job]
    <2> DEFINE step == IF status = "failed" THEN "cleanup" ELSE "store"
               job == [jobs[n] EXCEPT !.at = step, !.status = status]
    <2>1. job \in Job
      BY <1>2, <1>5 DEF Job, Steps
    <2>2. Closed(jobs, n, status) = [jobs EXCEPT ![n] = job]
      BY DEF Closed
    <2>3. QED
      BY <2>1, <2>2
  <1>6. QED
    BY <1>1, <1>2, <1>3, <1>4, <1>5

(* What the scripts and the resets leave in the caches.                    *)
PlacesTyped ==
  /\ stock \in [Courses -> Nat \cup {None}]
  /\ held \in [Students -> (SUBSET Courses) \cup {None}]
  /\ reserver \in [Keys -> Requests \cup {None}]

LEMMA PlacesOf ==
  ASSUME TypeInv PROVE PlacesTyped
  BY DEF TypeInv, StoresTyped, TypeOK, PlacesTyped

LEMMA KeyParts ==
  ASSUME NEW k \in Keys
  PROVE  k[1] \in Students /\ k[2] \in Courses /\ k = <<k[1], k[2]>>
  BY DEF Keys

LEMMA RequestKeys ==
  ASSUME NEW r \in Requests
  PROVE  RequestKey[r] \in Keys
  BY KeyAssumption

LEMMA ResetPlaces ==
  ASSUME TypeInv, NEW k \in Keys
  PROVE  /\ Reset(k) /\ reserver' \in [Keys -> Requests \cup {None}] => PlacesTyped'
         /\ ResetFails(k) /\ UNCHANGED reserver => PlacesTyped'
  BY PlacesOf, KeyParts DEF Reset, ResetFails, PlacesTyped

LEMMA CleanUpPlaces ==
  ASSUME TypeInv, NEW r \in Requests
  PROVE  /\ CleanUp(r) => PlacesTyped' /\ faults' \in 0..MaxFaults
         /\ CleanUpFails(r) => PlacesTyped' /\ faults' \in 0..MaxFaults
  <1> DEFINE k == RequestKey[r]
  <1>1. k \in Keys /\ k[1] \in Students /\ k[2] \in Courses
    BY RequestKeys, KeyParts
  <1>2. [reserver EXCEPT ![k] = None] \in [Keys -> Requests \cup {None}]
    BY PlacesOf DEF PlacesTyped
  <1>3. ASSUME GiveBack(k), reserver' = [reserver EXCEPT ![k] = None]
        PROVE  PlacesTyped'
    BY <1>1, <1>2, <1>3, PlacesOf DEF GiveBack, Cached, PlacesTyped
  <1>4. faults \in 0..MaxFaults
    BY DEF TypeInv, StoresTyped, TypeOK
  <1>5. CleanUp(r) => PlacesTyped' /\ faults' \in 0..MaxFaults
    BY <1>1, <1>2, <1>3, <1>4, ResetPlaces, FaultCounts DEF CleanUp
  <1>6. CleanUpFails(r) => PlacesTyped' /\ faults' \in 0..MaxFaults
    BY <1>1, ResetPlaces, FaultCounts DEF CleanUpFails
  <1>7. QED
    BY <1>5, <1>6

LEMMA ReservePlaces ==
  ASSUME TypeInv, NEW r \in Requests, Reserve(r)
  PROVE  PlacesTyped'
  BY PlacesOf, RequestKeys, KeyParts DEF Reserve, Cached, PlacesTyped

(* The students of a course are a set that can be counted.                 *)
LEMMA RosterFinite ==
  ASSUME NEW c \in Courses
  PROVE  /\ IsFiniteSet(Roster(c)) /\ Cardinality(Roster(c)) \in Nat
         /\ IsFiniteSet(Roster(c)') /\ Cardinality(Roster(c)') \in Nat
  <1>1. Roster(c) \subseteq Students /\ Roster(c)' \subseteq Students
    BY DEF Roster
  <1>2. QED
    BY <1>1, FiniteAssumption, FS_Subset, FS_CardinalityType

(* An acceptance adds its student to its course, where there was a place.  *)
LEMMA AcceptFits ==
  ASSUME NotOversold, NEW k \in Keys, Admissible(k), enrolled' = enrolled \cup {k}
  PROVE  NotOversold'
  <1> SUFFICES ASSUME NEW c \in Courses
               PROVE  Cardinality(Roster(c)') <= Capacity[c]
    BY DEF NotOversold
  <1>1. k[1] \in Students /\ k[2] \in Courses /\ k = <<k[1], k[2]>>
    BY KeyParts
  <1>2. CASE c = k[2]
    <2>1. Roster(c)' = Roster(c) \cup {k[1]} /\ k[1] \notin Roster(c)
      BY <1>1, <1>2 DEF Roster, Admissible
    <2>2. Cardinality(Roster(c)') = Cardinality(Roster(c)) + 1
      BY <2>1, RosterFinite, FS_AddElement
    <2>3. QED
      BY <1>2, <2>2, RosterFinite, CapacityAssumption DEF Admissible
  <1>3. CASE c # k[2]
    <2>1. Roster(c)' = Roster(c)
      BY <1>1, <1>3 DEF Roster
    <2>2. QED
      BY <2>1 DEF NotOversold
  <1>4. QED
    BY <1>2, <1>3

LEMMA DropFits ==
  ASSUME NotOversold, enrolled' \subseteq enrolled
  PROVE  NotOversold'
  <1> SUFFICES ASSUME NEW c \in Courses
               PROVE  Cardinality(Roster(c)') <= Capacity[c]
    BY DEF NotOversold
  <1>1. Roster(c)' \subseteq Roster(c)
    BY DEF Roster
  <1>2. Cardinality(Roster(c)') <= Cardinality(Roster(c))
    BY <1>1, RosterFinite, FS_Subset
  <1>3. QED
    BY <1>2, RosterFinite, CapacityAssumption DEF NotOversold

(* The places a rebuild from MySQL finds.                                  *)
LEMMA FreePlaces ==
  ASSUME NotOversold, NEW c \in Courses
  PROVE  Capacity[c] - Cardinality(Roster(c)) \in Nat
  BY RosterFinite, CapacityAssumption DEF NotOversold

LEMMA TypeInit == Init => TypeInv
  <1> SUFFICES ASSUME Init PROVE TypeInv
    OBVIOUS
  <1>1. StoresTyped
    BY CapacityAssumption, BoundAssumption
    DEF Init, StoresTyped, TypeOK, Job, Final
  <1>2. \A c \in Courses : Roster(c) = {}
    BY DEF Init, Roster
  <1>3. NotOversold
    BY <1>2, FS_EmptySet, CapacityAssumption DEF NotOversold
  <1>4. QED
    BY <1>1, <1>3 DEF TypeInv

(* A step that moves no job, no drop and no place keeps their types.       *)
LEMMA TypeNext == TypeInv /\ [Next]_vars => TypeInv'
  <1> SUFFICES ASSUME TypeInv, [Next]_vars PROVE TypeInv'
    OBVIOUS
  <1> USE DEF TypeInv, StoresTyped
  <1>1. TypeOK /\ NotOversold /\ PlacesTyped
    BY PlacesOf
  <1>2. ASSUME UNCHANGED enrolled PROVE NotOversold'
    BY <1>1, <1>2, DropFits
  <1>3. ASSUME NEW c \in Courses, LoadCourse(c) PROVE TypeInv'
    BY <1>1, <1>2, <1>3, FreePlaces DEF LoadCourse, TypeOK
  <1>4. ASSUME NEW s \in Students, LoadStudent(s) PROVE TypeInv'
    <2>1. Timetable(s) \subseteq Courses
      BY DEF Timetable
    <2>2. QED
      BY <1>1, <1>2, <1>4, <2>1 DEF LoadStudent, TypeOK
  <1>5. ASSUME NEW r \in Requests,
               SubmitReserve(r) \/ SubmitRefused(r) \/ StorePending(r)
                 \/ StorePendingFails(r) \/ Publish(r) \/ PublishFails(r)
                 \/ DeleteState(r) \/ SubmitUndo(r)
        PROVE  TypeInv'
    <2> DEFINE StatusType == {"new", "reserved", "stored", "accepted", "unpublish",
                              "undo", "refused", "crashed"}
    <2>1. /\ submit' \in [Requests -> StatusType]
          /\ UNCHANGED <<mysql, consumer, closer, dropping, drops, ages>>
      BY <1>1, <1>5
      DEF SubmitReserve, SubmitRefused, StorePending, StorePendingFails, Publish,
          PublishFails, DeleteState, SubmitUndo, Submitting, TypeOK
    <2>2. PlacesTyped'
      BY <1>1, <1>5, ReservePlaces, CleanUpPlaces
      DEF SubmitReserve, SubmitRefused, StorePending, StorePendingFails, Publish,
          PublishFails, DeleteState, SubmitUndo, PlacesTyped
    <2>3. faults' \in 0..MaxFaults
      BY <1>1, <1>5, FaultCounts, CleanUpPlaces
      DEF SubmitReserve, SubmitRefused, StorePending, StorePendingFails, Publish,
          PublishFails, DeleteState, SubmitUndo, TypeOK
    <2>4. /\ state' \in [Requests -> {"none", "pending"} \cup Final]
          /\ due' \subseteq Requests /\ queue' \subseteq Requests
      BY <1>1, <1>5
      DEF SubmitReserve, SubmitRefused, StorePending, StorePendingFails, Publish,
          PublishFails, DeleteState, SubmitUndo, TypeOK
    <2>5. QED
      BY <1>1, <1>2, <2>1, <2>2, <2>3, <2>4 DEF TypeOK, PlacesTyped
  <1>6. CASE ServerCrash
    BY <1>1, <1>2, <1>6, FaultCounts, JobTypes DEF ServerCrash, TypeOK, Closers
  <1>7. ASSUME NEW r \in Requests, LoseMessage(r) \/ PassDeadline(r) \/ Expire(r)
                                     \/ ExpirePending(r) \/ ForgetDue(r)
        PROVE  TypeInv'
    BY <1>1, <1>2, <1>7, FaultCounts
    DEF LoseMessage, PassDeadline, Expire, ExpirePending, ForgetDue, TypeOK
  <1>8. ASSUME NEW n \in Consumers, Deliver(n) PROVE TypeInv'
    BY <1>1, <1>2, <1>8, JobTypes DEF Deliver, TypeOK, Steps
  <1>9. ASSUME NEW n \in Consumers, Decide(n) PROVE TypeInv'
    <2> DEFINE r == consumer[n].for
    <2>1. r \in Requests /\ consumer[n] # Idle /\ RequestKey[r] \in Keys
      BY <1>1, <1>9, JobTypes, RequestKeys DEF Decide, TypeOK
    <2>2. row' \in [Requests -> {"none"} \cup Final] /\ row'[r] \in Final
      BY <1>1, <1>9, <2>1 DEF Decide, TypeOK, Final
    <2>3. consumer' \in [Consumers -> Job]
      BY <1>1, <1>9, <2>1, <2>2, JobTypes DEF Decide, TypeOK
    <2>4. enrolled' \subseteq Keys /\ NotOversold'
      BY <1>1, <1>2, <1>9, <2>1, AcceptFits DEF Decide, TypeOK
    <2>5. faults' \in 0..MaxFaults
      BY <1>1, <1>9, FaultCounts DEF Decide, TypeOK
    <2>6. QED
      BY <1>1, <1>9, <2>2, <2>3, <2>4, <2>5 DEF Decide, TypeOK
  <1>10. ASSUME NEW n \in Consumers, DecideAsVictim(n) PROVE TypeInv'
    BY <1>1, <1>2, <1>10, FaultCounts, JobTypes DEF DecideAsVictim, TypeOK, Final
  <1>11. ASSUME NEW n \in Consumers, ConsumerCleanUp(n) PROVE TypeInv'
    <2>1. consumer[n] # Idle /\ consumer[n].for \in Requests
      BY <1>1, <1>11, JobTypes DEF ConsumerCleanUp, TypeOK
    <2>2. consumer' \in [Consumers -> Job]
      BY <1>1, <1>11, <2>1, JobTypes DEF ConsumerCleanUp, TypeOK, Steps
    <2>3. PlacesTyped' /\ faults' \in 0..MaxFaults
      BY <1>11, <2>1, CleanUpPlaces DEF ConsumerCleanUp
    <2>4. QED
      BY <1>1, <1>2, <1>11, <2>2, <2>3 DEF ConsumerCleanUp, TypeOK, PlacesTyped
  <1>12. ASSUME NEW n \in Consumers, ConsumerStore(n) PROVE TypeInv'
    <2>1. /\ consumer[n] # Idle /\ consumer[n].for \in Requests
          /\ consumer[n].status \in {"none"} \cup Final
      BY <1>1, <1>12, JobTypes DEF ConsumerStore, TypeOK, Job, Idle
    <2>2. consumer' \in [Consumers -> Job]
      BY <1>1, <1>12, <2>1, JobTypes DEF ConsumerStore, TypeOK, Steps
    <2>3. /\ state' \in [Requests -> {"none", "pending"} \cup Final]
          /\ due' \subseteq Requests /\ faults' \in 0..MaxFaults
      BY <1>1, <1>12, <2>1, FaultCounts
      DEF ConsumerStore, StoreFinal, StoreFinalFails, TypeOK
    <2>4. QED
      BY <1>1, <1>2, <1>12, <2>2, <2>3 DEF ConsumerStore, TypeOK
  <1>13. ASSUME NEW n \in Consumers, Ack(n) PROVE TypeInv'
    BY <1>1, <1>2, <1>13, JobTypes DEF Ack, TypeOK
  <1>14. ASSUME NEW n \in Consumers, Requeue(n) PROVE TypeInv'
    <2>1. consumer[n] # Idle /\ consumer[n].for \in Requests
      BY <1>1, <1>14, JobTypes DEF Requeue, TypeOK
    <2>2. consumer' \in [Consumers -> Job] /\ queue' \subseteq Requests
      BY <1>1, <1>14, <2>1, JobTypes DEF Requeue, TypeOK
    <2>3. PlacesTyped' /\ faults' \in 0..MaxFaults
      BY <1>1, <1>14, <2>1, CleanUpPlaces, FaultCounts DEF Requeue, PlacesTyped
    <2>4. QED
      BY <1>1, <1>2, <1>14, <2>2, <2>3 DEF Requeue, TypeOK, PlacesTyped
  <1>15. CASE WorkerCrash
    <2>1. \A n \in Consumers : consumer[n] # Idle => consumer[n].for \in Requests
      BY <1>1, JobTypes DEF TypeOK
    <2>2. consumer' \in [Consumers -> Job] /\ closer' \in [Closers -> Job]
      BY <1>1, <1>15, JobTypes DEF WorkerCrash, TypeOK, Job, Closers
    <2>3. QED
      BY <1>1, <1>2, <1>15, <2>1, <2>2, FaultCounts DEF WorkerCrash, TypeOK
  <1>16. ASSUME NEW w \in Closers, StartClosing(w) PROVE TypeInv'
    BY <1>1, <1>2, <1>16, JobTypes DEF StartClosing, TypeOK, Steps
  <1>17. ASSUME NEW w \in Closers, InsertFailed(w) PROVE TypeInv'
    <2> DEFINE r == closer[w].for
    <2>1. r \in Requests /\ closer[w] # Idle
      BY <1>1, <1>17, JobTypes DEF InsertFailed, TypeOK
    <2>2. row' \in [Requests -> {"none"} \cup Final] /\ row'[r] \in Final
      BY <1>1, <1>17, <2>1 DEF InsertFailed, TypeOK, Final
    <2>3. closer' \in [Closers -> Job]
      BY <1>1, <1>17, <2>1, <2>2, JobTypes DEF InsertFailed, TypeOK
    <2>4. QED
      BY <1>1, <1>2, <1>17, <2>2, <2>3 DEF InsertFailed, TypeOK
  <1>18. ASSUME NEW w \in Closers, CloserCleanUp(w) PROVE TypeInv'
    <2>1. closer[w] # Idle /\ closer[w].for \in Requests
      BY <1>1, <1>18, JobTypes DEF CloserCleanUp, TypeOK
    <2>2. closer' \in [Closers -> Job]
      BY <1>1, <1>18, <2>1, JobTypes DEF CloserCleanUp, TypeOK, Steps
    <2>3. PlacesTyped' /\ faults' \in 0..MaxFaults
      BY <1>18, <2>1, CleanUpPlaces DEF CloserCleanUp
    <2>4. QED
      BY <1>1, <1>2, <1>18, <2>2, <2>3 DEF CloserCleanUp, TypeOK, PlacesTyped
  <1>19. ASSUME NEW w \in Closers, CloserStore(w) \/ CloserFails(w) PROVE TypeInv'
    <2>1. /\ closer[w] # Idle /\ closer[w].for \in Requests
          /\ closer[w].status \in {"none"} \cup Final
      BY <1>1, <1>19, JobTypes DEF CloserStore, CloserFails, TypeOK, Job, Idle
    <2>2. closer' \in [Closers -> Job]
      BY <1>1, <1>19, <2>1, JobTypes DEF CloserStore, CloserFails, TypeOK
    <2>3. /\ state' \in [Requests -> {"none", "pending"} \cup Final]
          /\ due' \subseteq Requests
      BY <1>1, <1>19, <2>1
      DEF CloserStore, CloserFails, StoreFinal, StoreFinalFails, TypeOK
    <2>4. PlacesTyped' /\ faults' \in 0..MaxFaults
      BY <1>1, <1>19, <2>1, CleanUpPlaces, FaultCounts
      DEF CloserStore, CloserFails, StoreFinalFails, PlacesTyped, TypeOK
    <2>5. QED
      BY <1>1, <1>2, <1>19, <2>2, <2>3, <2>4
      DEF CloserStore, CloserFails, TypeOK, PlacesTyped
  <1>20. ASSUME NEW k \in Keys, DropCourse(k) PROVE TypeInv'
    <2>1. NotOversold'
      BY <1>1, <1>20, DropFits DEF DropCourse
    <2>2. QED
      BY <1>1, <1>20, <2>1, BoundAssumption DEF DropCourse, At, TypeOK
  <1>21. CASE RefreshCourse
    <2>1. dropping.for \in Keys /\ dropping.for[2] \in Courses
      BY <1>1, <1>21, KeyParts DEF RefreshCourse, TypeOK, Idle
    <2>2. QED
      BY <1>1, <1>2, <1>21, <2>1, FreePlaces DEF RefreshCourse, TypeOK, At
  <1>22. CASE RefreshStudent
    <2>1. dropping.for \in Keys /\ dropping.for[1] \in Students
      BY <1>1, <1>22, KeyParts DEF RefreshStudent, TypeOK, Idle
    <2>2. Timetable(dropping.for[1]) \subseteq Courses
      BY DEF Timetable
    <2>3. QED
      BY <1>1, <1>2, <1>22, <2>1, <2>2 DEF RefreshStudent, TypeOK
  <1>23. CASE RefreshFails
    <2>1. dropping.for \in Keys
      BY <1>1, <1>23 DEF RefreshFails, TypeOK
    <2>2. PlacesTyped' /\ faults' \in 0..MaxFaults
      BY <1>1, <1>23, <2>1, ResetPlaces, FaultCounts DEF RefreshFails, PlacesTyped
    <2>3. QED
      BY <1>1, <1>2, <1>23, <2>2 DEF RefreshFails, TypeOK, PlacesTyped
  <1>24. CASE UNCHANGED vars
    BY <1>1, <1>2, <1>24 DEF vars, TypeOK
  <1>25. QED
    BY <1>3, <1>4, <1>5, <1>6, <1>7, <1>8, <1>9, <1>10, <1>11, <1>12, <1>13, <1>14,
       <1>15, <1>16, <1>17, <1>18, <1>19, <1>20, <1>21, <1>22, <1>23, <1>24
    DEF Next, Sweep, Poll, Closers
-----------------------------------------------------------------------------
(***************************************************************************)
(* The types, and the decisions themselves.                                *)
(***************************************************************************)

(* The stores and processes hold only what they can hold: no stock in      *)
(* Redis falls below zero, whatever crashes between two steps.             *)
THEOREM TypesCorrect == Spec => []TypeOK
  <1>1. TypeInv => TypeOK
    BY DEF TypeInv, StoresTyped
  <1>2. QED
    BY <1>1, TypeInit, TypeNext, PTL DEF Spec

LEMMA TypesAlways == Spec => []TypeInv
  BY TypeInit, TypeNext, PTL DEF Spec

(* No course ever has more active enrollments than places, in MySQL.       *)
THEOREM NoOversell == Spec => []NotOversold
  <1>1. TypeInv => NotOversold
    BY DEF TypeInv
  <1>2. QED
    BY <1>1, TypesAlways, PTL

(* Who writes the tables: a request is decided by the transaction of its   *)
(* message or by a timeout, and places are given only by the former.       *)
LEMMA TablesWritten ==
  ASSUME TypeInv, [Next]_vars
  PROVE  \/ \E n \in Consumers : Decide(n)
         \/ UNCHANGED row /\ enrolled' \subseteq enrolled
         \/ UNCHANGED enrolled /\ \E w \in Closers : InsertFailed(w)
  BY DEF Next, vars, Sweep, Poll, Closers, LoadCourse, LoadStudent, SubmitReserve,
         SubmitRefused, StorePending, StorePendingFails, Publish, PublishFails,
         DeleteState, SubmitUndo, LoseMessage, PassDeadline, Expire, ExpirePending, ServerCrash,
         Deliver, DecideAsVictim, ConsumerCleanUp, ConsumerStore, Ack, Requeue,
         WorkerCrash, StartClosing, ForgetDue, CloserCleanUp, CloserStore,
         CloserFails, DropCourse, RefreshCourse, RefreshStudent, RefreshFails,
         InsertFailed

(* What the two kinds of decision do to the rows.                          *)
LEMMA DecideWrites ==
  ASSUME TypeInv, NEW n \in Consumers, Decide(n)
  PROVE  LET r == consumer[n].for IN
           /\ r \in Requests /\ consumer[n] # Idle /\ row'[r] \in Final
           /\ \A q \in Requests : row[q] \in Final \/ q # r => row'[q] = row[q]
           /\ enrolled' # enrolled => /\ row[r] = "none" /\ row'[r] = "success"
                                      /\ enrolled' = enrolled \cup {RequestKey[r]}
  <1> DEFINE r == consumer[n].for
  <1>1. /\ r \in Requests /\ consumer[n] # Idle
        /\ row \in [Requests -> {"none"} \cup Final]
    BY JobTypes DEF Decide, TypeInv, StoresTyped, TypeOK
  <1>2. QED
    BY <1>1 DEF Decide, Final

LEMMA InsertWrites ==
  ASSUME TypeInv, NEW w \in Closers, InsertFailed(w)
  PROVE  LET r == closer[w].for IN
           /\ r \in Requests /\ closer[w] # Idle /\ row'[r] \in Final
           /\ row[r] = "none" => row'[r] = "failed"
           /\ \A q \in Requests : row[q] \in Final \/ q # r => row'[q] = row[q]
  <1> DEFINE r == closer[w].for
  <1>1. /\ r \in Requests /\ closer[w] # Idle
        /\ row \in [Requests -> {"none"} \cup Final]
    BY JobTypes DEF InsertFailed, TypeInv, StoresTyped, TypeOK
  <1>2. QED
    BY <1>1 DEF InsertFailed, Final

LEMMA RowsStay ==
  ASSUME TypeInv, [Next]_vars
  PROVE  \A r \in Requests : row[r] \in Final => row'[r] = row[r]
  BY TablesWritten, DecideWrites, InsertWrites

(* A request is decided once, by the worker or by a timeout, and a student *)
(* is enrolled only in the step that makes a request of hers a success,    *)
(* however often its message is delivered and whoever gives up on it.      *)
THEOREM RequestsDecidedOnce == Spec => DecidedOnce
  <1>1. TypeInv /\ [Next]_vars =>
          [/\ \A r \in Requests : row[r] \in Final => row'[r] = row[r]
           /\ \A k \in enrolled' \ enrolled :
                \E r \in Requests :
                  RequestKey[r] = k /\ row[r] = "none" /\ row'[r] = "success"]_vars
    <2> SUFFICES ASSUME TypeInv, [Next]_vars, NEW k \in enrolled' \ enrolled
                 PROVE  \E r \in Requests :
                          RequestKey[r] = k /\ row[r] = "none" /\ row'[r] = "success"
      BY RowsStay
    <2>1. PICK n \in Consumers : Decide(n)
      BY TablesWritten
    <2>2. QED
      BY <2>1, DecideWrites
  <1>2. QED
    BY <1>1, TypesAlways, PTL DEF Spec, DecidedOnce
-----------------------------------------------------------------------------
(***************************************************************************)
(* The refinement.  The transaction of a message is Accept, Refuse or, for *)
(* a request that has its row, nothing; the row of a timeout is Refuse or  *)
(* nothing; the transaction of a drop is Drop.                             *)
(***************************************************************************)
LEMMA PromiseNoCredits == \A s : Promise!CreditsOf(s) = 0
  <1> SUFFICES ASSUME NEW s PROVE Promise!CreditsOf(s) = 0
    OBVIOUS
  <1> DEFINE f == [c \in Courses |-> [d \in Courses |->
                     [status |-> 1, capacity |-> Capacity[d], credit |-> 0, slot |-> d]][c].credit]
  <1>1. Promise!TimetableOf(s) \subseteq Courses
    BY DEF Promise!TimetableOf
  <1>2. \A c \in Courses : f[c] = 0
    OBVIOUS
  <1>3. Promise!Units(f, Promise!TimetableOf(s)) = {}
    <2>1. \A c \in Promise!TimetableOf(s) : 1..f[c] = {}
      BY <1>1, <1>2
    <2>2. QED
      BY <2>1 DEF Promise!Units
  <1>4. Promise!Cardinality({}) = Cardinality({})
    BY DEF Promise!Cardinality, Cardinality
  <1>5. Promise!SumOver(f, Promise!TimetableOf(s)) = 0
    BY <1>3, <1>4, FS_EmptySet DEF Promise!SumOver
  <1>6. QED
    BY <1>5 DEF Promise!CreditsOf

LEMMA AdmissibleHere ==
  ASSUME TypeInv, NEW k \in Keys, Admissible(k)
  PROVE  Promise!Admissible(k[1], k[2])
  <1>1. k = <<k[1], k[2]>> /\ k[1] \in Students /\ k[2] \in Courses
    BY DEF Keys
  <1>2. Promise!Cardinality(Promise!RosterOf(k[2])) = Cardinality(Roster(k[2]))
    BY DEF Promise!Cardinality, Cardinality, Promise!RosterOf, Roster
  <1>3. \A d \in Promise!TimetableOf(k[1]) : d \in Courses /\ d # k[2]
    BY <1>1 DEF Promise!TimetableOf, Admissible
  <1>4. Promise!CreditsOf(k[1]) + 0 <= 0
    BY PromiseNoCredits
  <1>5. QED
    BY <1>1, <1>2, <1>3, <1>4 DEF Promise!Admissible, Admissible

(* Who writes the enrollments without deciding: a drop.                    *)
LEMMA DropsWritten ==
  ASSUME TypeInv, [Next]_vars, UNCHANGED row, enrolled' # enrolled
  PROVE  \/ \E n \in Consumers : Decide(n)
         \/ \E k \in Keys : DropCourse(k)
  BY DEF Next, vars, Sweep, Poll, Closers, LoadCourse, LoadStudent, SubmitReserve,
         SubmitRefused, StorePending, StorePendingFails, Publish, PublishFails,
         DeleteState, SubmitUndo, LoseMessage, PassDeadline, Expire, ExpirePending, ServerCrash,
         Deliver, DecideAsVictim, ConsumerCleanUp, ConsumerStore, Ack, Requeue,
         WorkerCrash, StartClosing, ForgetDue, CloserCleanUp, CloserStore,
         CloserFails, RefreshCourse, RefreshStudent, RefreshFails, InsertFailed

LEMMA DecideKept ==
  ASSUME TypeInv, NEW n \in Consumers, Decide(n)
  PROVE  \/ \E r \in Requests : Promise!Accept(r) \/ Promise!Refuse(r)
         \/ UNCHANGED <<enrolled, row>>
  <1> DEFINE r == consumer[n].for
             k == RequestKey[r]
  <1>1. /\ r \in Requests /\ k \in Keys
        /\ row \in [Requests -> {"none"} \cup Final]
    BY JobTypes, DecideWrites, KeyAssumption DEF TypeInv, StoresTyped, TypeOK
  <1>2. CASE row[r] # "none"
    BY <1>2 DEF Decide
  <1>3. CASE row[r] = "none" /\ row' = [row EXCEPT ![r] = "failed"] /\ UNCHANGED enrolled
    BY <1>1, <1>3 DEF Promise!Refuse
  <1>4. CASE /\ row[r] = "none" /\ Admissible(k)
             /\ row' = [row EXCEPT ![r] = "success"]
             /\ enrolled' = enrolled \cup {k}
    <2>1. Promise!Admissible(k[1], k[2])
      BY <1>1, <1>4, AdmissibleHere
    <2>2. Promise!Accept(r)
      BY <1>4, <2>1 DEF Promise!Accept
    <2>3. QED
      BY <1>1, <2>2
  <1>5. QED
    BY <1>2, <1>3, <1>4 DEF Decide

(* Whatever is lost, comes twice, crashes or times out between the server, *)
(* Redis, RabbitMQ and the worker, the tables only ever make the steps of  *)
(* the promise: a request is accepted within the capacity, or refused, and *)
(* only a drop takes a place.                                              *)
THEOREM MachineryImplementsSelection == Spec => ImplementsEnrollment
  <1>1. Init => Promise!Init
    BY DEF Init, Promise!Init
  <1>2. TypeInv /\ [Next]_vars => [Promise!Next]_(Promise!vars)
    <2> SUFFICES ASSUME TypeInv, [Next]_vars PROVE [Promise!Next]_(Promise!vars)
      OBVIOUS
    <2>1. ASSUME NEW n \in Consumers, Decide(n) PROVE [Promise!Next]_(Promise!vars)
      BY <2>1, DecideKept DEF Promise!Next, Promise!vars
    <2>2. ASSUME NEW w \in Closers, InsertFailed(w), UNCHANGED enrolled
          PROVE  [Promise!Next]_(Promise!vars)
      <3> DEFINE r == closer[w].for
      <3>1. r \in Requests /\ row \in [Requests -> {"none"} \cup Final]
        BY <2>2, InsertWrites DEF TypeInv, StoresTyped, TypeOK
      <3>2. CASE row[r] = "none"
        <4>1. row' = [row EXCEPT ![r] = "failed"]
          BY <2>2, <3>2 DEF InsertFailed
        <4>2. Promise!Refuse(r)
          BY <2>2, <3>2, <4>1 DEF Promise!Refuse
        <4>3. QED
          BY <3>1, <4>2 DEF Promise!Next
      <3>3. CASE row[r] # "none"
        <4>1. row' = row
          BY <2>2, <3>1, <3>3 DEF InsertFailed
        <4>2. QED
          BY <2>2, <4>1 DEF Promise!vars
      <3>4. QED
        BY <3>2, <3>3
    <2>3. ASSUME NEW k \in Keys, DropCourse(k) PROVE [Promise!Next]_(Promise!vars)
      <3>1. Promise!Drop(k)
        BY <2>3 DEF DropCourse, Promise!Drop
      <3>2. QED
        BY <3>1 DEF Promise!Next, Keys
    <2>4. CASE UNCHANGED row
      <3>1. CASE enrolled' = enrolled
        BY <2>4, <3>1 DEF Promise!vars
      <3>2. CASE enrolled' # enrolled
        BY <2>1, <2>3, <2>4, <3>2, DropsWritten
      <3>3. QED
        BY <3>1, <3>2
    <2>5. QED
      BY <2>1, <2>2, <2>4, TablesWritten
  <1>3. QED
    BY <1>1, <1>2, TypesAlways, PTL DEF Spec, ImplementsEnrollment, Promise!Spec
-----------------------------------------------------------------------------
(***************************************************************************)
(* Messages.  A message exists for an accepted request only, and in one    *)
(* place only, so nobody decides a request behind the back of the consumer *)
(* that is undoing it.                                                     *)
(***************************************************************************)
Messages ==
  /\ \A r \in queue : submit[r] = "accepted"
  /\ \A n \in Consumers : consumer[n] # Idle =>
       /\ submit[consumer[n].for] = "accepted"
       /\ consumer[n].for \notin queue
       /\ \A m \in Consumers \ {n} :
            consumer[m] # Idle => consumer[m].for # consumer[n].for
  /\ \A r \in Requests : row[r] = "success" => submit[r] = "accepted"

Undoing ==
  /\ \A n \in Consumers : consumer[n].at = "cleanup" => row[consumer[n].for] # "success"
  /\ \A w \in Closers : closer[w].at = "cleanup" => row[closer[w].for] = "failed"

Inv == TypeInv /\ Messages /\ Undoing

(* A job that moves on is for the same request, and no other job moves.    *)
LEMMA JobMoves ==
  ASSUME NEW P, NEW jobs \in [P -> Job], NEW n \in P, jobs[n] # Idle, NEW jobs2,
         \/ \E step \in Steps : jobs2 = Move(jobs, n, step)
         \/ \E status \in Final : jobs2 = Closed(jobs, n, status)
  PROVE  /\ jobs2[n].for = jobs[n].for /\ jobs2[n] # Idle
         /\ \A m \in P \ {n} : jobs2[m] = jobs[m]
  <1>1. jobs[n] \in [at : Steps, for : Requests, status : {"none"} \cup Final]
    BY DEF Job
  <1>2. ASSUME NEW step \in Steps, jobs2 = Move(jobs, n, step)
        PROVE  /\ jobs2[n] = [jobs[n] EXCEPT !.at = step] /\ step # "idle"
               /\ \A m \in P \ {n} : jobs2[m] = jobs[m]
    BY <1>2 DEF Move, Steps
  <1>3. ASSUME NEW status \in Final, jobs2 = Closed(jobs, n, status)
        PROVE  /\ jobs2[n] = [jobs[n] EXCEPT
                                !.at = IF status = "failed" THEN "cleanup" ELSE "store",
                                !.status = status]
               /\ \A m \in P \ {n} : jobs2[m] = jobs[m]
    BY <1>3 DEF Closed
  <1>4. ASSUME NEW step \in Steps, jobs2[n] = [jobs[n] EXCEPT !.at = step]
        PROVE  jobs2[n].for = jobs[n].for /\ jobs2[n] # Idle
    <2>1. jobs2[n].for = jobs[n].for /\ jobs2[n].at = step
      BY <1>1, <1>4
    <2>2. QED
      BY <2>1 DEF Steps, Idle
  <1>5. ASSUME NEW step \in Steps, NEW status,
               jobs2[n] = [jobs[n] EXCEPT !.at = step, !.status = status]
        PROVE  jobs2[n].for = jobs[n].for /\ jobs2[n] # Idle
    <2>1. jobs2[n].for = jobs[n].for /\ jobs2[n].at = step
      BY <1>1, <1>5
    <2>2. QED
      BY <2>1 DEF Steps, Idle
  <1>6. \A status : (IF status = "failed" THEN "cleanup" ELSE "store") \in Steps
    BY DEF Steps
  <1>7. CASE \E step \in Steps : jobs2 = Move(jobs, n, step)
    BY <1>2, <1>4, <1>7
  <1>8. CASE \E status \in Final : jobs2 = Closed(jobs, n, status)
    <2>1. PICK status \in Final : jobs2 = Closed(jobs, n, status)
      BY <1>8
    <2>2. PICK step \in Steps : step = IF status = "failed" THEN "cleanup" ELSE "store"
      BY <1>6
    <2>3. QED
      BY <1>3, <1>5, <2>1, <2>2
  <1>9. QED
    BY <1>7, <1>8

LEMMA MoveTo ==
  ASSUME NEW P, NEW jobs \in [P -> Job], NEW n \in P, jobs[n] # Idle, NEW step
  PROVE  /\ Move(jobs, n, step)[n].at = step
         /\ Move(jobs, n, step)[n].status = jobs[n].status
  BY DEF Move, Job

LEMMA ClosedTo ==
  ASSUME NEW P, NEW jobs \in [P -> Job], NEW n \in P, jobs[n] # Idle, NEW status
  PROVE  /\ Closed(jobs, n, status)[n].status = status
         /\ Closed(jobs, n, status)[n].at = IF status = "failed" THEN "cleanup" ELSE "store"
  BY DEF Closed, Job

LEMMA JobsTyped ==
  ASSUME TypeInv
  PROVE  /\ consumer \in [Consumers -> Job] /\ closer \in [Closers -> Job]
         /\ \A n \in Consumers : consumer[n] # Idle =>
              consumer[n].for \in Requests /\ consumer[n].status \in {"none"} \cup Final
         /\ \A w \in Closers : closer[w] # Idle =>
              closer[w].for \in Requests /\ closer[w].status \in {"none"} \cup Final
         /\ \A n \in Consumers : consumer[n].at # "idle" => consumer[n] # Idle
         /\ \A w \in Closers : closer[w].at # "idle" => closer[w] # Idle
  <1>1. consumer \in [Consumers -> Job] /\ closer \in [Closers -> Job]
    BY DEF TypeInv, StoresTyped, TypeOK
  <1>2. \A j \in Job : /\ j # Idle => j.for \in Requests /\ j.status \in {"none"} \cup Final
                       /\ j.at # "idle" => j # Idle
    BY DEF Job, Idle
  <1>3. QED
    BY <1>1, <1>2

LEMMA StoresTypes ==
  ASSUME TypeInv
  PROVE  /\ row \in [Requests -> {"none"} \cup Final] /\ queue \subseteq Requests
         /\ state \in [Requests -> {"none", "pending"} \cup Final]
         /\ submit \in [Requests -> {"new", "reserved", "stored", "accepted",
                                     "unpublish", "undo", "refused", "crashed"}]
  BY DEF TypeInv, StoresTyped, TypeOK

LEMMA InvInit == Init => Inv
  <1>1. Init => Messages /\ Undoing
    BY DEF Init, Messages, Undoing, Idle
  <1>2. QED
    BY <1>1, TypeInit DEF Inv

(* What moves a message.                                                   *)
LEMMA MessagesMoved ==
  ASSUME TypeInv, [Next]_vars
  PROVE  \/ \E n \in Consumers : \/ Deliver(n)
                                 \/ Decide(n)
                                 \/ DecideAsVictim(n)
                                 \/ ConsumerCleanUp(n)
                                 \/ ConsumerStore(n)
                                 \/ Ack(n)
                                 \/ Requeue(n)
         \/ WorkerCrash
         \/ \E r \in Requests : Publish(r) \/ LoseMessage(r)
         \/ /\ UNCHANGED <<consumer, queue>>
            /\ \A r \in Requests : submit[r] = "accepted" <=> submit'[r] = "accepted"
  BY StoresTypes
     DEF Next, vars, Sweep, Poll, LoadCourse, LoadStudent, SubmitReserve,
         SubmitRefused, StorePending, StorePendingFails, PublishFails,
         DeleteState, SubmitUndo, PassDeadline, Expire, ExpirePending, ServerCrash,
         StartClosing, ForgetDue, CloserCleanUp, CloserStore, InsertFailed,
         CloserFails, DropCourse, RefreshCourse, RefreshStudent, RefreshFails,
         Submitting

(* A success is the work of a consumer that holds the request's message.   *)
LEMMA SuccessWritten ==
  ASSUME TypeInv, [Next]_vars, NEW r \in Requests, row[r] # "success", row'[r] = "success"
  PROVE  \E n \in Consumers : Decide(n) /\ consumer[n].for = r
  <1>1. ~ \E w \in Closers : InsertFailed(w)
    BY StoresTypes, InsertWrites DEF Final
  <1>2. PICK n \in Consumers : Decide(n)
    BY <1>1, TablesWritten
  <1>3. QED
    BY <1>2, StoresTypes, DecideWrites

LEMMA MessagesNext == Inv /\ [Next]_vars => Messages'
  <1> SUFFICES ASSUME Inv, [Next]_vars PROVE Messages'
    OBVIOUS
  <1>1. TypeInv /\ Messages
    BY DEF Inv
  <1>2. ASSUME \A r \in queue' : r \in queue \/ \E n \in Consumers :
                                   consumer[n] # Idle /\ consumer[n].for = r,
               \A n \in Consumers : consumer'[n] # Idle =>
                 /\ consumer[n] # Idle
                 /\ consumer'[n].for = consumer[n].for /\ consumer'[n].for \notin queue',
               \A r \in Requests : submit[r] = "accepted" => submit'[r] = "accepted"
        PROVE  Messages'
    <2>1. \A r \in Requests : row'[r] = "success" => submit'[r] = "accepted"
      BY <1>1, <1>2, SuccessWritten, JobsTyped DEF Messages, Decide
    <2>2. QED
      BY <1>1, <1>2, <2>1, JobsTyped, StoresTypes DEF Messages
  <1>3. ASSUME NEW n \in Consumers, Deliver(n) PROVE Messages'
    <2>1. PICK r \in queue : /\ consumer' = [consumer EXCEPT ![n] = At("decide", r)]
                             /\ queue' = queue \ {r} /\ consumer[n] = Idle
                             /\ UNCHANGED <<row, submit>>
      BY <1>3 DEF Deliver
    <2>2. /\ consumer'[n] # Idle /\ consumer'[n].for = r
          /\ \A m \in Consumers \ {n} : consumer'[m] = consumer[m]
      BY <1>1, <2>1, JobsTyped DEF At, Idle
    <2>3. QED
      BY <1>1, <2>1, <2>2 DEF Messages
  <1>4. ASSUME NEW n \in Consumers,
               \/ Decide(n) \/ DecideAsVictim(n) \/ ConsumerCleanUp(n) \/ ConsumerStore(n)
        PROVE  Messages'
    <2>1. consumer[n] # Idle /\ UNCHANGED <<queue, submit>>
      BY <1>1, <1>4, JobsTyped
      DEF Decide, DecideAsVictim, ConsumerCleanUp, ConsumerStore
    <2>2. \/ \E step \in Steps : consumer' = Move(consumer, n, step)
          \/ \E status \in Final : consumer' = Closed(consumer, n, status)
      BY <1>1, <1>4, DecideWrites
      DEF Decide, DecideAsVictim, ConsumerCleanUp, ConsumerStore, Steps, Final
    <2>3. /\ consumer'[n].for = consumer[n].for
          /\ \A m \in Consumers \ {n} : consumer'[m] = consumer[m]
      BY <1>1, <2>1, <2>2, JobsTyped, JobMoves
    <2>4. QED
      BY <1>1, <1>2, <2>1, <2>3 DEF Messages
  <1>5. ASSUME NEW n \in Consumers, Ack(n) \/ Requeue(n) PROVE Messages'
    <2>1. /\ consumer[n] # Idle /\ consumer' = [consumer EXCEPT ![n] = Idle]
          /\ queue' \subseteq queue \cup {consumer[n].for} /\ UNCHANGED submit
      BY <1>1, <1>5, JobsTyped DEF Ack, Requeue
    <2>2. \A m \in Consumers : consumer'[m] # Idle => m # n /\ consumer'[m] = consumer[m]
      BY <1>1, <2>1, JobsTyped
    <2>3. QED
      BY <1>1, <1>2, <2>1, <2>2 DEF Messages
  <1>6. CASE WorkerCrash
    BY <1>1, <1>2, <1>6 DEF WorkerCrash
  <1>7. ASSUME NEW r \in Requests, Publish(r) PROVE Messages'
    <2>1. /\ submit[r] = "stored" /\ queue' = queue \cup {r} /\ UNCHANGED <<row, consumer>>
          /\ submit' = [submit EXCEPT ![r] = "accepted"]
      BY <1>7 DEF Publish, Submitting
    <2>2. QED
      BY <1>1, <2>1, StoresTypes, JobsTyped DEF Messages
  <1>8. ASSUME NEW r \in Requests, LoseMessage(r) PROVE Messages'
    BY <1>1, <1>2, <1>8 DEF LoseMessage, Messages
  <1>9. ASSUME UNCHANGED <<consumer, queue>>,
               \A r \in Requests : submit[r] = "accepted" <=> submit'[r] = "accepted"
        PROVE  Messages'
    BY <1>1, <1>2, <1>9 DEF Messages
  <1>10. QED
    BY <1>1, <1>3, <1>4, <1>5, <1>6, <1>7, <1>8, <1>9, MessagesMoved

LEMMA UndoingNext == Inv /\ [Next]_vars => Undoing'
  <1> SUFFICES ASSUME Inv, [Next]_vars PROVE Undoing'
    OBVIOUS
  <1>1. TypeInv /\ Messages /\ Undoing
    BY DEF Inv
  <1>2. ASSUME NEW n \in Consumers, consumer'[n].at = "cleanup"
        PROVE  row'[consumer'[n].for] # "success"
    <2>1. CASE consumer'[n] = consumer[n]
      <3>1. consumer[n].for \in Requests /\ consumer[n] # Idle
        BY <1>1, <1>2, <2>1, JobsTyped
      <3>2. row[consumer[n].for] # "success"
        BY <1>1, <1>2, <2>1 DEF Undoing
      <3>3. SUFFICES ASSUME row'[consumer[n].for] = "success" PROVE FALSE
        BY <2>1
      <3>4. PICK m \in Consumers : Decide(m) /\ consumer[m].for = consumer[n].for
        BY <1>1, <3>1, <3>2, <3>3, SuccessWritten
      <3>5. m # n
        BY <1>2, <2>1, <3>4 DEF Decide
      <3>6. consumer[m] # Idle
        BY <1>1, <3>4, JobsTyped DEF Decide
      <3>7. QED
        BY <1>1, <3>1, <3>4, <3>5, <3>6 DEF Messages
    <2>2. CASE consumer'[n] # consumer[n]
      <3>1. \/ Decide(n) \/ DecideAsVictim(n)
        <4>1. PICK m \in Consumers : \/ Deliver(m) \/ Decide(m) \/ DecideAsVictim(m)
                                     \/ ConsumerCleanUp(m) \/ ConsumerStore(m)
                                     \/ Ack(m) \/ Requeue(m)
          BY <1>1, <1>2, <2>2, MessagesMoved
          DEF WorkerCrash, Publish, LoseMessage, Idle
        <4>2. m = n
          BY <1>1, <2>2, <4>1, JobsTyped
          DEF Deliver, Decide, DecideAsVictim, ConsumerCleanUp, ConsumerStore, Ack,
              Requeue, Move, Closed
        <4>3. ~ (Deliver(n) \/ Ack(n) \/ Requeue(n))
          BY <1>1, <1>2, JobsTyped DEF Deliver, Ack, Requeue, At, Idle
        <4>4. ~ (ConsumerCleanUp(n) \/ ConsumerStore(n))
          BY <1>1, <1>2, JobsTyped, MoveTo DEF ConsumerCleanUp, ConsumerStore
        <4>5. QED
          BY <4>1, <4>2, <4>3, <4>4
      <3>2. consumer[n] # Idle /\ consumer[n].for \in Requests
        BY <1>1, <3>1, JobsTyped DEF Decide, DecideAsVictim
      <3>3. CASE Decide(n)
        <4>1. consumer' = Closed(consumer, n, row'[consumer[n].for])
              /\ row'[consumer[n].for] \in Final
          BY <1>1, <3>3, DecideWrites DEF Decide
        <4>2. row'[consumer[n].for] = "failed"
          BY <1>1, <1>2, <3>2, <4>1, JobsTyped, ClosedTo DEF Final
        <4>3. consumer'[n].for = consumer[n].for
          BY <1>1, <3>2, <4>1, JobsTyped, JobMoves
        <4>4. QED
          BY <4>2, <4>3
      <3>4. CASE DecideAsVictim(n)
        <4>1. consumer'[n].for = consumer[n].for
          BY <1>1, <3>2, <3>4, JobsTyped, JobMoves DEF DecideAsVictim, Final
        <4>2. QED
          BY <3>4, <4>1 DEF DecideAsVictim
      <3>5. QED
        BY <3>1, <3>3, <3>4
    <2>3. QED
      BY <2>1, <2>2
  <1>3. ASSUME NEW w \in Closers, closer'[w].at = "cleanup"
        PROVE  row'[closer'[w].for] = "failed"
    <2>1. CASE closer'[w] = closer[w]
      BY <1>1, <1>3, <2>1, RowsStay, JobsTyped DEF Undoing, Final
    <2>2. CASE closer'[w] # closer[w]
      <3>1. PICK v \in Closers : \/ StartClosing(v) \/ InsertFailed(v) \/ CloserCleanUp(v)
                                 \/ CloserStore(v) \/ CloserFails(v)
        BY <1>1, <1>3, <2>2, JobsTyped
        DEF Next, vars, Sweep, Poll, Closers, LoadCourse, LoadStudent, SubmitReserve,
            SubmitRefused, StorePending, StorePendingFails, Publish, PublishFails,
            DeleteState, SubmitUndo, LoseMessage, PassDeadline, Expire, ExpirePending, ServerCrash,
            Deliver, Decide, DecideAsVictim, ConsumerCleanUp, ConsumerStore, Ack,
            Requeue, WorkerCrash, ForgetDue, DropCourse, RefreshCourse,
            RefreshStudent, RefreshFails, Idle
      <3>2. v = w
        BY <1>1, <2>2, <3>1, JobsTyped
        DEF StartClosing, InsertFailed, CloserCleanUp, CloserStore, CloserFails,
            Move, Closed
      <3>3. InsertFailed(w)
        <4>1. ~ (StartClosing(w) \/ CloserStore(w) \/ CloserFails(w))
          BY <1>1, <1>3, JobsTyped DEF StartClosing, CloserStore, CloserFails, At, Idle
        <4>2. ~ CloserCleanUp(w)
          BY <1>1, <1>3, JobsTyped, MoveTo DEF CloserCleanUp
        <4>3. QED
          BY <3>1, <3>2, <4>1, <4>2
      <3>4. /\ closer[w] # Idle /\ closer[w].for \in Requests
            /\ closer' = Closed(closer, w, row'[closer[w].for])
            /\ row'[closer[w].for] \in Final
        BY <1>1, <3>3, InsertWrites DEF InsertFailed
      <3>5. /\ closer'[w].for = closer[w].for
            /\ row'[closer[w].for] = "failed"
        BY <1>1, <1>3, <3>4, JobsTyped, JobMoves, ClosedTo
      <3>6. QED
        BY <3>5
    <2>3. QED
      BY <2>1, <2>2
  <1>4. QED
    BY <1>2, <1>3 DEF Undoing

LEMMA InvAlways == Spec => []Inv
  <1>1. Inv /\ [Next]_vars => Inv'
    BY TypeNext, MessagesNext, UndoingNext DEF Inv
  <1>2. QED
    BY <1>1, InvInit, PTL DEF Spec

(* A student whose submission was answered with an error is not enrolled   *)
(* by it: nothing that fails after the reservation leaves a message that   *)
(* could still be decided for her.                                         *)
THEOREM RefusalsCorrect == Spec => []RefusedNotEnrolled
  <1>1. Inv => RefusedNotEnrolled
    BY DEF Inv, Messages, RefusedNotEnrolled
  <1>2. QED
    BY <1>1, InvAlways, PTL

(* The worker, the sweeper and a poll give back the place of a request     *)
(* only when it is not a success, though each goes by a status it read or  *)
(* wrote before, and a deadlock victim's by a status nobody has stored.    *)
THEOREM SuccessesKeepPlaces == Spec => []SuccessKeepsPlace
  <1>1. Inv => SuccessKeepsPlace
    BY DEF Inv, Undoing, SuccessKeepsPlace
  <1>2. QED
    BY <1>1, InvAlways, PTL
-----------------------------------------------------------------------------
(***************************************************************************)
(* Answers, when no deadlock victim is taken for a refusal.  (With one,    *)
(* MCAsyncDeadlock shows a message that is acknowledged undecided.)        *)
(***************************************************************************)
Verdicts ==
  /\ \A n \in Consumers : consumer[n].at \in {"cleanup", "store", "ack"} =>
       consumer[n].status \in Final /\ row[consumer[n].for] = consumer[n].status
  /\ \A w \in Closers : closer[w].at \in {"cleanup", "store"} =>
       closer[w].status \in Final /\ row[closer[w].for] = closer[w].status
  /\ \A r \in Requests : state[r] \in Final => row[r] = state[r]

(* A request is not in Redis nor in MySQL before it is stored, and in one  *)
(* of them from then on, unless the submission fails or its pending state  *)
(* lives out its day.                                                      *)
Known ==
  /\ \A r \in Requests : submit[r] \in {"new", "reserved"} =>
       /\ state[r] = "none" /\ row[r] = "none"
       /\ \A w \in Closers : closer[w].for # r
  /\ \A r \in Requests :
       submit[r] \in {"stored", "accepted"} =>
         state[r] # "none" \/ row[r] # "none" \/ r \in outlived

CertainInv == Inv /\ Verdicts /\ Known

(* A consumer whose job is still the same, or one that has moved on.       *)
LEMMA ConsumerSteps ==
  ASSUME TypeInv, [Next]_vars, NEW n \in Consumers
  PROVE  \/ consumer'[n] = consumer[n]
         \/ consumer'[n] = Idle
         \/ Deliver(n) \/ Decide(n) \/ DecideAsVictim(n)
         \/ ConsumerCleanUp(n) \/ ConsumerStore(n)
  <1>1. CASE \E m \in Consumers : Deliver(m) \/ Decide(m) \/ DecideAsVictim(m)
                                  \/ ConsumerCleanUp(m) \/ ConsumerStore(m)
                                  \/ Ack(m) \/ Requeue(m)
    BY <1>1, JobsTyped
    DEF Deliver, Decide, DecideAsVictim, ConsumerCleanUp, ConsumerStore, Ack,
        Requeue, Move, Closed
  <1>2. CASE WorkerCrash
    BY <1>2 DEF WorkerCrash
  <1>3. CASE \E r \in Requests : Publish(r) \/ LoseMessage(r)
    BY <1>3 DEF Publish, LoseMessage
  <1>4. QED
    BY <1>1, <1>2, <1>3, MessagesMoved

LEMMA CloserSteps ==
  ASSUME TypeInv, [Next]_vars, NEW w \in Closers
  PROVE  \/ closer'[w] = closer[w]
         \/ closer'[w] = Idle
         \/ StartClosing(w) \/ InsertFailed(w) \/ CloserCleanUp(w)
  <1>1. CASE \E v \in Closers : StartClosing(v) \/ InsertFailed(v) \/ CloserCleanUp(v)
                                \/ CloserStore(v) \/ CloserFails(v)
    BY <1>1, JobsTyped
    DEF StartClosing, InsertFailed, CloserCleanUp, CloserStore, CloserFails,
        Move, Closed
  <1>2. CASE ServerCrash \/ WorkerCrash
    BY <1>2, JobsTyped DEF ServerCrash, WorkerCrash
  <1>3. CASE UNCHANGED closer
    BY <1>3
  <1>4. UNCHANGED closer \/ ServerCrash \/ WorkerCrash
        \/ \E v \in Closers : StartClosing(v) \/ InsertFailed(v) \/ CloserCleanUp(v)
                                \/ CloserStore(v) \/ CloserFails(v)
    BY DEF Next, vars, Sweep, Poll, Closers, LoadCourse, LoadStudent, SubmitReserve,
            SubmitRefused, StorePending, StorePendingFails, Publish, PublishFails,
            DeleteState, SubmitUndo, LoseMessage, PassDeadline, Expire, ExpirePending,
            Deliver, Decide, DecideAsVictim, ConsumerCleanUp, ConsumerStore, Ack,
            Requeue, ForgetDue, DropCourse, RefreshCourse, RefreshStudent, RefreshFails
  <1>5. QED
    BY <1>1, <1>2, <1>3, <1>4

(* Who writes a request's state in Redis.                                  *)
LEMMA StateSteps ==
  ASSUME TypeInv, [Next]_vars, NEW r \in Requests
  PROVE  \/ state'[r] = state[r]
         \/ state'[r] = "none" /\ (state[r] \in Final \/ submit[r] = "unpublish")
         \/ state'[r] = "none" /\ r \in outlived'
         \/ /\ state'[r] = "pending" /\ submit[r] = "reserved"
            /\ submit'[r] \in {"stored", "undo"}
         \/ \E n \in Consumers : /\ consumer[n].at = "store" /\ consumer[n].for = r
                                 /\ state'[r] = consumer[n].status
         \/ \E w \in Closers : /\ closer[w].at = "store" /\ closer[w].for = r
                               /\ state'[r] = closer[w].status
  <1>1. CASE \E q \in Requests : StorePending(q) \/ StorePendingFails(q)
                                   \/ DeleteState(q) \/ Expire(q) \/ ExpirePending(q)
    BY <1>1, StoresTypes
    DEF StorePending, StorePendingFails, DeleteState, Expire, ExpirePending, Submitting
  <1>2. CASE \E n \in Consumers : ConsumerStore(n)
    BY <1>2, StoresTypes DEF ConsumerStore, StoreFinal, StoreFinalFails
  <1>3. CASE \E w \in Closers : CloserStore(w) \/ CloserFails(w)
    BY <1>3, StoresTypes DEF CloserStore, CloserFails, StoreFinal, StoreFinalFails
  <1>4. CASE UNCHANGED state
    BY <1>4
  <1>5. \/ \E q \in Requests : StorePending(q) \/ StorePendingFails(q)
                                 \/ DeleteState(q) \/ Expire(q) \/ ExpirePending(q)
        \/ \E n \in Consumers : ConsumerStore(n)
        \/ \E w \in Closers : CloserStore(w) \/ CloserFails(w)
        \/ UNCHANGED state
    BY DEF Next, vars, Sweep, Poll, Closers, LoadCourse, LoadStudent, SubmitReserve,
           SubmitRefused, Publish, PublishFails, SubmitUndo, LoseMessage, PassDeadline,
           ServerCrash, Deliver, Decide, DecideAsVictim, ConsumerCleanUp, Ack, Requeue,
           WorkerCrash, StartClosing, ForgetDue, InsertFailed, CloserCleanUp,
           DropCourse, RefreshCourse, RefreshStudent, RefreshFails
  <1>6. QED
    BY <1>1, <1>2, <1>3, <1>4, <1>5

(* An outage of a day is not forgotten.                                    *)
LEMMA OutlivedStays ==
  ASSUME [Next]_vars
  PROVE  outlived \subseteq outlived'
  <1>1. CASE \E q \in Requests : ExpirePending(q)
    BY <1>1 DEF ExpirePending
  <1>2. ~ (\E q \in Requests : ExpirePending(q)) => UNCHANGED outlived
    BY DEF Next, vars, Sweep, Poll, Closers, LoadCourse, LoadStudent, SubmitReserve,
           SubmitRefused, StorePending, StorePendingFails, Publish, PublishFails,
           DeleteState, SubmitUndo, LoseMessage, PassDeadline, Expire, ServerCrash,
           Deliver, Decide, DecideAsVictim, ConsumerCleanUp, ConsumerStore, Ack,
           Requeue, WorkerCrash, StartClosing, ForgetDue, InsertFailed, CloserCleanUp,
           CloserStore, CloserFails, DropCourse, RefreshCourse, RefreshStudent,
           RefreshFails
  <1>3. QED
    BY <1>1, <1>2

(* How a submission goes on.                                               *)
LEMMA SubmitSteps ==
  ASSUME TypeInv, [Next]_vars, NEW r \in Requests
  PROVE  \/ submit'[r] = submit[r]
         \/ /\ submit[r] = "new" /\ submit'[r] = "reserved"
            /\ UNCHANGED <<state, row, closer>>
         \/ submit[r] = "reserved" /\ submit'[r] = "stored" /\ state'[r] = "pending"
         \/ submit[r] = "stored" /\ submit'[r] = "accepted"
         \/ submit'[r] \in {"refused", "undo", "unpublish", "crashed"}
  <1>1. CASE \E q \in Requests :
               \/ SubmitReserve(q) \/ SubmitRefused(q) \/ StorePending(q)
               \/ StorePendingFails(q) \/ Publish(q) \/ PublishFails(q)
               \/ DeleteState(q) \/ SubmitUndo(q)
    BY <1>1, StoresTypes
    DEF SubmitReserve, SubmitRefused, StorePending, StorePendingFails, Publish,
        PublishFails, DeleteState, SubmitUndo, Submitting
  <1>2. CASE ServerCrash
    BY <1>2, StoresTypes DEF ServerCrash
  <1>3. CASE UNCHANGED submit
    BY <1>3
  <1>4. \/ \E q \in Requests :
             \/ SubmitReserve(q) \/ SubmitRefused(q) \/ StorePending(q)
             \/ StorePendingFails(q) \/ Publish(q) \/ PublishFails(q)
             \/ DeleteState(q) \/ SubmitUndo(q)
        \/ ServerCrash \/ UNCHANGED submit
    BY DEF Next, vars, Sweep, Poll, LoadCourse, LoadStudent, LoseMessage, PassDeadline,
           Expire, ExpirePending, Deliver, Decide, DecideAsVictim, ConsumerCleanUp, ConsumerStore, Ack,
           Requeue, WorkerCrash, StartClosing, ForgetDue, InsertFailed, CloserCleanUp,
           CloserStore, CloserFails, DropCourse, RefreshCourse, RefreshStudent,
           RefreshFails
  <1>5. QED
    BY <1>1, <1>2, <1>3, <1>4

(* A status that a goroutine carries is the one in MySQL, and stays so.    *)
LEMMA VerdictsNext ==
  ASSUME ~Deadlocks, CertainInv, [Next]_vars
  PROVE  Verdicts'
  <1>1. TypeInv /\ Verdicts /\ Known
    BY DEF CertainInv, Inv
  <1>2. ASSUME NEW n \in Consumers, consumer'[n].at \in {"cleanup", "store", "ack"}
        PROVE  /\ consumer'[n].status \in Final
               /\ row'[consumer'[n].for] = consumer'[n].status
    <2>1. CASE consumer'[n] = consumer[n]
      BY <1>1, <1>2, <2>1, RowsStay, JobsTyped DEF Verdicts
    <2>2. CASE Decide(n)
      <3>1. /\ consumer' = Closed(consumer, n, row'[consumer[n].for])
            /\ row'[consumer[n].for] \in Final /\ consumer[n] # Idle
        BY <1>1, <2>2, DecideWrites DEF Decide
      <3>2. /\ consumer'[n].for = consumer[n].for
            /\ consumer'[n].status = row'[consumer[n].for]
        BY <1>1, <3>1, JobsTyped, JobMoves, ClosedTo
      <3>3. QED
        BY <3>1, <3>2
    <2>3. CASE ConsumerCleanUp(n) \/ ConsumerStore(n)
      <3>1. PICK step \in Steps : consumer' = Move(consumer, n, step)
        BY <2>3 DEF ConsumerCleanUp, ConsumerStore, Steps
      <3>2. /\ consumer[n] # Idle /\ consumer[n].for \in Requests
            /\ consumer[n].status \in Final /\ row[consumer[n].for] = consumer[n].status
        BY <1>1, <2>3, JobsTyped DEF ConsumerCleanUp, ConsumerStore, Verdicts
      <3>3. consumer'[n].for = consumer[n].for /\ consumer'[n].status = consumer[n].status
        BY <1>1, <3>1, <3>2, JobsTyped, JobMoves, MoveTo
      <3>4. QED
        BY <1>1, <3>2, <3>3, RowsStay
    <2>4. ~ (consumer'[n] = Idle \/ Deliver(n) \/ DecideAsVictim(n))
      BY <1>1, <1>2, JobsTyped DEF Deliver, DecideAsVictim, At, Idle
    <2>5. QED
      BY <1>1, <2>1, <2>2, <2>3, <2>4, ConsumerSteps
  <1>3. ASSUME NEW w \in Closers, closer'[w].at \in {"cleanup", "store"}
        PROVE  /\ closer'[w].status \in Final
               /\ row'[closer'[w].for] = closer'[w].status
    <2>1. CASE closer'[w] = closer[w]
      BY <1>1, <1>3, <2>1, RowsStay, JobsTyped DEF Verdicts
    <2>2. CASE InsertFailed(w)
      <3>1. /\ closer' = Closed(closer, w, row'[closer[w].for])
            /\ row'[closer[w].for] \in Final /\ closer[w] # Idle
        BY <1>1, <2>2, InsertWrites DEF InsertFailed
      <3>2. /\ closer'[w].for = closer[w].for
            /\ closer'[w].status = row'[closer[w].for]
        BY <1>1, <3>1, JobsTyped, JobMoves, ClosedTo
      <3>3. QED
        BY <3>1, <3>2
    <2>3. CASE CloserCleanUp(w)
      <3>1. PICK step \in Steps : closer' = Move(closer, w, step)
        BY <2>3 DEF CloserCleanUp, Steps
      <3>2. /\ closer[w] # Idle /\ closer[w].for \in Requests
            /\ closer[w].status \in Final /\ row[closer[w].for] = closer[w].status
        BY <1>1, <2>3, JobsTyped DEF CloserCleanUp, Verdicts
      <3>3. closer'[w].for = closer[w].for /\ closer'[w].status = closer[w].status
        BY <1>1, <3>1, <3>2, JobsTyped, JobMoves, MoveTo
      <3>4. QED
        BY <1>1, <3>2, <3>3, RowsStay
    <2>4. ~ (closer'[w] = Idle \/ StartClosing(w))
      BY <1>1, <1>3, JobsTyped DEF StartClosing, At, Idle
    <2>5. QED
      BY <1>1, <2>1, <2>2, <2>3, <2>4, CloserSteps
  <1>4. ASSUME NEW r \in Requests, state'[r] \in Final PROVE row'[r] = state'[r]
    <2>1. row[r] = state'[r]
      BY <1>1, <1>4, StateSteps DEF Verdicts, Final
    <2>2. QED
      BY <1>1, <1>4, <2>1, RowsStay
  <1>5. QED
    BY <1>2, <1>3, <1>4 DEF Verdicts

(* Only a request that is known somewhere is ever decided or closed.       *)
LEMMA KnownNext ==
  ASSUME CertainInv, [Next]_vars
  PROVE  Known'
  <1>1. TypeInv /\ Messages /\ Verdicts /\ Known
    BY DEF CertainInv, Inv
  <1>2. ASSUME NEW r \in Requests, submit'[r] \in {"new", "reserved"}
        PROVE  /\ state'[r] = "none" /\ row'[r] = "none"
               /\ \A w \in Closers : closer'[w].for # r
    <2>1. submit[r] \in {"new", "reserved"}
      BY <1>1, <1>2, SubmitSteps
    <2>2. /\ state[r] = "none" /\ row[r] = "none"
          /\ \A w \in Closers : closer[w].for # r
      BY <1>1, <2>1 DEF Known
    <2>3. \A n \in Consumers : consumer[n] # Idle => consumer[n].for # r
      BY <1>1, <2>1 DEF Messages
    <2>4. row'[r] = "none"
      BY <1>1, <2>2, <2>3, TablesWritten, DecideWrites, InsertWrites DEF Final
    <2>5. state'[r] = "none"
      <3>1. ~ \E n \in Consumers : consumer[n].at = "store" /\ consumer[n].for = r
        BY <1>1, <2>3, JobsTyped
      <3>2. QED
        BY <1>1, <1>2, <2>2, <3>1, StateSteps DEF Final
    <2>6. ASSUME NEW w \in Closers PROVE closer'[w].for # r
      <3>1. CASE closer'[w] = closer[w]
        BY <2>2, <3>1
      <3>2. CASE closer'[w] = Idle
        BY <3>2, NoneAssumption DEF Idle
      <3>3. CASE StartClosing(w)
        BY <1>1, <2>2, <3>3, JobsTyped DEF StartClosing, At
      <3>4. CASE InsertFailed(w)
        <4>1. /\ closer[w] # Idle
              /\ \E status \in Final : closer' = Closed(closer, w, status)
          BY <1>1, <3>4, JobsTyped, InsertWrites DEF InsertFailed
        <4>2. QED
          BY <1>1, <2>2, <4>1, JobsTyped, JobMoves
      <3>5. CASE CloserCleanUp(w)
        <4>1. /\ closer[w] # Idle
              /\ \E step \in Steps : closer' = Move(closer, w, step)
          BY <1>1, <3>5, JobsTyped DEF CloserCleanUp, Steps
        <4>2. QED
          BY <1>1, <2>2, <4>1, JobsTyped, JobMoves
      <3>6. QED
        BY <1>1, <3>1, <3>2, <3>3, <3>4, <3>5, CloserSteps
    <2>7. QED
      BY <2>4, <2>5, <2>6
  <1>3. ASSUME NEW r \in Requests, submit'[r] \in {"stored", "accepted"}
        PROVE  state'[r] # "none" \/ row'[r] # "none" \/ r \in outlived'
    <2>1. CASE submit[r] = "reserved" /\ state'[r] = "pending"
      BY <2>1
    <2>2. CASE submit[r] \in {"stored", "accepted"}
      <3>1. row[r] # "none" => row'[r] # "none"
        BY <1>1, RowsStay, StoresTypes DEF Final
      <3>2. CASE state[r] # "none"
        BY <1>1, <2>2, <3>1, <3>2, StateSteps DEF Verdicts, Final
      <3>3. CASE row[r] # "none"
        BY <3>1, <3>3
      <3>4. CASE r \in outlived
        BY <3>4, OutlivedStays
      <3>5. QED
        BY <1>1, <2>2, <3>2, <3>3, <3>4 DEF Known
    <2>3. QED
      BY <1>1, <1>3, <2>1, <2>2, SubmitSteps
  <1>4. QED
    BY <1>2, <1>3 DEF Known

LEMMA CertainAlways == ~Deadlocks => (Spec => []CertainInv)
  <1> SUFFICES ASSUME ~Deadlocks PROVE Spec => []CertainInv
    OBVIOUS
  <1>1. Init => CertainInv
    <2> SUFFICES ASSUME Init PROVE Verdicts /\ Known
      BY InvInit DEF CertainInv
    <2>1. Verdicts
      BY DEF Init, Verdicts, Idle, Final
    <2>2. Known
      BY NoneAssumption DEF Init, Known, Idle
    <2>3. QED
      BY <2>1, <2>2
  <1>2. CertainInv /\ [Next]_vars => CertainInv'
    BY TypeNext, MessagesNext, UndoingNext, VerdictsNext, KnownNext
    DEF CertainInv, Inv
  <1>3. QED
    BY <1>1, <1>2, PTL DEF Spec

(* The request number of an accepted request is known whenever it is       *)
(* polled: Redis forgets a request only after MySQL has its final row, or  *)
(* when nobody has closed it for the day that a pending state lives.       *)
THEOREM AcceptedKnown == ~Deadlocks => (Spec => []AcceptedIsKnown)
  <1>1. CertainInv => AcceptedIsKnown
    BY DEF CertainInv, Known, AcceptedIsKnown, Answer
  <1>2. QED
    BY <1>1, CertainAlways, PTL

(* Once a client has been told a final answer it is never told another,    *)
(* by Redis, by MySQL after Redis forgot, or by a goroutine that stores    *)
(* the verdict late.                                                       *)
THEOREM AnswersStable == ~Deadlocks => (Spec => AnswerStable)
  <1>1. CertainInv /\ [Next]_vars =>
          [\A r \in Requests : Answer(r) \in Final => Answer(r)' = Answer(r)]_vars
    <2> SUFFICES ASSUME CertainInv, [Next]_vars, NEW r \in Requests, Answer(r) \in Final
                 PROVE  Answer(r)' = Answer(r)
      OBVIOUS
    <2>1. TypeInv /\ Verdicts /\ Known
      BY DEF CertainInv, Inv
    <2>2. row[r] = Answer(r) /\ row'[r] = Answer(r)
      BY <2>1, RowsStay DEF Answer, Verdicts
    <2>3. submit[r] # "reserved"
      BY <2>1, <2>2 DEF Known, Final
    <2>4. state'[r] \in {"none", Answer(r)}
      BY <2>1, <2>2, <2>3, StateSteps DEF Answer, Verdicts
    <2>5. QED
      BY <2>2, <2>4 DEF Answer
  <1>2. QED
    BY <1>1, CertainAlways, PTL DEF Spec, AnswerStable

(* A consumer lets go of a message only when the request is decided, or    *)
(* by putting the message back, through errors and worker crashes.         *)
THEOREM AcksDecided == ~Deadlocks => (Spec => NeverAckedUndecided)
  <1>1. CertainInv /\ [Next]_vars =>
          [\A n \in Consumers :
             consumer[n] # Idle /\ consumer'[n] = Idle =>
               \/ row'[consumer[n].for] \in Final
               \/ consumer[n].for \in queue']_vars
    <2> SUFFICES ASSUME CertainInv, [Next]_vars, NEW n \in Consumers,
                        consumer[n] # Idle, consumer'[n] = Idle
                 PROVE  \/ row'[consumer[n].for] \in Final
                        \/ consumer[n].for \in queue'
      OBVIOUS
    <2>1. TypeInv /\ Verdicts
      BY DEF CertainInv, Inv
    <2>2. CASE Ack(n)
      <3>1. row[consumer[n].for] \in Final
        BY <2>1, <2>2 DEF Ack, Verdicts
      <3>2. QED
        BY <2>2, <3>1 DEF Ack
    <2>3. CASE Requeue(n)
      BY <2>3 DEF Requeue
    <2>4. CASE WorkerCrash
      BY <2>4 DEF WorkerCrash
    <2>5. Ack(n) \/ Requeue(n) \/ WorkerCrash
      <3>1. ~ (Deliver(n) \/ Decide(n) \/ DecideAsVictim(n) \/ ConsumerCleanUp(n)
                 \/ ConsumerStore(n))
        BY <2>1, JobsTyped, JobMoves, DecideWrites
        DEF Deliver, Decide, DecideAsVictim, ConsumerCleanUp, ConsumerStore, Steps, Final
      <3>2. PICK m \in Consumers :
              \/ Deliver(m) \/ Decide(m) \/ DecideAsVictim(m) \/ ConsumerCleanUp(m)
              \/ ConsumerStore(m) \/ Ack(m) \/ Requeue(m) \/ WorkerCrash
        BY <2>1, MessagesMoved DEF Publish, LoseMessage
      <3>3. WorkerCrash \/ m = n
        BY <2>1, <3>2, JobsTyped
        DEF Deliver, Decide, DecideAsVictim, ConsumerCleanUp, ConsumerStore, Ack,
            Requeue, Move, Closed
      <3>4. QED
        BY <3>1, <3>2, <3>3
    <2>6. QED
      BY <2>2, <2>3, <2>4, <2>5
  <1>2. QED
    BY <1>1, CertainAlways, PTL DEF Spec, NeverAckedUndecided
=============================================================================
