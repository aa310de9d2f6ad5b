----------------------- MODULE SelectionCacheProofs -----------------------
(***************************************************************************)
(* What SelectionCache keeps for any students, courses, callers, limits    *)
(* and number of disturbances.                                             *)
(***************************************************************************)
EXTENDS SelectionCache, FiniteSetTheorems, TLAPS

USE DEF mysql, redis, counters

Statement == Active \cup {"idle", "pending", "cleanup", "again", "done"}
Queued == {"pending", "cleanup", "again"}
JobRecord == [at : Statement, key : Keys \cup {None}, entry : Entries \cup {None},
              copy : CourseEntry \cup StudentEntry \cup {None}]

EntryOf(e) == IF e \in Courses THEN CourseEntry ELSE StudentEntry

(* What goroutine g may be at, K being the courses that have a row.        *)
JobOK(K, g, j) ==
  /\ j \in JobRecord
  /\ g \in Callers =>
       /\ j.at \in Active => j.key \in Keys /\ j.entry \in {j.key[1], j.key[2]}
       /\ j.at \in Queued => j.key \in Keys
  /\ g = "drop" =>
       /\ j.at \in {"idle", "read", "join", "write", "forget"}
       /\ j.at # "idle" => j.key \in Keys /\ j.entry \in {j.key[1], j.key[2]}
  /\ g = "create" =>
       /\ j.at \in {"idle", "read", "write"}
       /\ j.at # "idle" => j.entry \in K
  /\ j.at = "join" => j.entry \in Students
  /\ j.at \in {"join", "write"} => j.copy \in EntryOf(j.entry)
  /\ j.at \in {"forget", "mark"} => j.entry \in Courses

Jobs ==
  /\ DOMAIN job = Goroutines
  /\ job = [g \in Goroutines |-> job[g]]
  /\ \A g \in Goroutines : JobOK(known, g, job[g])

Tables ==
  /\ courses \in [Courses -> CourseRow]
  /\ students \in [Students -> [used : Nat, limit : Int, version : Nat]]
  /\ enrolled \subseteq Keys /\ known \subseteq Courses

CachesTyped ==
  /\ cache = [e \in Entries |-> cache[e]]
  /\ \A e \in Entries : cache[e] = None \/ cache[e] \in EntryOf(e)
  /\ marker \in [Courses -> {"none", "right", "late"}]

LocksTyped == lock \in [Entries -> Callers \cup {None}] /\ late \subseteq Callers

EditTyped ==
  /\ editor \in [step : 0..2, entry : Entries \cup {None}, edit : CourseEdits \cup {None}]
  /\ editor.step # 0 =>
       /\ editor.entry \in known \cup Students
       /\ editor.entry \in Courses => editor.edit \in CourseEdits
  /\ shifted \subseteq Nat

(* A failure within an edit, a drop or a warm-up is paid for by what       *)
(* started it.                                                             *)
Due(busy) == IF busy THEN 1 ELSE 0
Budget ==
  /\ faults \in Nat /\ disturbances \in 0..MaxDisturbances
  /\ faults + Due(editor.step # 0) + Due(job["drop"].at # "idle")
            + Due(job["create"].at # "idle") <= disturbances

Typing ==
  /\ Jobs /\ Tables /\ CachesTyped /\ LocksTyped /\ EditTyped /\ Budget
-----------------------------------------------------------------------------
(***************************************************************************)
(* Keys, entries and jobs.                                                 *)
(***************************************************************************)
LEMMA KeyParts ==
  ASSUME NEW k \in Keys
  PROVE  /\ k[1] \in Students /\ k[2] \in Courses /\ k = <<k[1], k[2]>>
         /\ k[1] \notin Courses /\ k[2] \notin Students /\ k[1] # k[2]
         /\ k[1] \in Entries /\ k[2] \in Entries
  BY NamesAssumption DEF Keys, Entries

LEMMA CallerNames ==
  /\ \A p \in Callers : p # "drop" /\ p # "create" /\ p # None /\ p \in Goroutines
  /\ "drop" \in Goroutines /\ "create" \in Goroutines
  BY NamesAssumption, NoneAssumption DEF Goroutines

LEMMA JobParts ==
  ASSUME NEW K, NEW p \in Callers, NEW j, JobOK(K, p, j), j.at \in Active
  PROVE  /\ j.key \in Keys /\ j.entry \in Entries
         /\ j.key[1] \in Students /\ j.key[2] \in Courses
         /\ j.entry \in Courses => j.entry = j.key[2]
         /\ j.entry \notin Courses => j.entry = j.key[1] /\ j.entry \in Students
  BY KeyParts DEF JobOK

LEMMA JobGrows ==
  ASSUME NEW K, NEW L, K \subseteq L, NEW g, NEW j, JobOK(K, g, j)
  PROVE  JobOK(L, g, j)
  BY DEF JobOK

(* Steps that only move on.                                                *)
LEMMA GotoOK ==
  ASSUME NEW K, NEW p \in Callers, NEW j, JobOK(K, p, j), NEW x \in Statement,
         x \notin {"join", "write"},
         x \in Active => j.at \in Active,
         x \in Queued => j.at \in Active \cup Queued,
         x \in {"forget", "mark"} => j.entry \in Courses
  PROVE  JobOK(K, p, [j EXCEPT !.at = x])
  <1> DEFINE i == [j EXCEPT !.at = x]
  <1>1. j \in JobRecord
    BY DEF JobOK
  <1>2. /\ i \in JobRecord
        /\ i.at = x /\ i.key = j.key /\ i.entry = j.entry
    BY <1>1 DEF JobRecord
  <1>3. p # "drop" /\ p # "create"
    BY CallerNames
  <1> HIDE DEF i
  <1>4. JobOK(K, p, i)
    BY <1>2, <1>3 DEF JobOK
  <1>5. QED
    BY <1>4 DEF i

LEMMA IdleOK ==
  ASSUME NEW K, NEW g \in Goroutines
  PROVE  JobOK(K, g, Idle)
  <1>1. /\ Idle \in JobRecord /\ Idle.at = "idle"
    BY DEF Idle, JobRecord, Statement
  <1>2. "idle" \notin Active \cup Queued
    BY DEF Active, InRebuild, Leaving, Queued
  <1>3. QED
    BY <1>1, <1>2 DEF JobOK

LEMMA ReadyOK ==
  ASSUME NEW K, NEW p \in Callers, NEW j, JobOK(K, p, j), j.at \in Active
  PROVE  /\ JobOK(K, p, [j EXCEPT !.at = "look", !.entry = j.key[1], !.copy = None])
         /\ JobOK(K, p, [j EXCEPT !.at = "reserve", !.copy = None])
  <1> DEFINE a == [j EXCEPT !.at = "look", !.entry = j.key[1], !.copy = None]
             b == [j EXCEPT !.at = "reserve", !.copy = None]
  <1>1. j \in JobRecord /\ j.key \in Keys /\ j.key[1] \in Entries
        /\ j.entry \in {j.key[1], j.key[2]}
    BY KeyParts DEF JobOK
  <1>2. {"look", "reserve"} \subseteq Statement
    BY DEF Statement, Active
  <1>3. /\ a \in JobRecord /\ a.at = "look" /\ a.key = j.key /\ a.entry = j.key[1]
        /\ b \in JobRecord /\ b.at = "reserve" /\ b.key = j.key /\ b.entry = j.entry
    BY <1>1, <1>2 DEF JobRecord
  <1>4. p # "drop" /\ p # "create"
    BY CallerNames
  <1> HIDE DEF a, b
  <1>5. JobOK(K, p, a) /\ JobOK(K, p, b)
    BY <1>1, <1>3, <1>4 DEF JobOK
  <1>6. QED
    BY <1>5 DEF a, b

LEMMA BitsTyped ==
  ASSUME Tables, NEW C, C \subseteq Courses
  PROVE  Bits(C) \subseteq Nat
  BY DEF Bits, Tables, CourseRow

LEMMA TimetableTyped == ASSUME NEW s PROVE Timetable(s) \subseteq Courses
  BY DEF Timetable

LEMMA RowTyped ==
  ASSUME Tables, NEW e \in Entries
  PROVE  /\ VersionOf(e) \in Nat
         /\ Row(e) \in EntryOf(e)
         /\ Row(e).version = VersionOf(e) /\ Row(e).asof = VersionOf(e)
  <1>1. CASE e \in Courses
    <2>1. courses[e] \in CourseRow
      BY <1>1 DEF Tables
    <2> DEFINE free == courses[e].capacity - courses[e].selected
    <2>2. (IF free < 0 THEN 0 ELSE free) \in Nat
      BY <2>1 DEF CourseRow
    <2>3. QED
      BY <1>1, <2>1, <2>2 DEF VersionOf, Row, EntryOf, CourseEntry, CourseRow
  <1>2. CASE e \notin Courses
    <2>1. e \in Students
      BY <1>2 DEF Entries
    <2>2. students[e] \in [used : Nat, limit : Int, version : Nat]
      BY <2>1 DEF Tables
    <2>3. QED
      BY <1>2, <2>2 DEF VersionOf, Row, EntryOf, StudentEntry
  <1>3. QED
    BY <1>1, <1>2

LEMMA JoinedTyped ==
  ASSUME Tables, NEW s, NEW row \in StudentEntry
  PROVE  /\ Joined(s, row) \in StudentEntry
         /\ Joined(s, row).selected = Timetable(s)
         /\ Joined(s, row).slots = Bits(Timetable(s))
         /\ Joined(s, row).version = row.version /\ Joined(s, row).asof = row.asof
  <1>1. Timetable(s) \subseteq Courses /\ Bits(Timetable(s)) \subseteq Nat
    BY TimetableTyped, BitsTyped
  <1>2. QED
    BY <1>1 DEF Joined, StudentEntry

LEMMA PreloadedTyped ==
  ASSUME Tables
  PROVE  /\ Preloaded = [e \in Entries |-> Preloaded[e]]
         /\ \A e \in Entries : Preloaded[e] = None \/ Preloaded[e] \in EntryOf(e)
  <1>1. ASSUME NEW e \in Entries PROVE Preloaded[e] = None \/ Preloaded[e] \in EntryOf(e)
    <2>1. CASE e \in Courses
      BY <2>1, RowTyped DEF Preloaded, Loaded
    <2>2. CASE e \notin Courses
      <3>1. Row(e) \in StudentEntry /\ Preloaded[e] = Joined(e, Row(e))
        BY <2>2, RowTyped DEF Preloaded, Loaded, EntryOf
      <3>2. QED
        BY <2>2, <3>1, JoinedTyped DEF EntryOf
    <2>3. QED
      BY <2>1, <2>2
  <1>2. QED
    BY <1>1 DEF Preloaded
-----------------------------------------------------------------------------
(***************************************************************************)
(* One step of one goroutine.                                              *)
(***************************************************************************)
LEMMA OneJob ==
  ASSUME Jobs, NEW g \in Goroutines, NEW j, job' = [job EXCEPT ![g] = j],
         JobOK(known', g, j), known \subseteq known'
  PROVE  Jobs'
  BY JobGrows DEF Jobs

LEMMA GotoJob ==
  ASSUME Jobs, NEW p \in Callers, NEW x \in Statement, Goto(p, x), UNCHANGED known,
         x \notin {"join", "write"},
         x \in Active => job[p].at \in Active,
         x \in Queued => job[p].at \in Active \cup Queued,
         x \in {"forget", "mark"} => job[p].entry \in Courses
  PROVE  Jobs'
  <1>1. JobOK(known, p, [job[p] EXCEPT !.at = x])
    BY CallerNames, GotoOK DEF Jobs
  <1>2. job' = [job EXCEPT ![p] = [job[p] EXCEPT !.at = x]]
    BY DEF Goto
  <1>3. QED
    BY <1>1, <1>2, CallerNames, OneJob

LEMMA ReadyJob ==
  ASSUME Jobs, NEW p \in Callers, job[p].at \in Active, Ready(p), UNCHANGED known
  PROVE  Jobs'
  <1> DEFINE j == IF job[p].entry \in Courses
                  THEN [job[p] EXCEPT !.at = "look", !.entry = job[p].key[1], !.copy = None]
                  ELSE [job[p] EXCEPT !.at = "reserve", !.copy = None]
  <1>1. JobOK(known, p, j)
    BY CallerNames, ReadyOK DEF Jobs
  <1>2. job' = [job EXCEPT ![p] = j]
    BY DEF Ready
  <1> HIDE DEF j
  <1>3. QED
    BY <1>1, <1>2, CallerNames, OneJob

LEMMA LeaveJob ==
  ASSUME Jobs, NEW p \in Callers, job[p].at \in Leaving, Leave(p), UNCHANGED known
  PROVE  Jobs'
  <1>1. job[p].at \in Active /\ "done" \in Statement \ Active
    BY DEF Active, InRebuild, Leaving, Statement
  <1>2. QED
    BY <1>1, ReadyJob, GotoJob DEF Leave

LEMMA ReadJob ==
  ASSUME Jobs, Tables, NEW g \in Goroutines, g = "drop" \/ g = "create" \/ g \in Callers,
         Read(g)
  PROVE  Jobs'
  <1> DEFINE e == job[g].entry
             x == IF e \in Courses THEN "write" ELSE "join"
             j == [job[g] EXCEPT !.at = x, !.copy = Row(e)]
             i == [job[g] EXCEPT !.at = "forget"]
  <1>1. /\ JobOK(known, g, job[g]) /\ job[g].at = "read" /\ UNCHANGED known
        /\ job[g] \in JobRecord
    BY DEF Jobs, Read, At, JobOK
  <1>2. /\ e \in Entries /\ known \subseteq Courses
        /\ e \notin Courses => e \in Students
        /\ g = "create" => e \in known
        /\ g # "create" => job[g].key \in Keys /\ e \in {job[g].key[1], job[g].key[2]}
    <2>1. "read" \in Active
      BY DEF Active, InRebuild
    <2>2. known \subseteq Courses
      BY DEF Tables
    <2>3. /\ g = "create" => e \in known
          /\ g # "create" => job[g].key \in Keys /\ e \in {job[g].key[1], job[g].key[2]}
      BY <1>1, <2>1 DEF JobOK
    <2>4. QED
      BY <2>2, <2>3, KeyParts DEF Entries
  <1>3. Row(e) \in EntryOf(e) /\ EntryOf(e) \subseteq CourseEntry \cup StudentEntry
    BY <1>2, RowTyped DEF EntryOf
  <1>4. {"write", "join", "forget"} \subseteq Statement
    BY DEF Statement, Active, InRebuild
  <1>5. /\ j \in JobRecord /\ j.at = x /\ j.key = job[g].key /\ j.entry = e
        /\ j.copy = Row(e)
        /\ i \in JobRecord /\ i.at = "forget" /\ i.key = job[g].key /\ i.entry = e
    BY <1>1, <1>3, <1>4 DEF JobRecord
  <1>6. CASE e \in Courses \ known
    <2>1. job' = [job EXCEPT ![g] = i]
      BY <1>6 DEF Read, Goto
    <2> HIDE DEF i, j
    <2>2. JobOK(known, g, i)
      BY <1>2, <1>5, <1>6, CallerNames DEF JobOK
    <2>3. QED
      BY <1>1, <2>1, <2>2, OneJob
  <1>7. CASE e \notin Courses \ known
    <2>1. job' = [job EXCEPT ![g] = j]
      BY <1>7 DEF Read
    <2> HIDE DEF i, j
    <2>2. JobOK(known, g, j)
      BY <1>2, <1>3, <1>5, CallerNames DEF JobOK
    <2>3. QED
      BY <1>1, <2>1, <2>2, OneJob
  <1>8. QED
    BY <1>6, <1>7

LEMMA JoinJob ==
  ASSUME Jobs, Tables, NEW g \in Goroutines, Join(g)
  PROVE  Jobs'
  <1> DEFINE j == [job[g] EXCEPT !.at = "write", !.copy = Joined(job[g].entry, job[g].copy)]
  <1>1. /\ JobOK(known, g, job[g]) /\ job[g].at = "join" /\ UNCHANGED known
        /\ job[g] \in JobRecord /\ job' = [job EXCEPT ![g] = j]
    BY DEF Jobs, Join, At, JobOK
  <1>2. /\ job[g].entry \in Students /\ EntryOf(job[g].entry) = StudentEntry
        /\ job[g].copy \in StudentEntry
    BY <1>1, NamesAssumption DEF JobOK, EntryOf
  <1>3. Joined(job[g].entry, job[g].copy) \in StudentEntry
    BY <1>2, JoinedTyped
  <1>4. {"write", "join"} \subseteq Active /\ Active \subseteq Statement
    BY DEF Statement, Active, InRebuild
  <1>5. /\ j \in JobRecord /\ j.at = "write" /\ j.key = job[g].key
        /\ j.entry = job[g].entry /\ j.copy = Joined(job[g].entry, job[g].copy)
    BY <1>1, <1>3, <1>4 DEF JobRecord
  <1> HIDE DEF j
  <1>6. JobOK(known, g, j)
    BY <1>1, <1>2, <1>3, <1>4, <1>5 DEF JobOK
  <1>7. QED
    BY <1>1, <1>6, OneJob

LEMMA WriteJob ==
  ASSUME Jobs, NEW g \in Goroutines, Write(g)
  PROVE  Jobs'
  <1>1. /\ JobOK(known, g, job[g]) /\ job[g].at = "write" /\ UNCHANGED known
        /\ job[g] \in JobRecord /\ AfterWrite(g)
    BY DEF Jobs, Write, At, JobOK
  <1>2. "write" \in Active /\ {"read", "release"} \subseteq Statement
    BY DEF Active, InRebuild, Leaving, Statement
  <1>3. CASE g \in Callers
    BY <1>1, <1>2, <1>3, GotoJob DEF AfterWrite
  <1>4. CASE g \notin Callers /\ g = "drop" /\ job[g].entry \in Courses
    <2> DEFINE j == [job[g] EXCEPT !.at = "read", !.entry = job[g].key[1], !.copy = None]
    <2>1. job[g].key \in Keys /\ job[g].key[1] \in Entries
      BY <1>1, <1>4, KeyParts DEF JobOK
    <2>2. /\ j \in JobRecord /\ j.at = "read" /\ j.key = job[g].key
          /\ j.entry = job[g].key[1]
      BY <1>1, <1>2, <2>1 DEF JobRecord
    <2>3. job' = [job EXCEPT ![g] = j]
      BY <1>4 , <1>1 DEF AfterWrite
    <2> HIDE DEF j
    <2>4. JobOK(known, g, j)
      BY <1>4, <2>1, <2>2 DEF JobOK
    <2>5. QED
      BY <1>1, <2>3, <2>4, OneJob
  <1>5. CASE g \notin Callers /\ ~ (g = "drop" /\ job[g].entry \in Courses)
    <2>1. job' = [job EXCEPT ![g] = Idle]
      BY <1>1, <1>5 DEF AfterWrite
    <2>2. QED
      BY <1>1, <2>1, IdleOK, OneJob
  <1>6. QED
    BY <1>3, <1>4, <1>5

LEMMA Statements ==
  /\ Active \subseteq Statement
  /\ {"idle", "done"} \cup Queued \subseteq Statement \ Active
  /\ Queued = {"pending", "cleanup", "again"}
  /\ {"look", "acquire", "wait", "reserve", "recheck", "read", "join", "write",
      "forget", "mark", "release", "quit"} = Active
  BY DEF Statement, Active, InRebuild, Leaving, Queued

LEMMA JobsNext == Jobs /\ Tables /\ [Next]_vars => Jobs'
  <1> SUFFICES ASSUME Jobs, Tables, [Next]_vars PROVE Jobs'
    OBVIOUS
  <1>1. ASSUME NEW p \in Callers, Submit(p) PROVE Jobs'
    <2>1. PICK k \in Asks[p] :
            job' = [job EXCEPT ![p] = [at |-> "look", key |-> k, entry |-> k[2],
                                       copy |-> None]]
      BY <1>1 DEF Submit
    <2> DEFINE j == [at |-> "look", key |-> k, entry |-> k[2], copy |-> None]
    <2>2. k \in Keys /\ k[2] \in Entries
      BY AsksAssumption, KeyParts
    <2>3. j \in JobRecord /\ j.at = "look" /\ j.key = k /\ j.entry = k[2]
      BY <2>2, Statements DEF JobRecord
    <2>4. UNCHANGED known
      BY <1>1 DEF Submit
    <2> HIDE DEF j
    <2>5. JobOK(known, p, j)
      BY <2>2, <2>3, CallerNames DEF JobOK
    <2>6. QED
      BY <2>1, <2>4, <2>5, CallerNames, OneJob DEF j
  <1>2. ASSUME NEW p \in Callers, Look(p) PROVE Jobs'
    BY <1>2, Statements, GotoJob, ReadyJob DEF Look, At
  <1>3. ASSUME NEW p \in Callers, Acquire(p) PROVE Jobs'
    BY <1>3, Statements, GotoJob DEF Acquire, At
  <1>4. ASSUME NEW p \in Callers, Recheck(p) PROVE Jobs'
    BY <1>4, Statements, GotoJob DEF Recheck, At
  <1>5. ASSUME NEW p \in Callers, WaitEnds(p) PROVE Jobs'
    BY <1>5, Statements, GotoJob, ReadyJob DEF WaitEnds, At
  <1>6. ASSUME NEW p \in Callers, Release(p) \/ ReleaseFails(p) PROVE Jobs'
    BY <1>6, LeaveJob DEF Release, ReleaseFails
  <1>7. ASSUME NEW p \in Callers, CallFails(p) PROVE Jobs'
    BY <1>7, Statements, GotoJob DEF CallFails
  <1>8. ASSUME NEW p \in Callers, Read(p) \/ Join(p) \/ Write(p) PROVE Jobs'
    BY <1>8, CallerNames, ReadJob, JoinJob, WriteJob
  <1>9. ASSUME NEW p \in Callers, Forget(p) \/ Mark(p) PROVE Jobs'
    <2>1. /\ UNCHANGED known /\ job[p].at \in {"forget", "mark"}
          /\ Goto(p, "mark") \/ Goto(p, "quit")
      BY <1>9 DEF Forget, Mark, At
    <2>2. job[p].entry \in Courses
      BY <2>1, CallerNames DEF Jobs, JobOK
    <2>3. QED
      BY <2>1, <2>2, Statements, GotoJob
  <1>10. ASSUME NEW p \in Callers,
                \/ Reserve(p) \/ Refused(p) \/ Accept(p) \/ Refuse(p)
                \/ CleanUp(p) \/ CleanUpFirst(p)
         PROVE  Jobs'
    <2>1. /\ UNCHANGED known
          /\ \/ job[p].at = "reserve" /\ (Goto(p, "pending") \/ Goto(p, "done"))
             \/ /\ job[p].at \in {"pending", "cleanup", "again"}
                /\ Goto(p, "cleanup") \/ Goto(p, "again") \/ Goto(p, "done")
      BY <1>10 DEF Reserve, Refused, Accept, Refuse, CleanUp, CleanUpFirst, At
    <2>2. QED
      BY <2>1, Statements, GotoJob
  <1>11. ASSUME NEW k \in Keys, Drop(k) PROVE Jobs'
    <2> DEFINE j == [at |-> "read", key |-> k, entry |-> k[2], copy |-> None]
    <2>1. j \in JobRecord /\ j.at = "read" /\ j.key = k /\ j.entry = k[2]
      BY KeyParts, Statements DEF JobRecord
    <2>2. job' = [job EXCEPT !["drop"] = j] /\ UNCHANGED known
      BY <1>11 DEF Drop
    <2> HIDE DEF j
    <2>3. JobOK(known, "drop", j)
      BY <2>1, CallerNames DEF JobOK
    <2>4. QED
      BY <2>2, <2>3, CallerNames, OneJob
  <1>12. ASSUME NEW g \in {"drop", "create"}, Read(g) \/ Join(g) \/ Write(g) PROVE Jobs'
    BY <1>12, CallerNames, ReadJob, JoinJob, WriteJob
  <1>13. CASE RefreshFails \/ WarmUpFails
    BY <1>13, CallerNames, IdleOK, OneJob DEF RefreshFails, WarmUpFails
  <1>14. ASSUME NEW c \in Courses, CreateCourse(c) PROVE Jobs'
    <2>1. known' = known \cup {c}
      BY <1>14 DEF CreateCourse
    <2> DEFINE j == [Idle EXCEPT !.at = "read", !.entry = c]
    <2>2. j \in JobRecord /\ j.at = "read" /\ j.entry = c
      BY Statements DEF JobRecord, Idle, Entries
    <2>3. CASE job' = [job EXCEPT !["create"] = j]
      <3> HIDE DEF j
      <3>1. JobOK(known', "create", j)
        BY <2>1, <2>2, CallerNames DEF JobOK
      <3>2. QED
        BY <2>1, <2>3, <3>1, CallerNames, OneJob
    <2>4. CASE UNCHANGED job
      BY <2>1, <2>4, JobGrows DEF Jobs
    <2>5. QED
      BY <1>14, <2>3, <2>4 DEF CreateCourse
  <1>15. CASE ServerCrash
    <2>1. UNCHANGED known /\ DOMAIN job' = Goroutines
          /\ job' = [g \in Goroutines |-> job'[g]]
      BY <1>15 DEF ServerCrash
    <2>2. ASSUME NEW g \in Goroutines PROVE JobOK(known, g, job'[g])
      <3>1. CASE g \in {"drop", "create"}
        <4>1. job'[g] = Idle
          BY <1>15, <3>1, NamesAssumption DEF ServerCrash
        <4>2. QED
          BY <4>1, IdleOK
      <3>2. CASE g \in Callers /\ job[g].at \in Active
        <4>1. job'[g] = [job[g] EXCEPT !.at = "done"]
          BY <1>15, <3>2, CallerNames DEF ServerCrash
        <4>2. QED
          BY <3>2, <4>1, GotoOK, Statements DEF Jobs
      <3>3. CASE g \in Callers /\ job[g].at \notin Active
        <4>1. job'[g] = job[g]
          BY <1>15, <3>3, CallerNames DEF ServerCrash
        <4>2. QED
          BY <4>1 DEF Jobs
      <3>4. QED
        BY <3>1, <3>2, <3>3 DEF Goroutines
    <2>3. QED
      BY <2>1, <2>2 DEF Jobs
  <1>16. ASSUME UNCHANGED <<job, known>> PROVE Jobs'
    BY <1>16 DEF Jobs
  <1>17. CASE \/ \E e \in Entries : ExpireLock(e) \/ StartEdit(e)
              \/ \E c \in Courses : ExpireMarker(c)
              \/ \E p \in Callers : CleanUpFails(p)
              \/ EditRow \/ DeleteEntry \/ UNCHANGED vars
    BY <1>16, <1>17 DEF ExpireLock, StartEdit, ExpireMarker, CleanUpFails, EditRow,
                        DeleteEntry, vars
  <1>18. QED
    BY <1>1, <1>2, <1>3, <1>4, <1>5, <1>6, <1>7, <1>8, <1>9, <1>10, <1>11, <1>12,
       <1>13, <1>14, <1>15, <1>17
    DEF Next, Call
-----------------------------------------------------------------------------
(***************************************************************************)
(* The tables: what the transactions and the edits write.                  *)
(***************************************************************************)
LEMMA TablesWritten ==
  ASSUME [Next]_vars
  PROVE  \/ \E p \in Callers : Accept(p)
         \/ \E k \in Keys : Drop(k)
         \/ EditRow
         \/ \E c \in Courses : CreateCourse(c)
         \/ UNCHANGED mysql
  <1>1. ASSUME NEW p \in Callers, Submit(p) \/ Call(p) \/ CallFails(p) \/ ReleaseFails(p)
                                    \/ Refuse(p) \/ CleanUp(p) \/ CleanUpFirst(p)
                                    \/ CleanUpFails(p)
        PROVE  UNCHANGED mysql
    BY <1>1 DEF Submit, Call, Look, Acquire, Recheck, WaitEnds, Release, Read, Join, Write,
                Forget, Mark, Reserve, Refused, CallFails, ReleaseFails, Refuse, CleanUp,
                CleanUpFirst, CleanUpFails
  <1>2. ASSUME NEW g \in {"drop", "create"}, Read(g) \/ Join(g) \/ Write(g)
        PROVE  UNCHANGED mysql
    BY <1>2 DEF Read, Join, Write
  <1>3. ASSUME \/ \E e \in Entries : ExpireLock(e) \/ StartEdit(e)
               \/ \E c \in Courses : ExpireMarker(c)
               \/ RefreshFails \/ WarmUpFails \/ DeleteEntry \/ ServerCrash
               \/ UNCHANGED vars
        PROVE  UNCHANGED mysql
    BY <1>3 DEF ExpireLock, StartEdit, ExpireMarker, RefreshFails, WarmUpFails,
                DeleteEntry, ServerCrash, vars
  <1>4. QED
    BY <1>1, <1>2, <1>3 DEF Next

(* A caller whose selection is decided works on a student and a course.    *)
LEMMA PendingKey ==
  ASSUME Jobs, NEW p \in Callers, job[p].at \in Queued \cup {"reserve"}
  PROVE  /\ job[p].key \in Keys
         /\ job[p].key[1] \in Students /\ job[p].key[2] \in Courses
         /\ job[p].key = <<job[p].key[1], job[p].key[2]>>
         /\ job[p].key[1] # job[p].key[2]
  <1>1. job[p].key \in Keys
    BY CallerNames, Statements DEF Jobs, JobOK
  <1>2. QED
    BY <1>1, KeyParts

StudentRow == [used : Nat, limit : Int, version : Nat]

LEMMA FloorTyped == \A n, d \in Nat : FloorMinus(n, d) \in Nat
  BY DEF FloorMinus

(* What may be written to the row of a course, and what it leaves.         *)
LEMMA CourseRows ==
  ASSUME NEW row \in CourseRow
  PROVE  /\ \A n \in Nat :
              /\ [row EXCEPT !.selected = n] \in CourseRow
              /\ [row EXCEPT !.selected = n].selected = n
              /\ [row EXCEPT !.selected = n].capacity = row.capacity
              /\ [row EXCEPT !.selected = n].slot = row.slot
              /\ [row EXCEPT !.selected = n].version = row.version
              /\ [row EXCEPT !.selected = n].status = row.status
         /\ \A n \in {0, 1} :
              /\ [row EXCEPT !.status = n] \in CourseRow
              /\ [row EXCEPT !.status = n].selected = row.selected
              /\ [row EXCEPT !.status = n].capacity = row.capacity
              /\ [row EXCEPT !.status = n].slot = row.slot
              /\ [row EXCEPT !.status = n].version = row.version
         /\ \A edit \in CourseEdits :
              /\ Edited(row, edit) \in CourseRow
              /\ Edited(row, edit).selected = row.selected
              /\ Edited(row, edit).slot = edit.slot
              /\ edit.slot \in Nat
              /\ Edited(row, edit).version = row.version + 1
  <1>1. ASSUME NEW edit \in CourseEdits
        PROVE  /\ Edited(row, edit) \in CourseRow
               /\ Edited(row, edit).selected = row.selected
               /\ Edited(row, edit).slot = edit.slot
               /\ edit.slot \in Nat
               /\ Edited(row, edit).version = row.version + 1
    <2>1. edit \in [status : {0, 1}, capacity : Nat, slot : Nat, credit : Nat]
      BY ColumnsAssumption DEF Columns
    <2>2. row.version + 1 \in Nat
      BY DEF CourseRow
    <2>3. QED
      BY <2>1, <2>2 DEF Edited, CourseRow
  <1>2. QED
    BY <1>1 DEF CourseRow

LEMMA StudentRows ==
  ASSUME NEW row \in StudentRow
  PROVE  /\ \A n \in Nat : [row EXCEPT !.used = n] \in StudentRow
         /\ \A n \in Int : [row EXCEPT !.limit = n, !.version = row.version + 1] \in StudentRow
  <1>1. row.version + 1 \in Nat
    BY DEF StudentRow
  <1>2. QED
    BY <1>1 DEF StudentRow

(* What each step that writes a course's row writes to it.                 *)
LEMMA CourseWritten ==
  ASSUME Jobs, Tables, EditTyped
  PROVE  /\ \A p \in Callers : Accept(p) =>
              LET c == job[p].key[2] IN
                /\ c \in Courses /\ courses[c].selected + 1 \in Nat
                /\ courses' = [courses EXCEPT ![c] =
                                 [courses[c] EXCEPT !.selected = courses[c].selected + 1]]
         /\ \A k \in Keys : Drop(k) =>
              LET n == FloorMinus(courses[k[2]].selected, 1) IN
                /\ k[2] \in Courses /\ n \in Nat
                /\ courses' = [courses EXCEPT ![k[2]] =
                                 [courses[k[2]] EXCEPT !.selected = n]]
         /\ EditRow =>
              \/ editor.entry \in Students /\ UNCHANGED <<courses, shifted>>
              \/ LET e == editor.entry IN
                   /\ e \in Courses /\ editor.edit \in CourseEdits
                   /\ courses' = [courses EXCEPT ![e] = Edited(courses[e], editor.edit)]
                   /\ shifted' = IF editor.edit.slot = courses[e].slot THEN shifted
                                 ELSE shifted \cup {courses[e].slot, editor.edit.slot}
         /\ \A c \in Courses : CreateCourse(c) =>
              \E n \in {0, 1} :
                courses' = [courses EXCEPT ![c] = [courses[c] EXCEPT !.status = n]]
  <1>0. \A c \in Courses : courses[c] \in CourseRow
    BY DEF Tables
  <1>1. ASSUME NEW p \in Callers, Accept(p)
        PROVE  LET c == job[p].key[2] IN
                /\ c \in Courses /\ courses[c].selected + 1 \in Nat
                /\ courses' = [courses EXCEPT ![c] =
                                 [courses[c] EXCEPT !.selected = courses[c].selected + 1]]
    <2>1. job[p].key[2] \in Courses
      BY <1>1, PendingKey, Statements DEF Accept, At
    <2>2. courses[job[p].key[2]].selected \in Nat
      BY <1>0, <2>1 DEF CourseRow
    <2>3. QED
      BY <1>1, <2>1, <2>2 DEF Accept
  <1>2. ASSUME NEW k \in Keys, Drop(k)
        PROVE  LET n == FloorMinus(courses[k[2]].selected, 1) IN
                /\ k[2] \in Courses /\ n \in Nat
                /\ courses' = [courses EXCEPT ![k[2]] =
                                 [courses[k[2]] EXCEPT !.selected = n]]
    <2>1. k[2] \in Courses
      BY KeyParts
    <2>2. courses[k[2]].selected \in Nat
      BY <1>0, <2>1 DEF CourseRow
    <2>3. QED
      BY <1>2, <2>1, <2>2, FloorTyped DEF Drop
  <1>3. ASSUME EditRow
        PROVE  \/ editor.entry \in Students /\ UNCHANGED <<courses, shifted>>
               \/ LET e == editor.entry IN
                   /\ e \in Courses /\ editor.edit \in CourseEdits
                   /\ courses' = [courses EXCEPT ![e] = Edited(courses[e], editor.edit)]
                   /\ shifted' = IF editor.edit.slot = courses[e].slot THEN shifted
                                 ELSE shifted \cup {courses[e].slot, editor.edit.slot}
    BY <1>3 DEF EditRow, EditTyped
  <1>4. ASSUME NEW c \in Courses, CreateCourse(c)
        PROVE  \E n \in {0, 1} :
                courses' = [courses EXCEPT ![c] = [courses[c] EXCEPT !.status = n]]
    BY <1>4 DEF CreateCourse
  <1>5. QED
    BY <1>1, <1>2, <1>3, <1>4

LEMMA CoursesNext ==
  Jobs /\ Tables /\ EditTyped /\ [Next]_vars => courses' \in [Courses -> CourseRow]
  <1> SUFFICES ASSUME Jobs, Tables, EditTyped, [Next]_vars
               PROVE  courses' \in [Courses -> CourseRow]
    OBVIOUS
  <1>1. /\ courses \in [Courses -> CourseRow]
        /\ \A c \in Courses : courses[c] \in CourseRow
    BY DEF Tables
  <1>2. ASSUME NEW c \in Courses, NEW row \in CourseRow, courses' = [courses EXCEPT ![c] = row]
        PROVE  courses' \in [Courses -> CourseRow]
    BY <1>1, <1>2
  <1>3. ASSUME NEW p \in Callers, Accept(p) PROVE courses' \in [Courses -> CourseRow]
    <2> DEFINE c == job[p].key[2]
               n == courses[c].selected + 1
    <2>1. /\ c \in Courses /\ n \in Nat
          /\ courses' = [courses EXCEPT ![c] = [courses[c] EXCEPT !.selected = n]]
      BY <1>3, CourseWritten
    <2> HIDE DEF c, n
    <2>2. [courses[c] EXCEPT !.selected = n] \in CourseRow
      BY <1>1, <2>1, CourseRows
    <2>3. QED
      BY <1>2, <2>1, <2>2
  <1>4. ASSUME NEW k \in Keys, Drop(k) PROVE courses' \in [Courses -> CourseRow]
    <2> DEFINE c == k[2]
               n == FloorMinus(courses[c].selected, 1)
    <2>1. /\ c \in Courses /\ n \in Nat
          /\ courses' = [courses EXCEPT ![c] = [courses[c] EXCEPT !.selected = n]]
      BY <1>4, CourseWritten
    <2> HIDE DEF c, n
    <2>2. [courses[c] EXCEPT !.selected = n] \in CourseRow
      BY <1>1, <2>1, CourseRows
    <2>3. QED
      BY <1>2, <2>1, <2>2
  <1>5. CASE EditRow
    <2> DEFINE c == editor.entry
    <2>1. \/ UNCHANGED courses
          \/ /\ c \in Courses /\ editor.edit \in CourseEdits
             /\ courses' = [courses EXCEPT ![c] = Edited(courses[c], editor.edit)]
      BY <1>5, CourseWritten
    <2> HIDE DEF c
    <2>2. c \in Courses /\ editor.edit \in CourseEdits =>
            Edited(courses[c], editor.edit) \in CourseRow
      BY <1>1, CourseRows
    <2>3. QED
      BY <1>1, <1>2, <2>1, <2>2
  <1>6. ASSUME NEW c \in Courses, CreateCourse(c) PROVE courses' \in [Courses -> CourseRow]
    <2>1. PICK n \in {0, 1} :
            courses' = [courses EXCEPT ![c] = [courses[c] EXCEPT !.status = n]]
      BY <1>6, CourseWritten
    <2>2. [courses[c] EXCEPT !.status = n] \in CourseRow
      BY <1>1, CourseRows
    <2>3. QED
      BY <1>2, <2>1, <2>2
  <1>7. QED
    BY <1>1, <1>3, <1>4, <1>5, <1>6, TablesWritten

LEMMA TablesNext == Jobs /\ Tables /\ EditTyped /\ [Next]_vars => Tables'
  <1> SUFFICES ASSUME Jobs, Tables, EditTyped, [Next]_vars PROVE Tables'
    OBVIOUS
  <1>0. /\ courses' \in [Courses -> CourseRow]
        /\ students \in [Students -> StudentRow]
        /\ \A s \in Students : students[s] \in StudentRow
        /\ \A c \in Courses : courses[c].credit \in Nat
    BY CoursesNext DEF Tables, StudentRow, CourseRow
  <1>1. ASSUME NEW s \in Students, NEW row \in StudentRow,
               students' = [students EXCEPT ![s] = row]
        PROVE  students' \in [Students -> [used : Nat, limit : Int, version : Nat]]
    BY <1>0, <1>1 DEF StudentRow
  <1>2. ASSUME NEW p \in Callers, Accept(p) PROVE Tables'
    <2> DEFINE s == job[p].key[1]
               c == job[p].key[2]
    <2>1. s \in Students /\ c \in Courses
      BY <1>2, PendingKey, Statements DEF Accept, At
    <2>2. /\ students' = [students EXCEPT ![s].used = @ + courses[c].credit]
          /\ enrolled' = enrolled \cup {<<s, c>>} /\ UNCHANGED known
      BY <1>2 DEF Accept
    <2> HIDE DEF s, c
    <2>3. students[s].used + courses[c].credit \in Nat
      BY <1>0, <2>1 DEF StudentRow
    <2>4. students' = [students EXCEPT ![s] =
                         [students[s] EXCEPT !.used = students[s].used + courses[c].credit]]
      BY <2>2
    <2>5. students' \in [Students -> [used : Nat, limit : Int, version : Nat]]
      BY <1>0, <1>1, <2>1, <2>3, <2>4, StudentRows
    <2>6. QED
      BY <1>0, <2>1, <2>2, <2>5 DEF Tables, Keys
  <1>3. ASSUME NEW k \in Keys, Drop(k) PROVE Tables'
    <2>1. k[1] \in Students /\ k[2] \in Courses
      BY KeyParts
    <2> DEFINE n == FloorMinus(students[k[1]].used, courses[k[2]].credit)
    <2>2. n \in Nat
      BY <1>0, <2>1, FloorTyped DEF StudentRow
    <2>3. /\ students' = [students EXCEPT ![k[1]] = [students[k[1]] EXCEPT !.used = n]]
          /\ enrolled' = enrolled \ {k} /\ UNCHANGED known
      BY <1>3 DEF Drop
    <2> HIDE DEF n
    <2>4. students' \in [Students -> [used : Nat, limit : Int, version : Nat]]
      BY <1>0, <1>1, <2>1, <2>2, <2>3, StudentRows
    <2>5. QED
      BY <1>0, <2>3, <2>4 DEF Tables
  <1>4. CASE EditRow
    <2>1. CASE UNCHANGED students
      BY <1>0, <1>4, <2>1 DEF EditRow, Tables
    <2>2. ASSUME NEW n \in Limits, editor.entry \in Students,
                 students' = [students EXCEPT ![editor.entry].limit = n,
                                              ![editor.entry].version = @ + 1]
          PROVE  Tables'
      <3> DEFINE s == editor.entry
      <3>1. students' = [students EXCEPT ![s] =
                  [students[s] EXCEPT !.limit = n, !.version = students[s].version + 1]]
        BY <2>2
      <3>2. n \in Int /\ s \in Students
        BY <2>2, ColumnsAssumption
      <3> HIDE DEF s
      <3>3. students' \in [Students -> [used : Nat, limit : Int, version : Nat]]
        BY <1>0, <1>1, <3>1, <3>2, StudentRows
      <3>4. QED
        BY <1>0, <1>4, <3>3 DEF EditRow, Tables
    <2>3. QED
      BY <1>4, <2>1, <2>2 DEF EditRow
  <1>5. ASSUME NEW c \in Courses, CreateCourse(c) PROVE Tables'
    BY <1>0, <1>5 DEF CreateCourse, Tables
  <1>6. CASE UNCHANGED mysql
    BY <1>6 DEF Tables
  <1>7. QED
    BY <1>2, <1>3, <1>4, <1>5, <1>6, TablesWritten
-----------------------------------------------------------------------------
(***************************************************************************)
(* Locks, edits, and the budget of failures.                               *)
(***************************************************************************)
CallerStep(p) ==
  \/ Submit(p) \/ Call(p) \/ CallFails(p) \/ ReleaseFails(p)
  \/ Accept(p) \/ Refuse(p) \/ CleanUp(p) \/ CleanUpFirst(p) \/ CleanUpFails(p)

RefreshStep(g) == Read(g) \/ Join(g) \/ Write(g)

LEMMA NextCases ==
  ASSUME [Next]_vars
  PROVE  \/ \E p \in Callers : CallerStep(p)
         \/ \E e \in Entries : ExpireLock(e) \/ StartEdit(e)
         \/ \E k \in Keys : Drop(k)
         \/ RefreshStep("drop") \/ RefreshStep("create")
         \/ RefreshFails \/ WarmUpFails
         \/ \E c \in Courses : CreateCourse(c) \/ ExpireMarker(c)
         \/ EditRow \/ DeleteEntry \/ ServerCrash \/ UNCHANGED vars
  BY DEF Next, CallerStep, RefreshStep

(* A goroutine moves its own job only.                                     *)
LEMMA Alone ==
  ASSUME Jobs, NEW g \in Goroutines, (g \in Callers /\ CallerStep(g)) \/ RefreshStep(g)
  PROVE  /\ \A h \in Goroutines \ {g} : job'[h] = job[h]
         /\ UNCHANGED editor
  <1>1. ASSUME NEW j, job' = [job EXCEPT ![g] = j]
        PROVE  \A h \in Goroutines \ {g} : job'[h] = job[h]
    BY <1>1 DEF Jobs
  <1>2. \A x : Goto(g, x) => \A h \in Goroutines \ {g} : job'[h] = job[h]
    BY DEF Goto, Jobs
  <1>3. Ready(g) \/ Leave(g) => \A h \in Goroutines \ {g} : job'[h] = job[h]
    BY <1>2 DEF Ready, Leave, Jobs
  <1>4. AfterWrite(g) => \A h \in Goroutines \ {g} : job'[h] = job[h]
    BY <1>2 DEF AfterWrite, Jobs
  <1>5. CASE RefreshStep(g)
    <2>1. Read(g) => \A h \in Goroutines \ {g} : job'[h] = job[h]
      BY <1>2 DEF Read, Jobs
    <2>2. Join(g) => \A h \in Goroutines \ {g} : job'[h] = job[h]
      BY DEF Join, Jobs
    <2>3. QED
      BY <1>4, <1>5, <2>1, <2>2 DEF RefreshStep, Read, Join, Write
  <1>6. CASE g \in Callers /\ CallerStep(g)
    <2>1. CASE Read(g) \/ Join(g) \/ Write(g)
      BY <1>5, <2>1 DEF RefreshStep
    <2>2. CASE Submit(g)
      BY <1>1, <2>2 DEF Submit
    <2>3. CASE \/ Look(g) \/ Acquire(g) \/ Recheck(g) \/ WaitEnds(g) \/ Release(g)
               \/ Forget(g) \/ Mark(g) \/ Reserve(g) \/ Refused(g)
      BY <1>2, <1>3, <2>3
      DEF Look, Acquire, Recheck, WaitEnds, Release, Forget, Mark, Reserve, Refused
    <2>4. CASE \/ CallFails(g) \/ ReleaseFails(g) \/ Accept(g) \/ Refuse(g)
               \/ CleanUp(g) \/ CleanUpFirst(g) \/ CleanUpFails(g)
      BY <1>2, <1>3, <2>4
      DEF CallFails, ReleaseFails, Accept, Refuse, CleanUp, CleanUpFirst, CleanUpFails
    <2>5. QED
      BY <1>6, <2>1, <2>2, <2>3, <2>4 DEF CallerStep, Call
  <1>7. QED
    BY <1>5, <1>6

LEMMA LocksNext == Jobs /\ LocksTyped /\ [Next]_vars => LocksTyped'
  <1> SUFFICES ASSUME Jobs, LocksTyped, [Next]_vars PROVE LocksTyped'
    OBVIOUS
  <1>1. ASSUME NEW p \in Callers, Acquire(p) \/ Release(p) \/ CallFails(p) \/ ReleaseFails(p)
        PROVE  LocksTyped'
    BY <1>1 DEF Acquire, Release, CallFails, ReleaseFails, LocksTyped
  <1>2. ASSUME NEW e \in Entries, ExpireLock(e) PROVE LocksTyped'
    BY <1>2 DEF ExpireLock, LocksTyped
  <1>3. CASE ServerCrash
    BY <1>3 DEF ServerCrash, LocksTyped
  <1>4. CASE UNCHANGED <<lock, late>>
    BY <1>4 DEF LocksTyped
  <1>5. ASSUME NEW p \in Callers, CallerStep(p) PROVE LocksTyped'
    BY <1>1, <1>4, <1>5
    DEF CallerStep, Call, Submit, Look, Recheck, WaitEnds, Read, Join, Write,
        Forget, Mark, Reserve, Refused, Accept, Refuse, CleanUp, CleanUpFirst,
        CleanUpFails
  <1>6. QED
    BY <1>2, <1>3, <1>4, <1>5, NextCases
    DEF RefreshStep, Read, Join, Write, StartEdit, Drop, RefreshFails, WarmUpFails,
        CreateCourse, ExpireMarker, EditRow, DeleteEntry, vars

LEMMA ShiftedWritten == ASSUME [Next]_vars PROVE EditRow \/ UNCHANGED shifted
  <1>1. ASSUME NEW p \in Callers, CallerStep(p) PROVE UNCHANGED shifted
    BY <1>1
    DEF CallerStep, Call, Submit, Look, Acquire, Recheck, WaitEnds, Release, Read, Join,
        Write, Forget, Mark, Reserve, Refused, CallFails, ReleaseFails, Accept, Refuse,
        CleanUp, CleanUpFirst, CleanUpFails
  <1>2. QED
    BY <1>1, NextCases
    DEF RefreshStep, Read, Join, Write, ExpireLock, StartEdit, Drop, RefreshFails,
        WarmUpFails, CreateCourse, ExpireMarker, DeleteEntry, ServerCrash, vars

LEMMA EditNext == Jobs /\ Tables /\ EditTyped /\ [Next]_vars => EditTyped'
  <1> SUFFICES ASSUME Jobs, Tables, EditTyped, [Next]_vars PROVE EditTyped'
    OBVIOUS
  <1>1. known \subseteq known'
    BY TablesWritten DEF Accept, Drop, EditRow, CreateCourse
  <1>2. shifted' \subseteq Nat
    <2>1. CASE UNCHANGED shifted
      BY <2>1 DEF EditTyped
    <2>2. ASSUME editor.entry \in Courses, editor.edit \in CourseEdits,
                 shifted' \subseteq shifted \cup {courses[editor.entry].slot, editor.edit.slot}
          PROVE  shifted' \subseteq Nat
      <3>1. courses[editor.entry] \in CourseRow
        BY <2>2 DEF Tables
      <3>2. courses[editor.entry].slot \in Nat /\ editor.edit.slot \in Nat
        BY <2>2, <3>1, CourseRows DEF CourseRow
      <3>3. QED
        BY <2>2, <3>2 DEF EditTyped
    <2>3. QED
      BY <2>1, <2>2, ShiftedWritten, CourseWritten
  <1>3. CASE UNCHANGED editor
    BY <1>1, <1>2, <1>3 DEF EditTyped
  <1>4. ASSUME NEW e \in Entries, StartEdit(e) PROVE EditTyped'
    <2>1. /\ e \in known \/ e \in Students
          /\ \E edit \in CourseEdits \cup {None} :
               /\ editor' = [step |-> 1, entry |-> e, edit |-> edit]
               /\ e \in Courses => edit \in CourseEdits
      BY <1>4, NamesAssumption DEF StartEdit
    <2>2. QED
      BY <1>1, <1>2, <2>1 DEF EditTyped
  <1>5. CASE EditRow \/ DeleteEntry
    <2>1. editor' = NextStep
      BY <1>5 DEF EditRow, DeleteEntry
    <2>2. QED
      BY <1>1, <1>2, <2>1 DEF NextStep, NoEdit, EditTyped
  <1>6. CASE ServerCrash
    BY <1>2, <1>6 DEF ServerCrash, NoEdit, EditTyped
  <1>7. QED
    BY <1>3, <1>4, <1>5, <1>6, NextCases, Alone, CallerNames
    DEF ExpireLock, Drop, RefreshFails, WarmUpFails, CreateCourse, ExpireMarker, vars

(* What a step may spend: nothing, a disturbance, a fault, or a fault that *)
(* an edit, a drop or a warm-up under way has paid for.                    *)
LEMMA CallerSpends ==
  ASSUME NEW p \in Callers, CallerStep(p)
  PROVE  UNCHANGED counters \/ Fault \/ (Disturb /\ UNCHANGED faults)
  BY DEF CallerStep, Call, Submit, Look, Acquire, Recheck, WaitEnds, Release, Read, Join,
         Write, Forget, Mark, Reserve, Refused, CallFails, ReleaseFails, Accept, Refuse,
         CleanUp, CleanUpFirst, CleanUpFails

LEMMA BudgetNext == Jobs /\ EditTyped /\ Budget /\ [Next]_vars => Budget'
  <1> SUFFICES ASSUME Jobs, EditTyped, Budget, [Next]_vars PROVE Budget'
    OBVIOUS
  <1> DEFINE edit == Due(editor.step # 0)
             drop == Due(job["drop"].at # "idle")
             create == Due(job["create"].at # "idle")
  <1>1. /\ faults \in Nat /\ disturbances \in 0..MaxDisturbances
        /\ faults + edit + drop + create <= disturbances
        /\ edit \in {0, 1} /\ drop \in {0, 1} /\ create \in {0, 1}
        /\ edit' \in {0, 1} /\ drop' \in {0, 1} /\ create' \in {0, 1}
    BY DEF Budget, Due
  <1>2. ASSUME faults' \in Nat, disturbances' \in 0..MaxDisturbances,
               faults' + edit' + drop' + create' <= disturbances'
        PROVE  Budget'
    BY <1>2 DEF Budget, Due
  <1>3. ASSUME edit' <= edit, drop' <= drop, create' <= create,
               UNCHANGED counters \/ Fault
        PROVE  Budget'
    BY <1>1, <1>2, <1>3, BoundAssumption DEF Fault, Disturb
  <1>4. ASSUME Disturb, UNCHANGED faults,
               edit' + drop' + create' <= edit + drop + create + 1
        PROVE  Budget'
    BY <1>1, <1>2, <1>4, BoundAssumption DEF Disturb
  <1>5. ASSUME FaultWithin,
               edit' + drop' + create' + 1 <= edit + drop + create
        PROVE  Budget'
    BY <1>1, <1>2, <1>5, BoundAssumption DEF FaultWithin
  <1>6. ASSUME NEW p \in Callers, CallerStep(p) PROVE Budget'
    <2>1. /\ job'["drop"] = job["drop"] /\ job'["create"] = job["create"]
          /\ UNCHANGED editor
      BY <1>6, Alone, CallerNames
    <2>2. edit' = edit /\ drop' = drop /\ create' = create
      BY <2>1 DEF Due
    <2>3. QED
      BY <1>1, <1>3, <1>4, <1>6, <2>2, CallerSpends
  <1>7. ASSUME NEW g \in {"drop", "create"}, RefreshStep(g) PROVE Budget'
    <2>1. \A h \in Goroutines \ {g} : job'[h] = job[h]
      BY <1>7, Alone, CallerNames
    <2>2. UNCHANGED editor /\ UNCHANGED counters /\ job[g].at # "idle"
      BY <1>7 DEF RefreshStep, Read, Join, Write, At
    <2>3. edit' = edit /\ drop' <= drop /\ create' <= create
      BY <1>1, <2>1, <2>2, CallerNames DEF Due
    <2>4. QED
      BY <1>1, <1>3, <2>2, <2>3
  <1>8. ASSUME NEW e \in Entries, ExpireLock(e) PROVE Budget'
    BY <1>1, <1>4, <1>8 DEF ExpireLock, Due
  <1>9. ASSUME NEW e \in Entries, StartEdit(e) PROVE Budget'
    <2>1. drop' = drop /\ create' = create
      BY <1>9 DEF StartEdit, Due
    <2>2. QED
      BY <1>1, <1>4, <1>9, <2>1 DEF StartEdit
  <1>10. ASSUME NEW k \in Keys, Drop(k) PROVE Budget'
    <2>1. job'["create"] = job["create"] /\ UNCHANGED editor
      BY <1>10, CallerNames DEF Drop, Jobs
    <2>2. create' = create /\ edit' = edit
      BY <2>1 DEF Due
    <2>3. QED
      BY <1>1, <1>4, <1>10, <2>2 DEF Drop
  <1>11. CASE RefreshFails
    <2>1. /\ job'["create"] = job["create"] /\ UNCHANGED editor
          /\ job'["drop"].at = "idle" /\ job["drop"].at # "idle"
      BY <1>11, CallerNames DEF RefreshFails, Jobs, At, Idle
    <2>2. create' = create /\ edit' = edit /\ drop' = 0 /\ drop = 1
      BY <2>1 DEF Due
    <2>3. QED
      BY <1>1, <1>5, <1>11, <2>2 DEF RefreshFails
  <1>12. CASE WarmUpFails
    <2>1. /\ job'["drop"] = job["drop"] /\ UNCHANGED editor
          /\ job'["create"].at = "idle" /\ job["create"].at # "idle"
      BY <1>12, CallerNames DEF WarmUpFails, Jobs, At, Idle
    <2>2. drop' = drop /\ edit' = edit /\ create' = 0 /\ create = 1
      BY <2>1 DEF Due
    <2>3. QED
      BY <1>1, <1>5, <1>12, <2>2 DEF WarmUpFails
  <1>13. ASSUME NEW c \in Courses, CreateCourse(c) PROVE Budget'
    <2>1. UNCHANGED <<editor, faults>>
      BY <1>13 DEF CreateCourse
    <2>2. CASE UNCHANGED <<job, disturbances>>
      <3>1. edit' = edit /\ drop' = drop /\ create' = create
        BY <2>1, <2>2 DEF Due
      <3>2. QED
        BY <1>1, <1>3, <2>1, <2>2, <3>1
    <2>3. CASE Disturb /\ job' = [job EXCEPT !["create"] = [Idle EXCEPT !.at = "read", !.entry = c]]
      <3>1. job'["drop"] = job["drop"]
        BY <2>3, CallerNames DEF Jobs
      <3>2. edit' = edit /\ drop' = drop
        BY <2>1, <3>1 DEF Due
      <3>3. QED
        BY <1>1, <1>4, <2>1, <2>3, <3>2
    <2>4. QED
      BY <1>13, <2>2, <2>3 DEF CreateCourse
  <1>14. CASE EditRow
    <2>1. UNCHANGED <<job, counters>> /\ editor.step # 0
      BY <1>14 DEF EditRow
    <2>2. drop' = drop /\ create' = create /\ edit' <= edit
      BY <1>1, <2>1 DEF Due
    <2>3. QED
      BY <1>1, <1>3, <2>1, <2>2
  <1>15. CASE DeleteEntry
    <2>1. /\ UNCHANGED job /\ editor.step # 0 /\ EditOrder[editor.step] = "delete"
          /\ editor' = NextStep
          /\ UNCHANGED counters \/ FaultWithin
      BY <1>15 DEF DeleteEntry
    <2>2. editor.step = 2
      BY <2>1 DEF EditTyped, EditOrder
    <2>3. drop' = drop /\ create' = create /\ edit = 1 /\ edit' = 0
      BY <2>1, <2>2 DEF Due, NextStep, NoEdit
    <2>4. QED
      BY <1>1, <1>3, <1>5, <2>1, <2>3
  <1>16. CASE ServerCrash
    <2>1. /\ job'["drop"].at = "idle" /\ job'["create"].at = "idle" /\ editor'.step = 0
          /\ Fault
      BY <1>16, CallerNames, NamesAssumption DEF ServerCrash, Idle, NoEdit
    <2>2. edit' = 0 /\ drop' = 0 /\ create' = 0
      BY <2>1 DEF Due
    <2>3. QED
      BY <1>1, <1>3, <2>1, <2>2
  <1>17. CASE (\E c \in Courses : ExpireMarker(c)) \/ UNCHANGED vars
    <2>1. UNCHANGED <<job, editor, counters>>
      BY <1>17 DEF ExpireMarker, vars
    <2>2. edit' = edit /\ drop' = drop /\ create' = create
      BY <2>1 DEF Due
    <2>3. QED
      BY <1>1, <1>3, <2>1, <2>2
  <1>18. QED
    BY <1>6, <1>7, <1>8, <1>9, <1>10, <1>11, <1>12, <1>13, <1>14, <1>15, <1>16, <1>17,
       NextCases
-----------------------------------------------------------------------------
(***************************************************************************)
(* The entries.                                                            *)
(***************************************************************************)
(* What the reservation of a place leaves in the two entries.              *)
TakesPlace(s, c) ==
  /\ cache[c] \in CourseEntry /\ cache[s] \in StudentEntry
  /\ cache[c].stock > 0 /\ c \notin cache[s].selected
  /\ cache[c].slot \notin cache[s].slots
  /\ cache' = [e \in Entries |-> cache'[e]]
  /\ cache'[c] = [cache[c] EXCEPT !.stock = cache[c].stock - 1]
  /\ cache'[s] = [cache[s] EXCEPT !.selected = cache[s].selected \cup {c},
                                  !.slots = cache[s].slots \cup ({cache[c].slot} \ {0}),
                                  !.used = cache[s].used + cache[c].credit]
  /\ \A e \in Entries \ {s, c} : cache'[e] = cache[e]
  /\ UNCHANGED marker

(* And its compensation.                                                   *)
GivesPlace(s, c) ==
  /\ cache[c] \in CourseEntry /\ cache[s] \in StudentEntry
  /\ c \in cache[s].selected
  /\ cache' = [e \in Entries |-> cache'[e]]
  /\ cache'[c] = [cache[c] EXCEPT !.stock = cache[c].stock + 1]
  /\ cache'[s] = [cache[s] EXCEPT !.selected = cache[s].selected \ {c},
                                  !.slots = cache[s].slots \ {cache[c].slot},
                                  !.used = FloorMinus(cache[s].used, cache[c].credit)]
  /\ \A e \in Entries \ {s, c} : cache'[e] = cache[e]
  /\ UNCHANGED marker

LEMMA Reserves ==
  ASSUME Jobs, CachesTyped, NEW p \in Callers, Reserve(p)
  PROVE  \E s \in Students, c \in Courses : job[p].key = <<s, c>> /\ TakesPlace(s, c)
  <1> PICK s, c : s = job[p].key[1] /\ c = job[p].key[2]
    OBVIOUS
  <1>1. /\ s \in Students /\ c \in Courses /\ s # c /\ job[p].key = <<s, c>>
        /\ s \in Entries /\ c \in Entries /\ s \notin Courses
    BY PendingKey, KeyParts, Statements DEF Reserve, At
  <1>2. /\ cache[c] # None /\ cache[s] # None
        /\ cache[c].stock > 0 /\ c \notin cache[s].selected
        /\ cache[c].slot \notin cache[s].slots
        /\ cache' = [cache EXCEPT ![c].stock = @ - 1,
                                  ![s].selected = @ \cup {c},
                                  ![s].slots = @ \cup ({cache[c].slot} \ {0}),
                                  ![s].used = @ + cache[c].credit]
        /\ UNCHANGED marker
    BY DEF Reserve, Reservable
  <1>3. cache[c] \in CourseEntry /\ cache[s] \in StudentEntry
    BY <1>1, <1>2 DEF CachesTyped, EntryOf
  <1>4. cache = [e \in Entries |-> cache[e]]
    BY DEF CachesTyped
  <1>5. /\ cache' = [e \in Entries |-> cache'[e]]
        /\ cache'[c] = [cache[c] EXCEPT !.stock = cache[c].stock - 1]
        /\ \A e \in Entries \ {s, c} : cache'[e] = cache[e]
    BY <1>1, <1>2, <1>4
  <1>6. cache'[s] = [cache[s] EXCEPT !.selected = cache[s].selected \cup {c},
                                     !.slots = cache[s].slots \cup ({cache[c].slot} \ {0}),
                                     !.used = cache[s].used + cache[c].credit]
    BY <1>1, <1>2, <1>3, <1>4 DEF StudentEntry
  <1>7. TakesPlace(s, c)
    BY <1>2, <1>3, <1>5, <1>6 DEF TakesPlace
  <1>8. QED
    BY <1>1, <1>7

LEMMA Releases ==
  ASSUME CachesTyped, NEW s \in Students, NEW c \in Courses,
         cache[c] # None, cache[s] # None, c \in cache[s].selected,
         cache' = Released(s, c), UNCHANGED marker
  PROVE  GivesPlace(s, c)
  <1>1. /\ s # c /\ s \in Entries /\ c \in Entries /\ s \notin Courses
    BY NamesAssumption DEF Entries
  <1>2. cache[c] \in CourseEntry /\ cache[s] \in StudentEntry
    BY <1>1 DEF CachesTyped, EntryOf
  <1>3. cache = [e \in Entries |-> cache[e]]
    BY DEF CachesTyped
  <1>4. /\ cache' = [e \in Entries |-> cache'[e]]
        /\ cache'[c] = [cache[c] EXCEPT !.stock = cache[c].stock + 1]
        /\ \A e \in Entries \ {s, c} : cache'[e] = cache[e]
    BY <1>1, <1>3 DEF Released
  <1>5. cache'[s] = [cache[s] EXCEPT !.selected = cache[s].selected \ {c},
                                     !.slots = cache[s].slots \ {cache[c].slot},
                                     !.used = FloorMinus(cache[s].used, cache[c].credit)]
    BY <1>1, <1>2, <1>3 DEF Released, StudentEntry
  <1>6. QED
    BY <1>2, <1>4, <1>5 DEF GivesPlace

LEMMA CourseEntries ==
  ASSUME NEW x \in CourseEntry, NEW n \in Nat
  PROVE  /\ [x EXCEPT !.stock = n] \in CourseEntry
         /\ [x EXCEPT !.stock = n].stock = n
         /\ [x EXCEPT !.stock = n].version = x.version
         /\ [x EXCEPT !.stock = n].asof = x.asof
         /\ [x EXCEPT !.stock = n].slot = x.slot
         /\ [x EXCEPT !.asof = n] \in CourseEntry
         /\ [x EXCEPT !.asof = n].stock = x.stock
         /\ [x EXCEPT !.asof = n].version = x.version
         /\ [x EXCEPT !.asof = n].slot = x.slot
         /\ [x EXCEPT !.asof = n].asof = n
  BY DEF CourseEntry

LEMMA StudentEntries ==
  ASSUME NEW x \in StudentEntry, NEW C \in SUBSET Courses, NEW B \in SUBSET Nat,
         NEW n \in Nat, NEW y, y = [x EXCEPT !.selected = C, !.slots = B, !.used = n]
  PROVE  /\ y \in StudentEntry /\ y.selected = C /\ y.slots = B
         /\ y.version = x.version /\ y.asof = x.asof
  BY DEF StudentEntry

LEMMA StudentStamped ==
  ASSUME NEW x \in StudentEntry, NEW n \in Nat, NEW y, y = [x EXCEPT !.asof = n]
  PROVE  /\ y \in StudentEntry /\ y.selected = x.selected /\ y.slots = x.slots
         /\ y.version = x.version /\ y.asof = n
  BY DEF StudentEntry

(* What is in the entries after a place is taken or given back.            *)
LEMMA PlaceTaken ==
  ASSUME NEW s \in Students, NEW c \in Courses, TakesPlace(s, c)
  PROVE  /\ cache[c] # None /\ cache[s] # None /\ cache'[c] # None /\ cache'[s] # None
         /\ cache'[c] \in CourseEntry /\ cache'[s] \in StudentEntry
         /\ cache'[c].stock = cache[c].stock - 1 /\ cache'[c].slot = cache[c].slot
         /\ cache'[s].selected = cache[s].selected \cup {c}
         /\ cache' = [e \in Entries |-> cache'[e]]
         /\ \A e \in Entries : e = s \/ e = c \/ cache'[e] = cache[e]
  <1>1. /\ cache'[c] \in CourseEntry /\ cache'[c].stock = cache[c].stock - 1
        /\ cache'[c].slot = cache[c].slot
    <2>1. cache[c] \in CourseEntry /\ cache[c].stock > 0
          /\ cache'[c] = [cache[c] EXCEPT !.stock = cache[c].stock - 1]
      BY DEF TakesPlace
    <2>2. cache[c].stock - 1 \in Nat
      BY <2>1 DEF CourseEntry
    <2>3. QED
      BY <2>1, <2>2 DEF CourseEntry
  <1>2. /\ cache'[s] \in StudentEntry
        /\ cache'[s].selected = cache[s].selected \cup {c}
    <2>1. cache[s] \in StudentEntry
          /\ cache'[s] = [cache[s] EXCEPT !.selected = cache[s].selected \cup {c},
                                          !.slots = cache[s].slots \cup ({cache[c].slot} \ {0}),
                                          !.used = cache[s].used + cache[c].credit]
      BY DEF TakesPlace
    <2>2. /\ cache[s].selected \cup {c} \in SUBSET Courses
          /\ cache[s].slots \cup ({cache[c].slot} \ {0}) \in SUBSET Nat
          /\ cache[s].used + cache[c].credit \in Nat
      <3>1. cache[c].slot \in Nat /\ cache[c].credit \in Nat
        BY DEF TakesPlace, CourseEntry
      <3>2. QED
        BY <2>1, <3>1 DEF StudentEntry
    <2>3. QED
      BY <2>1, <2>2 DEF StudentEntry
  <1>3. QED
    BY <1>1, <1>2, NoneAssumption DEF TakesPlace

LEMMA PlaceGiven ==
  ASSUME NEW s \in Students, NEW c \in Courses, GivesPlace(s, c)
  PROVE  /\ cache[c] # None /\ cache[s] # None /\ cache'[c] # None /\ cache'[s] # None
         /\ cache'[c] \in CourseEntry /\ cache'[s] \in StudentEntry
         /\ cache'[c].stock = cache[c].stock + 1 /\ cache'[c].slot = cache[c].slot
         /\ cache'[s].selected = cache[s].selected \ {c}
         /\ cache' = [e \in Entries |-> cache'[e]]
         /\ \A e \in Entries : e = s \/ e = c \/ cache'[e] = cache[e]
  <1>1. /\ cache'[c] \in CourseEntry /\ cache'[c].stock = cache[c].stock + 1
        /\ cache'[c].slot = cache[c].slot
    <2>1. cache[c] \in CourseEntry
          /\ cache'[c] = [cache[c] EXCEPT !.stock = cache[c].stock + 1]
      BY DEF GivesPlace
    <2>2. cache[c].stock + 1 \in Nat
      BY <2>1 DEF CourseEntry
    <2>3. QED
      BY <2>1, <2>2 DEF CourseEntry
  <1>2. /\ cache'[s] \in StudentEntry
        /\ cache'[s].selected = cache[s].selected \ {c}
    <2>1. cache[s] \in StudentEntry
          /\ cache'[s] = [cache[s] EXCEPT !.selected = cache[s].selected \ {c},
                                          !.slots = cache[s].slots \ {cache[c].slot},
                                          !.used = FloorMinus(cache[s].used, cache[c].credit)]
      BY DEF GivesPlace
    <2>2. /\ cache[s].selected \ {c} \in SUBSET Courses
          /\ cache[s].slots \ {cache[c].slot} \in SUBSET Nat
          /\ FloorMinus(cache[s].used, cache[c].credit) \in Nat
      <3>1. cache[c].credit \in Nat
        BY DEF GivesPlace, CourseEntry
      <3>2. QED
        BY <2>1, <3>1, FloorTyped DEF StudentEntry
    <2>3. QED
      BY <2>1, <2>2 DEF StudentEntry
  <1>3. QED
    BY <1>1, <1>2, NoneAssumption DEF GivesPlace

(* The ways the entries change.                                            *)
LEMMA CacheWritten ==
  ASSUME Jobs, CachesTyped, [Next]_vars
  PROVE  \/ \E p \in Callers, s \in Students, c \in Courses :
              Reserve(p) /\ job[p].key = <<s, c>> /\ TakesPlace(s, c)
         \/ \E p \in Callers, s \in Students, c \in Courses :
              /\ CleanUp(p) \/ CleanUpFirst(p)
              /\ job[p].key = <<s, c>> /\ GivesPlace(s, c)
         \/ \E g \in Goroutines : Write(g)
         \/ \E E : Invalidate(E)
         \/ UNCHANGED cache
         \/ ServerCrash /\ cache' = Preloaded /\ marker' = Unmarked(known)
  <1>1. ASSUME NEW p \in Callers, CleanUp(p) \/ CleanUpFirst(p)
        PROVE  \/ \E s \in Students, c \in Courses :
                    job[p].key = <<s, c>> /\ GivesPlace(s, c)
               \/ \E E : Invalidate(E)
    <2> PICK s, c : s = job[p].key[1] /\ c = job[p].key[2]
      OBVIOUS
    <2>1. s \in Students /\ c \in Courses /\ job[p].key = <<s, c>>
      BY <1>1, PendingKey, Statements DEF CleanUp, CleanUpFirst
    <2>2. \/ /\ cache[c] # None /\ cache[s] # None /\ c \in cache[s].selected
             /\ cache' = Released(s, c) /\ UNCHANGED marker
          \/ \E E : Invalidate(E)
      BY <1>1 DEF CleanUp, CleanUpFirst, Compensate
    <2>3. QED
      BY <2>1, <2>2, Releases
  <1>2. ASSUME NEW p \in Callers, Forget(p) \/ CleanUpFails(p)
        PROVE  UNCHANGED cache \/ \E E : Invalidate(E)
    BY <1>2 DEF Forget, CleanUpFails
  <1>3. ASSUME RefreshFails \/ DeleteEntry PROVE UNCHANGED cache \/ \E E : Invalidate(E)
    BY <1>3 DEF RefreshFails, DeleteEntry
  <1>4. ASSUME NEW p \in Callers, Submit(p) \/ Call(p) \/ CallFails(p) \/ ReleaseFails(p)
                                  \/ Accept(p) \/ Refuse(p)
        PROVE  \/ Reserve(p) \/ Write(p) \/ Forget(p) \/ UNCHANGED cache
    BY <1>4 DEF Submit, Call, Look, Acquire, Recheck, WaitEnds, Release, Read, Join,
                Mark, Refused, CallFails, ReleaseFails, Accept, Refuse
  <1>5. ServerCrash => UNCHANGED cache \/ (cache' = Preloaded /\ marker' = Unmarked(known))
    BY DEF ServerCrash
  <1>6. ASSUME \/ \E e \in Entries : ExpireLock(e) \/ StartEdit(e)
               \/ \E k \in Keys : Drop(k)
               \/ \E g \in {"drop", "create"} : Read(g) \/ Join(g)
               \/ \E c \in Courses : CreateCourse(c) \/ ExpireMarker(c)
               \/ WarmUpFails \/ EditRow \/ UNCHANGED vars
        PROVE  UNCHANGED cache
    BY <1>6 DEF ExpireLock, StartEdit, Drop, Read, Join, CreateCourse, ExpireMarker,
                WarmUpFails, EditRow, vars
  <1>7. ASSUME NEW p \in Callers, Reserve(p)
        PROVE  \E s \in Students, c \in Courses : job[p].key = <<s, c>> /\ TakesPlace(s, c)
    BY <1>7, Reserves
  <1>8. CASE \E p \in Callers : CallerStep(p)
    <2>1. PICK p \in Callers : CallerStep(p)
      BY <1>8
    <2>2. \/ Reserve(p) \/ CleanUp(p) \/ CleanUpFirst(p) \/ CleanUpFails(p)
          \/ Write(p) \/ Forget(p) \/ UNCHANGED cache
      BY <1>4, <2>1 DEF CallerStep
    <2>3. QED
      BY <1>1, <1>2, <1>7, <2>2, CallerNames
  <1>9. QED
    BY <1>3, <1>5, <1>6, <1>8, CallerNames, NextCases DEF RefreshStep

(* What a refresh puts in the cache.                                       *)
LEMMA Writes ==
  ASSUME Jobs, Tables, CachesTyped, NEW g \in Goroutines, Write(g), NEW e, e = job[g].entry
  PROVE  /\ e \in Entries /\ job[g].at = "write" /\ job[g].copy \in EntryOf(e)
         /\ cache' = [d \in Entries |-> cache'[d]]
         /\ cache'[e] = [job[g].copy EXCEPT !.asof = VersionOf(e)]
         /\ VersionOf(e) \in Nat
         /\ cache'[e] \in EntryOf(e)
         /\ \A d \in Entries \ {e} : cache'[d] = cache[d]
  <1>1. /\ job[g].at = "write" /\ JobOK(known, g, job[g])
        /\ cache' = [cache EXCEPT ![e] = [job[g].copy EXCEPT !.asof = VersionOf(e)]]
    BY DEF Write, Jobs, At
  <1>2. e \in Entries /\ job[g].copy \in EntryOf(e)
    <2>1. job[g].copy \in EntryOf(e)
      BY <1>1 DEF JobOK
    <2>2. e \in Entries
      BY <1>1, KeyParts, Statements DEF JobOK, Goroutines, Entries, Tables
    <2>3. QED
      BY <2>1, <2>2
  <1>3. VersionOf(e) \in Nat
    BY <1>2, RowTyped
  <1>4. [job[g].copy EXCEPT !.asof = VersionOf(e)] \in EntryOf(e)
    BY <1>2, <1>3, CourseEntries, StudentStamped DEF EntryOf
  <1>5. QED
    BY <1>1, <1>2, <1>3, <1>4 DEF CachesTyped

(* The missing markers are removed in bulk, and set one at a time.         *)
LEMMA MarkersWritten ==
  ASSUME [Next]_vars
  PROVE  (\E E : marker' = Unmarked(E)) \/ UNCHANGED marker \/ \E p \in Callers : Mark(p)
  <1>1. ASSUME NEW p \in Callers, CallerStep(p)
        PROVE  (\E E : marker' = Unmarked(E)) \/ UNCHANGED marker \/ Mark(p)
    BY <1>1 DEF CallerStep, Submit, Call, Look, Acquire, Recheck, WaitEnds, Release,
                Read, Join, Write, Forget, Reserve, Refused, CallFails,
                ReleaseFails, Accept, Refuse, CleanUp, CleanUpFirst, CleanUpFails,
                Compensate, Invalidate
  <1>2. ASSUME NEW g \in {"drop", "create"}, RefreshStep(g)
        PROVE  (\E E : marker' = Unmarked(E)) \/ UNCHANGED marker
    BY <1>2 DEF RefreshStep, Read, Join, Write
  <1>3. ASSUME \/ \E e \in Entries : ExpireLock(e) \/ StartEdit(e)
               \/ \E k \in Keys : Drop(k)
               \/ \E c \in Courses : CreateCourse(c) \/ ExpireMarker(c)
               \/ RefreshFails \/ WarmUpFails \/ EditRow \/ DeleteEntry \/ ServerCrash
               \/ UNCHANGED vars
        PROVE  (\E E : marker' = Unmarked(E)) \/ UNCHANGED marker
    BY <1>3 DEF ExpireLock, StartEdit, Drop, CreateCourse, ExpireMarker, WarmUpFails,
                RefreshFails, EditRow, DeleteEntry, ServerCrash, Invalidate, vars
  <1>4. QED
    BY <1>1, <1>2, <1>3, NextCases

LEMMA MarkersTyped ==
  ASSUME CachesTyped, [Next]_vars
  PROVE  marker' \in [Courses -> {"none", "right", "late"}]
  <1>1. marker \in [Courses -> {"none", "right", "late"}]
    BY DEF CachesTyped
  <1>2. \A E : Unmarked(E) \in [Courses -> {"none", "right", "late"}]
    BY <1>1 DEF Unmarked
  <1>3. CASE (\E E : marker' = Unmarked(E)) \/ UNCHANGED marker
    BY <1>1, <1>2, <1>3
  <1>4. ASSUME NEW p \in Callers, Mark(p)
        PROVE  marker' \in [Courses -> {"none", "right", "late"}]
    BY <1>1, <1>4 DEF Mark
  <1>5. QED
    BY <1>3, <1>4, MarkersWritten

LEMMA CachesNext == Jobs /\ Tables /\ CachesTyped /\ [Next]_vars => CachesTyped'
  <1> SUFFICES ASSUME Jobs, Tables, CachesTyped, [Next]_vars PROVE CachesTyped'
    OBVIOUS
  <1>1. /\ marker' \in [Courses -> {"none", "right", "late"}]
        /\ cache = [e \in Entries |-> cache[e]]
        /\ \A e \in Entries : cache[e] = None \/ cache[e] \in EntryOf(e)
    BY MarkersTyped DEF CachesTyped
  <1>2. ASSUME NEW s \in Students, NEW c \in Courses, TakesPlace(s, c) PROVE CachesTyped'
    BY <1>1, <1>2, PlaceTaken, NamesAssumption DEF CachesTyped, EntryOf
  <1>3. ASSUME NEW s \in Students, NEW c \in Courses, GivesPlace(s, c) PROVE CachesTyped'
    BY <1>1, <1>3, PlaceGiven, NamesAssumption DEF CachesTyped, EntryOf
  <1>4. ASSUME NEW g \in Goroutines, Write(g) PROVE CachesTyped'
    BY <1>1, <1>4, Writes DEF CachesTyped
  <1>5. ASSUME NEW E, Invalidate(E) PROVE CachesTyped'
    BY <1>1, <1>5 DEF Invalidate, CachesTyped
  <1>6. CASE cache' = Preloaded
    BY <1>1, <1>6, PreloadedTyped DEF CachesTyped
  <1>7. CASE UNCHANGED cache
    BY <1>1, <1>7 DEF CachesTyped
  <1>8. QED
    BY <1>2, <1>3, <1>4, <1>5, <1>6, <1>7, CacheWritten
-----------------------------------------------------------------------------
LEMMA TypingInit == Init => Typing
  <1> SUFFICES ASSUME Init PROVE Typing
    OBVIOUS
  <1>1. Jobs
    BY IdleOK DEF Init, Jobs
  <1>2. Tables
    <2>1. students \in [Students -> [used : Nat, limit : Int, version : Nat]]
      <3>1. [used : {0}, limit : Limits, version : {0}]
              \subseteq [used : Nat, limit : Int, version : Nat]
        <4>1. ASSUME NEW row \in [used : {0}, limit : Limits, version : {0}]
              PROVE  row \in [used : Nat, limit : Int, version : Nat]
          <5>1. Limits \subseteq Int
            BY ColumnsAssumption
          <5>2. row.limit \in Int /\ row.used \in Nat /\ row.version \in Nat
            <6>1. row.limit \in Limits /\ row.used = 0 /\ row.version = 0
              BY <4>1
            <6>2. row.limit \in Int
              BY <5>1, <6>1
            <6>3. QED
              BY <6>1, <6>2
          <5>3. row = [used |-> row.used, limit |-> row.limit, version |-> row.version]
            BY <4>1
          <5>4. QED
            BY <5>2, <5>3
        <4>2. QED
          BY <4>1
      <3>2. students \in [Students -> [used : {0}, limit : Limits, version : {0}]]
        BY DEF Init
      <3>3. QED
        BY <3>1, <3>2
    <2>2. courses \in [Courses -> CourseRow]
      <3>1. \A c \in Courses : Offered[c] \in [status : {0, 1}, capacity : Nat,
                                               slot : Nat, credit : Nat]
        BY ColumnsAssumption DEF Columns
      <3>2. \A c \in Courses : courses[c] \in CourseRow
        BY <3>1 DEF Init, CourseRow
      <3>3. QED
        BY <3>2 DEF Init
    <2>3. QED
      BY <2>1, <2>2, ColumnsAssumption DEF Init, Tables
  <1>3. CachesTyped
    <2>1. CASE cache = [e \in Entries |-> None]
      BY <2>1 DEF Init, CachesTyped
    <2>2. CASE cache = Preloaded
      BY <1>2, <2>2, PreloadedTyped DEF Init, CachesTyped
    <2>3. QED
      BY <2>1, <2>2 DEF Init
  <1>4. LocksTyped /\ EditTyped
    BY DEF Init, NoEdit, LocksTyped, EditTyped
  <1>5. Budget
    <2>1. job["drop"].at = "idle" /\ job["create"].at = "idle"
      BY CallerNames DEF Init, Idle
    <2>2. QED
      BY <2>1, BoundAssumption DEF Init, NoEdit, Budget, Due
  <1>6. QED
    BY <1>1, <1>2, <1>3, <1>4, <1>5 DEF Typing

LEMMA TypingNext == Typing /\ [Next]_vars => Typing'
  BY JobsNext, TablesNext, CachesNext, LocksNext, EditNext, BudgetNext
  DEF Typing

LEMMA TypingAlways == Spec => []Typing
  <1>1. QED
    BY TypingInit, TypingNext, PTL DEF Spec

(* Entries, markers, locks and jobs stay what the scripts and the code     *)
(* expect: no stock in Redis and no counter in MySQL ever falls below      *)
(* zero, whatever overlaps with whatever, a lock is held by a caller, and  *)
(* an edit, a drop or a warm-up fails at most once.                        *)
THEOREM TypesCorrect == Spec => []TypeOK
  <1>1. Typing => TypeOK
    <2> SUFFICES ASSUME Typing PROVE TypeOK
      OBVIOUS
    <2>1. ASSUME NEW g \in Goroutines
          PROVE  /\ job[g].at \in Active \cup {"idle", "pending", "cleanup", "again", "done"}
                 /\ job[g].key \in Keys \cup {None}
                 /\ job[g].entry \in Entries \cup {None}
      BY DEF Typing, Jobs, JobOK, JobRecord, Statement
    <2>2. \A c \in Courses : cache[c] = None \/ cache[c] \in CourseEntry
      BY DEF Typing, CachesTyped, EntryOf, Entries
    <2>3. \A s \in Students : cache[s] = None \/ cache[s] \in StudentEntry
      BY NamesAssumption DEF Typing, CachesTyped, EntryOf, Entries
    <2>4. faults \in 0..disturbances /\ disturbances \in 0..MaxDisturbances
      BY DEF Typing, Budget, Due
    <2>5. QED
      BY <2>1, <2>2, <2>3, <2>4
      DEF TypeOK, Typing, Tables, CachesTyped, LocksTyped, EditTyped
  <1>2. QED
    BY <1>1, TypingAlways, PTL
-----------------------------------------------------------------------------
(***************************************************************************)
(* The rebuild lock.                                                       *)
(***************************************************************************)
(* A caller in the section the lock protects holds it, until it expires.   *)
Protected == InRebuild \cup Leaving
LockKept == \A p \in Callers \ late : job[p].at \in Protected => lock[job[p].entry] = p

LEMMA ProtectedSteps ==
  Protected = {"recheck", "read", "join", "write", "forget", "mark", "release", "quit"}
  BY DEF Protected, InRebuild, Leaving

(* A step of one caller takes no lock from another.                        *)
LEMMA OwnLock ==
  ASSUME Typing, LockKept, NEW p \in Callers, CallerStep(p)
  PROVE  LockKept'
  <1>1. /\ \A q \in Callers \ {p} : job'[q] = job[q]
        /\ lock \in [Entries -> Callers \cup {None}] /\ JobOK(known, p, job[p])
        /\ \A q \in Callers : q \in Goroutines /\ q # None
        /\ DOMAIN job = Goroutines
    BY Alone, CallerNames DEF Typing, LocksTyped, Jobs
  <1>2. ASSUME late \subseteq late' \cup {p},
               \A q \in Callers \ {p}, e \in Entries : lock[e] = q => lock'[e] = q,
               \/ p \in late' \/ job'[p].at \notin Protected
               \/ lock'[job'[p].entry] = p
        PROVE  LockKept'
    <2>1. ASSUME NEW q \in Callers \ late', job'[q].at \in Protected, q # p
          PROVE  lock'[job'[q].entry] = q
      <3>1. job'[q] = job[q] /\ job[q].at \in Active /\ q \notin late
        BY <1>1, <1>2, <2>1, ProtectedSteps, Statements
      <3>2. job[q].entry \in Entries
        BY <2>1, <3>1, JobParts, CallerNames DEF Typing, Jobs
      <3>3. QED
        BY <1>2, <2>1, <3>1, <3>2 DEF LockKept
    <2>2. QED
      BY <1>2, <2>1 DEF LockKept
  <1>3. ASSUME UNCHANGED <<lock, late>>,
               \/ job'[p].at \notin Protected
               \/ job[p].at \in Protected /\ job'[p].entry = job[p].entry
        PROVE  LockKept'
    BY <1>2, <1>3 DEF LockKept
  <1>4. \A x : Goto(p, x) => job'[p].at = x /\ job'[p].entry = job[p].entry
    BY <1>1 DEF Goto, JobOK, JobRecord
  <1>5. Ready(p) => job'[p].at \in {"look", "reserve"}
    BY <1>1 DEF Ready, JobOK, JobRecord
  <1>6. CASE \/ Submit(p) \/ Look(p) \/ WaitEnds(p) \/ Reserve(p) \/ Refused(p)
             \/ Accept(p) \/ Refuse(p) \/ CleanUp(p) \/ CleanUpFirst(p) \/ CleanUpFails(p)
    <2>1. job'[p].at \notin Protected
      <3>1. Submit(p) => job'[p].at = "look"
        BY <1>1 DEF Submit
      <3>2. Reserve(p) \/ CleanUp(p) \/ CleanUpFirst(p) \/ Accept(p) =>
              Goto(p, "pending") \/ Goto(p, "again") \/ Goto(p, "done")
        BY DEF Reserve, CleanUp, CleanUpFirst, Accept
      <3>3. Look(p) => Goto(p, "done") \/ Goto(p, "acquire") \/ Ready(p)
        BY DEF Look
      <3>4. WaitEnds(p) \/ Refused(p) \/ Refuse(p) =>
              Goto(p, "done") \/ Goto(p, "cleanup") \/ Ready(p)
        BY DEF WaitEnds, Refused, Refuse
      <3>5. CleanUpFails(p) => job'[p].at \in {"cleanup", "again"}
        BY DEF CleanUpFails
      <3>6. QED
        BY <1>4, <1>5, <1>6, <3>1, <3>2, <3>3, <3>4, <3>5, ProtectedSteps
    <2>2. UNCHANGED <<lock, late>>
      BY <1>6 DEF Submit, Look, WaitEnds, Reserve, Refused, Accept, Refuse, CleanUp,
                  CleanUpFirst, CleanUpFails
    <2>3. QED
      BY <1>3, <2>1, <2>2
  <1>7. CASE Acquire(p)
    <2>1. /\ job[p].entry \in Entries /\ UNCHANGED late
          /\ \/ lock[job[p].entry] = None /\ lock' = [lock EXCEPT ![job[p].entry] = p]
                /\ job'[p].entry = job[p].entry
             \/ UNCHANGED lock /\ job'[p].at = "wait"
      BY <1>1, <1>4, <1>7, JobParts, Statements DEF Acquire, At
    <2>2. CASE UNCHANGED lock /\ job'[p].at = "wait"
      BY <1>2, <2>1, <2>2, ProtectedSteps
    <2>3. CASE /\ lock[job[p].entry] = None /\ lock' = [lock EXCEPT ![job[p].entry] = p]
               /\ job'[p].entry = job[p].entry
      <3>1. \A q \in Callers \ {p}, e \in Entries : lock[e] = q => lock'[e] = q
        BY <1>1, <2>3
      <3>2. lock'[job'[p].entry] = p
        BY <1>1, <2>1, <2>3
      <3>3. QED
        BY <1>2, <2>1, <3>1, <3>2
    <2>4. QED
      BY <2>1, <2>2, <2>3
  <1>8. CASE Recheck(p) \/ Read(p) \/ Join(p) \/ Forget(p) \/ Mark(p)
    <2>1. UNCHANGED <<lock, late>> /\ job[p].at \in Protected
      BY <1>8, ProtectedSteps DEF Recheck, Read, Join, Forget, Mark, At
    <2>2. job'[p].entry = job[p].entry
      BY <1>1, <1>4, <1>8 DEF Recheck, Read, Join, Forget, Mark, JobOK, JobRecord
    <2>3. QED
      BY <1>3, <2>1, <2>2
  <1>9. CASE Write(p)
    <2>1. UNCHANGED <<lock, late>> /\ job[p].at \in Protected /\ Goto(p, "release")
      BY <1>9, ProtectedSteps DEF Write, AfterWrite, At
    <2>2. QED
      BY <1>3, <1>4, <2>1
  <1>10. CASE Release(p) \/ ReleaseFails(p) \/ CallFails(p)
    <2>1. /\ late' = late \ {p}
          /\ \/ UNCHANGED lock
             \/ lock' = [lock EXCEPT ![job[p].entry] = IF @ = p THEN None ELSE @]
      BY <1>10 DEF Release, ReleaseFails, CallFails
    <2>2. job'[p].at \notin Protected
      BY <1>4, <1>5, <1>10, ProtectedSteps DEF Release, ReleaseFails, CallFails, Leave
    <2>3. \A q \in Callers \ {p}, e \in Entries : lock[e] = q => lock'[e] = q
      BY <1>1, <2>1
    <2>4. QED
      BY <1>2, <2>1, <2>2, <2>3
  <1>11. QED
    BY <1>6, <1>7, <1>8, <1>9, <1>10 DEF CallerStep, Call

LEMMA LockKeptNext == Typing /\ LockKept /\ [Next]_vars => LockKept'
  <1> SUFFICES ASSUME Typing, LockKept, [Next]_vars PROVE LockKept'
    OBVIOUS
  <1>1. ASSUME UNCHANGED <<lock, late>>, \A p \in Callers : job'[p] = job[p]
        PROVE  LockKept'
    BY <1>1 DEF LockKept
  <1>2. ASSUME NEW g \in {"drop", "create"}, RefreshStep(g) PROVE LockKept'
    <2>1. \A p \in Callers : job'[p] = job[p]
      BY <1>2, Alone, CallerNames DEF Typing
    <2>2. UNCHANGED <<lock, late>>
      BY <1>2 DEF RefreshStep, Read, Join, Write
    <2>3. QED
      BY <1>1, <2>1, <2>2
  <1>3. ASSUME NEW e \in Entries, ExpireLock(e) PROVE LockKept'
    <2>1. /\ UNCHANGED job /\ lock' = [lock EXCEPT ![e] = None]
          /\ late' = late \cup {p \in Callers : /\ lock[e] = p /\ job[p].entry = e
                                               /\ job[p].at \in Protected}
      BY <1>3 DEF ExpireLock, Protected
    <2>2. QED
      BY <2>1 DEF LockKept, Typing, LocksTyped
  <1>4. CASE \/ \E k \in Keys : Drop(k)
             \/ \E c \in Courses : CreateCourse(c)
             \/ RefreshFails \/ WarmUpFails
    <2>1. \A p \in Callers : job'[p] = job[p]
      BY <1>4, CallerNames DEF Drop, CreateCourse, RefreshFails, WarmUpFails, Typing, Jobs
    <2>2. UNCHANGED <<lock, late>>
      BY <1>4 DEF Drop, CreateCourse, RefreshFails, WarmUpFails
    <2>3. QED
      BY <1>1, <2>1, <2>2
  <1>5. CASE ServerCrash
    <2>1. \A p \in Callers : job'[p].at \notin Protected
      BY <1>5, CallerNames, Statements, ProtectedSteps
      DEF ServerCrash, Typing, Jobs, JobOK, JobRecord
    <2>2. QED
      BY <2>1 DEF LockKept
  <1>6. CASE \/ \E e \in Entries : StartEdit(e)
             \/ \E c \in Courses : ExpireMarker(c)
             \/ EditRow \/ DeleteEntry \/ UNCHANGED vars
    BY <1>1, <1>6 DEF StartEdit, ExpireMarker, EditRow, DeleteEntry, vars
  <1>7. QED
    BY <1>2, <1>3, <1>4, <1>5, <1>6, NextCases, OwnLock

LEMMA LockKeptAlways == Spec => []LockKept
  <1>1. Init => LockKept
    BY CallerNames, ProtectedSteps DEF Init, LockKept, Idle
  <1>2. QED
    BY <1>1, LockKeptNext, TypingAlways, PTL DEF Spec

(* Two callers rebuild the same entry at once only if the lock of one of   *)
(* them expired before it was done: SETNX, the token and the comparison in *)
(* the release script keep all others apart, also when holders fail, die   *)
(* with the server, or come back late and release.                         *)
THEOREM RebuildsApart == Spec => []OneRebuilder
  <1>1. LockKept => OneRebuilder
    BY DEF LockKept, OneRebuilder, Protected
  <1>2. QED
    BY <1>1, LockKeptAlways, PTL
-----------------------------------------------------------------------------
(***************************************************************************)
(* What a refresh carries from MySQL to Redis.                             *)
(***************************************************************************)
(* The parts of the records of a goroutine that steps.                     *)
LEMMA NextJob ==
  ASSUME Typing, NEW g \in Goroutines
  PROVE  /\ \A x : Goto(g, x) => job'[g].at = x /\ job'[g].entry = job[g].entry
                                 /\ job'[g].key = job[g].key /\ job'[g].copy = job[g].copy
         /\ Ready(g) => job'[g].at \in {"look", "reserve"}
         /\ AfterWrite(g) => job'[g].at \in {"release", "read", "idle"}
  <1>1. /\ job[g] \in JobRecord /\ DOMAIN job = Goroutines
    BY DEF Typing, Jobs, JobOK
  <1>2. \A x : Goto(g, x) => job'[g].at = x /\ job'[g].entry = job[g].entry
                              /\ job'[g].key = job[g].key /\ job'[g].copy = job[g].copy
    BY <1>1 DEF Goto, JobRecord
  <1>3. Ready(g) => job'[g].at \in {"look", "reserve"}
    BY <1>1 DEF Ready, JobRecord
  <1>4. AfterWrite(g) => job'[g].at \in {"release", "read", "idle"}
    <2>1. CASE g \in Callers
      BY <1>2, <2>1 DEF AfterWrite
    <2>2. ASSUME AfterWrite(g), g \notin Callers, g = "drop", job[g].entry \in Courses
          PROVE  job'[g].at = "read"
      <3>1. job' = [job EXCEPT ![g] = [job[g] EXCEPT !.at = "read",
                      !.entry = job[g].key[1], !.copy = None]]
        BY <2>2 DEF AfterWrite
      <3>2. QED
        BY <1>1, <3>1 DEF JobRecord
    <2>3. ASSUME AfterWrite(g), g \notin Callers, ~ (g = "drop" /\ job[g].entry \in Courses)
          PROVE  job'[g].at = "idle"
      <3>1. job' = [job EXCEPT ![g] = Idle]
        BY <2>3 DEF AfterWrite
      <3>2. QED
        BY <1>1, <3>1 DEF Idle
    <2>4. QED
      BY <2>1, <2>2, <2>3
  <1>5. QED
    BY <1>2, <1>3, <1>4

(* What one step may do to the row of a course.                            *)
LEMMA RowsNext ==
  ASSUME Typing, [Next]_vars, NEW c \in Courses
  PROVE  /\ courses[c] \in CourseRow /\ courses'[c] \in CourseRow
         /\ \/ EditRow /\ editor.entry = c
            \/ /\ courses'[c].version = courses[c].version
               /\ courses'[c].capacity = courses[c].capacity
               /\ courses'[c].slot = courses[c].slot
               /\ courses'[c].status = courses[c].status \/ CreateCourse(c)
         /\ EditRow /\ editor.entry = c =>
              /\ courses'[c].version = courses[c].version + 1
              /\ \/ courses'[c].slot = courses[c].slot
                 \/ {courses[c].slot, courses'[c].slot} \subseteq shifted'
  <1> DEFINE Kept(d) == /\ courses'[d].version = courses[d].version
                        /\ courses'[d].capacity = courses[d].capacity
                        /\ courses'[d].slot = courses[d].slot
                        /\ courses'[d].status = courses[d].status
  <1>1. /\ courses \in [Courses -> CourseRow] /\ Jobs /\ Tables /\ EditTyped
        /\ \A d \in Courses : courses[d] \in CourseRow
        /\ courses[c] \in CourseRow /\ courses'[c] \in CourseRow
    BY CoursesNext DEF Typing, Tables
  <1>2. ASSUME NEW p \in Callers, Accept(p) PROVE Kept(c)
    <2> DEFINE d == job[p].key[2]
               n == courses[d].selected + 1
    <2>1. /\ d \in Courses /\ n \in Nat
          /\ courses' = [courses EXCEPT ![d] = [courses[d] EXCEPT !.selected = n]]
      BY <1>1, <1>2, CourseWritten
    <2> HIDE DEF d, n
    <2>2. courses'[c] = courses[c] \/ (c = d /\ courses'[c] = [courses[d] EXCEPT !.selected = n])
      BY <1>1, <2>1
    <2>3. QED
      BY <1>1, <2>1, <2>2, CourseRows
  <1>3. ASSUME NEW k \in Keys, Drop(k) PROVE Kept(c)
    <2> DEFINE d == k[2]
               n == FloorMinus(courses[d].selected, 1)
    <2>1. /\ d \in Courses /\ n \in Nat
          /\ courses' = [courses EXCEPT ![d] = [courses[d] EXCEPT !.selected = n]]
      BY <1>1, <1>3, CourseWritten
    <2> HIDE DEF d, n
    <2>2. courses'[c] = courses[c] \/ (c = d /\ courses'[c] = [courses[d] EXCEPT !.selected = n])
      BY <1>1, <2>1
    <2>3. QED
      BY <1>1, <2>1, <2>2, CourseRows
  <1>4. ASSUME NEW d \in Courses, CreateCourse(d)
        PROVE  Kept(c) \/ /\ CreateCourse(c)
                          /\ courses'[c].version = courses[c].version
                          /\ courses'[c].capacity = courses[c].capacity
                          /\ courses'[c].slot = courses[c].slot
    <2>1. PICK n \in {0, 1} :
            courses' = [courses EXCEPT ![d] = [courses[d] EXCEPT !.status = n]]
      BY <1>1, <1>4, CourseWritten
    <2>2. courses'[c] = courses[c] \/ (c = d /\ courses'[c] = [courses[d] EXCEPT !.status = n])
      BY <1>1, <2>1
    <2>3. QED
      BY <1>1, <1>4, <2>1, <2>2, CourseRows
  <1>5. ASSUME EditRow
        PROVE  /\ editor.entry # c => Kept(c)
               /\ editor.entry = c =>
                    /\ courses'[c].version = courses[c].version + 1
                    /\ \/ courses'[c].slot = courses[c].slot
                       \/ {courses[c].slot, courses'[c].slot} \subseteq shifted'
    <2> DEFINE e == editor.entry
               row == Edited(courses[e], editor.edit)
    <2>1. CASE e \in Students /\ UNCHANGED <<courses, shifted>>
      BY <2>1, NamesAssumption
    <2>2. CASE /\ e \in Courses /\ editor.edit \in CourseEdits
               /\ courses' = [courses EXCEPT ![e] = row]
               /\ shifted' = IF editor.edit.slot = courses[e].slot THEN shifted
                             ELSE shifted \cup {courses[e].slot, editor.edit.slot}
      <3> HIDE DEF e, row
      <3>1. courses[e] \in CourseRow
        BY <1>1, <2>2
      <3>2. /\ Edited(courses[e], editor.edit).slot = editor.edit.slot
            /\ Edited(courses[e], editor.edit).version = courses[e].version + 1
        BY <2>2, <3>1, CourseRows
      <3>3. courses'[e] = row /\ (c # e => courses'[c] = courses[c])
        BY <1>1, <2>2
      <3>4. row.slot = editor.edit.slot /\ row.version = courses[e].version + 1
        BY <3>2 DEF row
      <3>5. QED
        BY <2>2, <3>3, <3>4 DEF e
    <2>3. QED
      BY <1>1, <1>5, <2>1, <2>2, CourseWritten
  <1>6. CASE UNCHANGED mysql /\ ~EditRow
    BY <1>1, <1>6
  <1> HIDE DEF Kept
  <1>7. CASE EditRow
    BY <1>1, <1>5, <1>7 DEF Kept
  <1>8. CASE ~EditRow
    BY <1>1, <1>2, <1>3, <1>4, <1>6, <1>8, TablesWritten DEF Kept
  <1>9. QED
    BY <1>7, <1>8

(* A copy of a row is made by Read, completed by Join, and otherwise kept. *)
LEMMA Copying ==
  ASSUME Typing, [Next]_vars, NEW g \in Goroutines, job'[g].at \in {"join", "write"}
  PROVE  \/ job'[g] = job[g]
         \/ /\ Read(g) /\ job'[g].entry = job[g].entry /\ job[g].entry \in Entries
            /\ job'[g].copy = Row(job[g].entry)
            /\ job'[g].at = "write" => job'[g].entry \in Courses
         \/ /\ Join(g) /\ job[g].at = "join" /\ job'[g].entry = job[g].entry
            /\ job[g].entry \in Students /\ job[g].copy \in StudentEntry
            /\ job'[g].copy = Joined(job[g].entry, job[g].copy)
  <1>1. /\ job[g] \in JobRecord /\ DOMAIN job = Goroutines /\ JobOK(known, g, job[g])
        /\ JobOK(known', g, job'[g])
    BY TypingNext DEF Typing, Jobs, JobOK
  <1>2. CASE Read(g)
    <2>1. job[g].entry \notin Courses \ known
      BY <1>2, NextJob DEF Read
    <2>2. job' = [job EXCEPT ![g].at = IF job[g].entry \in Courses THEN "write" ELSE "join",
                             ![g].copy = Row(job[g].entry)]
      BY <1>2, <2>1 DEF Read
    <2>3. /\ job'[g].entry = job[g].entry /\ job'[g].copy = Row(job[g].entry)
          /\ job'[g].at = "write" => job'[g].entry \in Courses
      BY <1>1, <2>2 DEF JobRecord
    <2>4. job[g].entry \in Entries
      BY <1>1, <1>2, CallerNames, KeyParts, Statements
      DEF Read, At, JobOK, Goroutines, Entries, Typing, Tables
    <2>5. QED
      BY <1>2, <2>3, <2>4
  <1>3. CASE Join(g)
    <2>1. job' = [job EXCEPT ![g].at = "write", ![g].copy = Joined(job[g].entry, @)]
          /\ job[g].at = "join"
      BY <1>3 DEF Join, At
    <2>2. /\ job'[g].entry = job[g].entry
          /\ job'[g].copy = Joined(job[g].entry, job[g].copy)
      BY <1>1, <2>1 DEF JobRecord
    <2>3. job[g].entry \in Students /\ job[g].copy \in StudentEntry
      BY <1>1, <2>1, NamesAssumption DEF JobOK, EntryOf
    <2>4. QED
      BY <1>3, <2>1, <2>2, <2>3
  <1>4. ~Write(g)
    BY NextJob DEF Write
  <1>5. ASSUME NEW p \in Callers, CallerStep(p), p # g PROVE job'[g] = job[g]
    BY <1>5, Alone, CallerNames DEF Typing
  <1>6. ASSUME NEW h \in {"drop", "create"}, RefreshStep(h), h # g PROVE job'[g] = job[g]
    BY <1>6, Alone, CallerNames DEF Typing
  <1>7. ASSUME g \in Callers, CallerStep(g), ~Read(g), ~Join(g) PROVE job'[g] = job[g]
    <2>1. ~Submit(g)
      BY <1>1 DEF Submit
    <2>2. ~ (\/ Look(g) \/ Acquire(g) \/ Recheck(g) \/ WaitEnds(g) \/ Release(g)
             \/ Forget(g) \/ Mark(g) \/ Refused(g) \/ CallFails(g) \/ ReleaseFails(g)
             \/ Refuse(g))
      <3>1. \A x : Goto(g, x) => x \in {"join", "write"}
        BY NextJob
      <3>2. ~Ready(g) /\ (Leave(g) => FALSE)
        BY <3>1, NextJob DEF Leave
      <3>3. Recheck(g) => \E x \in {"quit", "release", "read"} : Goto(g, x)
        BY DEF Recheck
      <3>4. QED
        BY <3>1, <3>2, <3>3 DEF Look, Acquire, WaitEnds, Release, Forget, Mark, Refused,
                       CallFails, ReleaseFails, Refuse
    <2>3. ~Reserve(g) /\ ~Accept(g) /\ ~CleanUp(g) /\ ~CleanUpFirst(g)
      <3>1. Reserve(g) \/ Accept(g) \/ CleanUp(g) \/ CleanUpFirst(g) =>
              Goto(g, "pending") \/ Goto(g, "again") \/ Goto(g, "done")
        BY DEF Reserve, CleanUp, CleanUpFirst, Accept
      <3>2. QED
        BY <3>1, NextJob
    <2>4. QED
      BY <1>4, <1>7, <2>1, <2>2, <2>3 DEF CallerStep, Call, CleanUpFails
  <1>8. ASSUME \/ \E k \in Keys : Drop(k)
               \/ \E c \in Courses : CreateCourse(c)
               \/ RefreshFails \/ WarmUpFails
        PROVE  job'[g] = job[g]
    <2>1. ASSUME NEW h \in Goroutines, NEW j, job' = [job EXCEPT ![h] = j],
                 j.at \in {"idle", "read"}
          PROVE  job'[g] = job[g]
      BY <1>1, <2>1
    <2>2. CASE \E k \in Keys : Drop(k)
      BY <2>1, <2>2, CallerNames DEF Drop
    <2>3. CASE RefreshFails \/ WarmUpFails
      BY <2>1, <2>3, CallerNames DEF RefreshFails, WarmUpFails, Idle
    <2>4. ASSUME NEW c \in Courses, CreateCourse(c) PROVE job'[g] = job[g]
      <3>1. [Idle EXCEPT !.at = "read", !.entry = c].at = "read"
        BY DEF Idle
      <3>2. \/ job' = [job EXCEPT !["create"] = [Idle EXCEPT !.at = "read", !.entry = c]]
            \/ UNCHANGED job
        BY <2>4 DEF CreateCourse
      <3>3. QED
        BY <2>1, <3>1, <3>2, CallerNames
    <2>5. QED
      BY <1>8, <2>2, <2>3, <2>4
  <1>9. CASE ServerCrash
    BY <1>1, <1>9 DEF ServerCrash, Idle, JobRecord
  <1>10. CASE \/ \E e \in Entries : ExpireLock(e) \/ StartEdit(e)
              \/ \E c \in Courses : ExpireMarker(c)
              \/ EditRow \/ DeleteEntry \/ UNCHANGED vars
    BY <1>10 DEF ExpireLock, StartEdit, ExpireMarker, EditRow, DeleteEntry, vars
  <1>11. QED
    BY <1>2, <1>3, <1>4, <1>5, <1>6, <1>7, <1>8, <1>9, <1>10, NextCases DEF RefreshStep
-----------------------------------------------------------------------------
(***************************************************************************)
(* The bitmap of slots.                                                    *)
(***************************************************************************)
(* MySQL refuses a course whose slot is taken, so a timetable has none     *)
(* twice; the scripts refuse it too, except that slot 0 is no slot.  Of a  *)
(* slot that an edit moved a course out of or into nothing is known: R is  *)
(* the table of the courses, S the set of those slots.                     *)
ApartIn(C, R, S) ==
  \A c, d \in C : c # d /\ R[c].slot \notin S => R[c].slot # R[d].slot
Apart == \A s \in Students : ApartIn(Timetable(s), courses, shifted)

SlotsOK(x, R, S) ==
  /\ x.slots \ S = ({R[c].slot : c \in x.selected} \ {0}) \ S
  /\ ApartIn(x.selected, R, S \cup {0})

(* The slot in a course's entry is the row's, short of an edit.            *)
SlotKept(k, c, R, S) == k = R[c].slot \/ {k, R[c].slot} \subseteq S

Bitmaps ==
  /\ \A s \in Students : cache[s] # None => SlotsOK(cache[s], courses, shifted)
  /\ \A g \in Goroutines : job[g].at = "write" /\ job[g].entry \in Students =>
       SlotsOK(job[g].copy, courses, shifted)

SlotCopies ==
  /\ \A c \in Courses : cache[c] # None => SlotKept(cache[c].slot, c, courses, shifted)
  /\ \A g \in Goroutines : job[g].at = "write" /\ job[g].entry \in Courses =>
       SlotKept(job[g].copy.slot, job[g].entry, courses, shifted)

(* A slot changes only by an edit, which is remembered.                    *)
LEMMA SlotNext ==
  ASSUME Typing, [Next]_vars
  PROVE  /\ shifted \subseteq shifted'
         /\ \A c \in Courses : \/ courses'[c].slot = courses[c].slot
                               \/ {courses[c].slot, courses'[c].slot} \subseteq shifted'
  <1>1. shifted \subseteq shifted'
    BY ShiftedWritten, CourseWritten DEF Typing
  <1>2. QED
    BY <1>1, RowsNext

(* What holds of the slots but those of S survives such a change.          *)
LEMMA ApartStays ==
  ASSUME NEW R, NEW S, NEW Q, NEW T, S \subseteq T,
         \A c \in Courses : Q[c].slot = R[c].slot \/ {R[c].slot, Q[c].slot} \subseteq T,
         NEW C, C \subseteq Courses, ApartIn(C, R, S)
  PROVE  ApartIn(C, Q, T)
  <1>1. ASSUME NEW c \in C, NEW d \in C, c # d, Q[c].slot \notin T, Q[c].slot = Q[d].slot
        PROVE  FALSE
    <2>1. Q[c].slot = R[c].slot /\ R[c].slot \notin S
      BY <1>1
    <2>2. Q[d].slot = R[d].slot
      BY <1>1
    <2>3. QED
      BY <1>1, <2>1, <2>2 DEF ApartIn
  <1>2. QED
    BY <1>1 DEF ApartIn

LEMMA SlotsStay ==
  ASSUME NEW R, NEW S, NEW Q, NEW T, S \subseteq T,
         \A c \in Courses : Q[c].slot = R[c].slot \/ {R[c].slot, Q[c].slot} \subseteq T,
         NEW x, x.selected \subseteq Courses, SlotsOK(x, R, S)
  PROVE  SlotsOK(x, Q, T)
  <1>1. ASSUME NEW v, v \notin T
        PROVE  v \in {R[c].slot : c \in x.selected} <=> v \in {Q[c].slot : c \in x.selected}
    BY <1>1
  <1>2. x.slots \ T = ({Q[c].slot : c \in x.selected} \ {0}) \ T
    <2>1. x.slots \ S = ({R[c].slot : c \in x.selected} \ {0}) \ S
      BY DEF SlotsOK
    <2>2. \A v : v \notin T => (v \in x.slots <=> v \in {Q[c].slot : c \in x.selected} \ {0})
      BY <1>1, <2>1
    <2>3. QED
      BY <2>2
  <1>3. ApartIn(x.selected, Q, T \cup {0})
    <2>1. ApartIn(x.selected, R, S \cup {0}) /\ S \cup {0} \subseteq T \cup {0}
      BY DEF SlotsOK
    <2>2. \A c \in Courses :
            Q[c].slot = R[c].slot \/ {R[c].slot, Q[c].slot} \subseteq T \cup {0}
      OBVIOUS
    <2>3. QED
      BY <2>1, <2>2, ApartStays
  <1>4. QED
    BY <1>2, <1>3 DEF SlotsOK

LEMMA SlotStays ==
  ASSUME NEW R, NEW S, NEW Q, NEW T, S \subseteq T, NEW c \in Courses,
         Q[c].slot = R[c].slot \/ {R[c].slot, Q[c].slot} \subseteq T,
         NEW k, SlotKept(k, c, R, S)
  PROVE  SlotKept(k, c, Q, T)
  BY DEF SlotKept

LEMMA ApartNext == Typing /\ Apart /\ [Next]_vars => Apart'
  <1> SUFFICES ASSUME Typing, Apart, [Next]_vars, NEW t \in Students
               PROVE  ApartIn(Timetable(t)', courses', shifted')
    BY DEF Apart
  <1>1. Timetable(t) \subseteq Courses /\ Timetable(t)' \subseteq Courses
    BY DEF Timetable
  <1>2. ApartIn(Timetable(t)', courses, shifted)
    <2>1. CASE enrolled' \subseteq enrolled
      <3>1. Timetable(t)' \subseteq Timetable(t)
        BY <2>1 DEF Timetable
      <3>2. QED
        BY <3>1 DEF Apart, ApartIn
    <2>2. ASSUME NEW p \in Callers, Accept(p)
          PROVE  ApartIn(Timetable(t)', courses, shifted)
      <3> PICK s, c : s = job[p].key[1] /\ c = job[p].key[2]
        OBVIOUS
      <3>1. /\ enrolled' = enrolled \cup {<<s, c>>}
            /\ \A d \in Timetable(s) : courses[d].slot # courses[c].slot
        BY <2>2 DEF Accept
      <3>2. ASSUME NEW d \in Timetable(t)', NEW f \in Timetable(t)', d # f,
                   courses[d].slot \notin shifted
            PROVE  courses[d].slot # courses[f].slot
        <4>1. /\ d \in Timetable(t) \/ (t = s /\ d = c)
              /\ f \in Timetable(t) \/ (t = s /\ f = c)
          BY <3>1, <3>2 DEF Timetable
        <4>2. QED
          BY <3>1, <3>2, <4>1 DEF Apart, ApartIn
      <3>3. QED
        BY <3>2 DEF ApartIn
    <2>3. QED
      BY <2>1, <2>2, TablesWritten DEF Drop, EditRow, CreateCourse
  <1>3. QED
    BY <1>1, <1>2, SlotNext, ApartStays

(* Places that are taken, given back and reloaded keep bitmap and set even.*)
LEMMA SlotsTaken ==
  ASSUME NEW R, NEW S, NEW x, SlotsOK(x, R, S), NEW c, NEW k, SlotKept(k, c, R, S),
         k \notin x.slots,
         NEW y, y.selected = x.selected \cup {c}, y.slots = x.slots \cup ({k} \ {0})
  PROVE  SlotsOK(y, R, S)
  <1>1. /\ x.slots \ S = ({R[d].slot : d \in x.selected} \ {0}) \ S
        /\ ApartIn(x.selected, R, S \cup {0})
    BY DEF SlotsOK
  <1>2. y.slots \ S = ({R[d].slot : d \in y.selected} \ {0}) \ S
    <2>1. {R[d].slot : d \in y.selected} = {R[d].slot : d \in x.selected} \cup {R[c].slot}
      OBVIOUS
    <2>2. QED
      BY <1>1, <2>1 DEF SlotKept
  <1>3. ASSUME NEW d \in x.selected, R[d].slot \notin S \cup {0}
        PROVE  R[d].slot # R[c].slot
    <2>1. R[d].slot \in x.slots
      BY <1>1, <1>3
    <2>2. QED
      BY <1>3, <2>1 DEF SlotKept
  <1>4. ApartIn(y.selected, R, S \cup {0})
    <2>1. ASSUME NEW d \in y.selected, NEW f \in y.selected, d # f,
                 R[d].slot \notin S \cup {0}, R[d].slot = R[f].slot
          PROVE  FALSE
      <3>1. CASE d \in x.selected /\ f \in x.selected
        BY <1>1, <2>1, <3>1 DEF ApartIn
      <3>2. CASE d = c \/ f = c
        BY <1>3, <2>1, <3>2
      <3>3. QED
        BY <2>1, <3>1, <3>2
    <2>2. QED
      BY <2>1 DEF ApartIn
  <1>5. QED
    BY <1>2, <1>4 DEF SlotsOK

LEMMA SlotsGiven ==
  ASSUME NEW R, NEW S, NEW x, SlotsOK(x, R, S), NEW c \in x.selected, NEW k,
         SlotKept(k, c, R, S),
         NEW y, y.selected = x.selected \ {c}, y.slots = x.slots \ {k}
  PROVE  SlotsOK(y, R, S)
  <1>1. /\ x.slots \ S = ({R[d].slot : d \in x.selected} \ {0}) \ S
        /\ ApartIn(x.selected, R, S \cup {0})
    BY DEF SlotsOK
  <1>2. ASSUME NEW v, v \notin S \cup {0}
        PROVE  v \in y.slots <=> v \in {R[d].slot : d \in y.selected}
    <2>1. v \in x.slots <=> v \in {R[d].slot : d \in x.selected}
      BY <1>1, <1>2
    <2>2. CASE v = R[c].slot
      <3>1. v = k
        BY <1>2, <2>2 DEF SlotKept
      <3>2. \A d \in y.selected : R[d].slot # v
        BY <1>1, <1>2, <2>2 DEF ApartIn
      <3>3. QED
        BY <3>1, <3>2
    <2>3. CASE v # R[c].slot
      <3>1. v # k
        BY <1>2, <2>3 DEF SlotKept
      <3>2. QED
        BY <2>1, <2>3, <3>1
    <2>4. QED
      BY <2>2, <2>3
  <1>3. ASSUME NEW v, v = 0, v \notin S PROVE v \notin y.slots
    BY <1>1, <1>3
  <1>4. y.slots \ S = ({R[d].slot : d \in y.selected} \ {0}) \ S
    <2>1. \A v : v \notin S => (v \in y.slots <=> v \in {R[d].slot : d \in y.selected} \ {0})
      BY <1>2, <1>3
    <2>2. QED
      BY <2>1
  <1>5. ApartIn(y.selected, R, S \cup {0})
    BY <1>1 DEF ApartIn
  <1>6. QED
    BY <1>4, <1>5 DEF SlotsOK

LEMMA SlotsJoined ==
  ASSUME Tables, Apart, NEW s \in Students, NEW row \in StudentEntry
  PROVE  SlotsOK(Joined(s, row), courses, shifted)
  <1> DEFINE x == Joined(s, row)
  <1>1. x.selected = Timetable(s) /\ x.slots = Bits(Timetable(s))
    BY JoinedTyped
  <1>2. ApartIn(Timetable(s), courses, shifted)
    BY DEF Apart
  <1> HIDE DEF x
  <1>3. SlotsOK(x, courses, shifted)
    BY <1>1, <1>2 DEF SlotsOK, ApartIn, Bits
  <1>4. QED
    BY <1>3 DEF x

LEMMA SlotsPreloaded ==
  ASSUME Typing, Apart
  PROVE  /\ \A s \in Students : SlotsOK(Preloaded[s], courses, shifted)
         /\ \A c \in Courses : Preloaded[c] # None =>
              SlotKept(Preloaded[c].slot, c, courses, shifted)
  <1>1. ASSUME NEW s \in Students PROVE SlotsOK(Preloaded[s], courses, shifted)
    <2>1. s \in Entries /\ s \notin Courses
      BY NamesAssumption DEF Entries
    <2>2. Row(s) \in StudentEntry
      BY <2>1, RowTyped DEF Typing, EntryOf
    <2>3. Preloaded[s] = Joined(s, Row(s))
      BY <2>1 DEF Preloaded, Loaded
    <2>4. QED
      BY <2>2, <2>3, SlotsJoined DEF Typing
  <1>2. ASSUME NEW c \in Courses, Preloaded[c] # None
        PROVE  SlotKept(Preloaded[c].slot, c, courses, shifted)
    BY <1>2 DEF Preloaded, Loaded, Row, Entries, SlotKept
  <1>3. QED
    BY <1>1, <1>2

LEMMA BitmapsNext ==
  Typing /\ Apart /\ Bitmaps /\ SlotCopies /\ [Next]_vars => Bitmaps'
  <1> SUFFICES ASSUME Typing, Apart, Bitmaps, SlotCopies, [Next]_vars PROVE Bitmaps'
    OBVIOUS
  <1>1. /\ \A t \in Students : t \in Entries /\ t \notin Courses
        /\ \A c \in Courses : c \in Entries
        /\ Tables
    BY NamesAssumption DEF Entries, Typing
  <1>2. ASSUME NEW x \in StudentEntry, SlotsOK(x, courses, shifted)
        PROVE  SlotsOK(x, courses', shifted')
    <2>1. x.selected \subseteq Courses
      BY DEF StudentEntry
    <2>2. QED
      BY <1>2, <2>1, SlotNext, SlotsStay
  <1>3. ASSUME NEW g \in Goroutines, job'[g].at = "write", job'[g].entry \in Students
        PROVE  SlotsOK(job'[g].copy, courses', shifted')
    <2>1. SlotsOK(job'[g].copy, courses, shifted)
      <3>1. CASE job'[g] = job[g]
        BY <1>3, <3>1 DEF Bitmaps
      <3>2. CASE /\ job[g].entry \in Students /\ job[g].copy \in StudentEntry
                 /\ job'[g].copy = Joined(job[g].entry, job[g].copy)
        BY <1>1, <3>2, SlotsJoined
      <3>3. QED
        BY <1>1, <1>3, <3>1, <3>2, Copying
    <2>2. job'[g].copy \in StudentEntry
      <3>1. JobOK(known', g, job'[g])
        BY TypingNext DEF Typing, Jobs
      <3>2. QED
        BY <1>1, <1>3, <3>1 DEF JobOK, EntryOf
    <2>3. QED
      BY <1>2, <2>1, <2>2
  <1>4. ASSUME NEW t \in Students, cache'[t] # None PROVE SlotsOK(cache'[t], courses, shifted)
    <2>1. ASSUME NEW s \in Students, NEW c \in Courses, TakesPlace(s, c)
          PROVE  SlotsOK(cache'[t], courses, shifted)
      <3>1. CASE t = s
        <4>1. /\ cache[s] # None /\ cache[c] # None /\ cache[s] \in StudentEntry
              /\ cache[c].slot \notin cache[s].slots
              /\ cache'[s].selected = cache[s].selected \cup {c}
              /\ cache'[s].slots = cache[s].slots \cup ({cache[c].slot} \ {0})
          BY <2>1, NoneAssumption DEF TakesPlace, StudentEntry
        <4>2. /\ SlotsOK(cache[s], courses, shifted)
              /\ SlotKept(cache[c].slot, c, courses, shifted)
          BY <4>1 DEF Bitmaps, SlotCopies
        <4>3. QED
          BY <3>1, <4>1, <4>2, SlotsTaken
      <3>2. CASE t # s
        BY <1>1, <1>4, <2>1, <3>2 DEF TakesPlace, Bitmaps
      <3>3. QED
        BY <3>1, <3>2
    <2>2. ASSUME NEW s \in Students, NEW c \in Courses, GivesPlace(s, c)
          PROVE  SlotsOK(cache'[t], courses, shifted)
      <3>1. CASE t = s
        <4>1. /\ cache[s] # None /\ cache[c] # None /\ cache[s] \in StudentEntry
              /\ c \in cache[s].selected
              /\ cache'[s].selected = cache[s].selected \ {c}
              /\ cache'[s].slots = cache[s].slots \ {cache[c].slot}
          BY <2>2, NoneAssumption DEF GivesPlace, StudentEntry
        <4>2. /\ SlotsOK(cache[s], courses, shifted)
              /\ SlotKept(cache[c].slot, c, courses, shifted)
          BY <4>1 DEF Bitmaps, SlotCopies
        <4>3. QED
          BY <3>1, <4>1, <4>2, SlotsGiven
      <3>2. CASE t # s
        BY <1>1, <1>4, <2>2, <3>2 DEF GivesPlace, Bitmaps
      <3>3. QED
        BY <3>1, <3>2
    <2>3. ASSUME NEW g \in Goroutines, Write(g) PROVE SlotsOK(cache'[t], courses, shifted)
      <3> PICK e : e = job[g].entry
        OBVIOUS
      <3>1. /\ e \in Entries /\ job[g].at = "write" /\ job[g].copy \in EntryOf(e)
            /\ cache'[e] = [job[g].copy EXCEPT !.asof = VersionOf(e)]
            /\ VersionOf(e) \in Nat
            /\ \A d \in Entries \ {e} : cache'[d] = cache[d]
        BY <2>3, Writes DEF Typing
      <3>2. CASE t = e
        <4>1. SlotsOK(job[g].copy, courses, shifted)
          BY <3>1, <3>2 DEF Bitmaps
        <4>2. /\ cache'[t].selected = job[g].copy.selected
              /\ cache'[t].slots = job[g].copy.slots
          BY <1>1, <3>1, <3>2, StudentStamped DEF EntryOf
        <4>3. QED
          BY <4>1, <4>2 DEF SlotsOK
      <3>3. CASE t # e
        BY <1>1, <1>4, <3>1, <3>3 DEF Bitmaps
      <3>4. QED
        BY <3>2, <3>3
    <2>4. ASSUME NEW E, Invalidate(E) PROVE SlotsOK(cache'[t], courses, shifted)
      BY <1>1, <1>4, <2>4 DEF Invalidate, Bitmaps
    <2>5. CASE UNCHANGED cache
      BY <1>4, <2>5 DEF Bitmaps
    <2>6. CASE cache' = Preloaded
      BY <2>6, SlotsPreloaded
    <2>7. QED
      BY <2>1, <2>2, <2>3, <2>4, <2>5, <2>6, CacheWritten DEF Typing
  <1>5. ASSUME NEW t \in Students, cache'[t] # None PROVE SlotsOK(cache'[t], courses', shifted')
    <2>1. cache'[t] \in StudentEntry
      <3>1. cache'[t] = None \/ cache'[t] \in EntryOf(t)
        BY <1>1, TypingNext DEF Typing, CachesTyped
      <3>2. QED
        BY <1>1, <1>5, <3>1 DEF EntryOf
    <2>2. QED
      BY <1>2, <1>4, <1>5, <2>1
  <1>6. QED
    BY <1>3, <1>5 DEF Bitmaps

LEMMA SlotCopiesNext ==
  Typing /\ Apart /\ SlotCopies /\ [Next]_vars => SlotCopies'
  <1> SUFFICES ASSUME Typing, Apart, SlotCopies, [Next]_vars PROVE SlotCopies'
    OBVIOUS
  <1>1. /\ \A t \in Students : t \in Entries /\ t \notin Courses
        /\ \A c \in Courses : c \in Entries /\ c \notin Students
    BY NamesAssumption DEF Entries
  <1>2. ASSUME NEW c \in Courses, NEW k, SlotKept(k, c, courses, shifted)
        PROVE  SlotKept(k, c, courses', shifted')
    BY <1>2, SlotNext, SlotStays
  <1>3. ASSUME NEW g \in Goroutines, job'[g].at = "write", job'[g].entry \in Courses
        PROVE  SlotKept(job'[g].copy.slot, job'[g].entry, courses, shifted)
    <2>1. CASE job'[g] = job[g]
      BY <1>3, <2>1 DEF SlotCopies
    <2>2. CASE job'[g].entry = job[g].entry /\ job'[g].copy = Row(job[g].entry)
      BY <1>3, <2>2 DEF Row, SlotKept
    <2>3. QED
      BY <1>1, <1>3, <2>1, <2>2, Copying
  <1>4. ASSUME NEW c \in Courses, cache'[c] # None
        PROVE  SlotKept(cache'[c].slot, c, courses, shifted)
    <2>1. ASSUME NEW s \in Students, NEW d \in Courses, TakesPlace(s, d) \/ GivesPlace(s, d)
          PROVE  SlotKept(cache'[c].slot, c, courses, shifted)
      <3>1. /\ cache[d] # None /\ cache'[d].slot = cache[d].slot
            /\ \A e \in Entries : e = s \/ e = d \/ cache'[e] = cache[e]
        BY <2>1, PlaceTaken, PlaceGiven
      <3>2. QED
        BY <1>1, <1>4, <3>1 DEF SlotCopies
    <2>2. ASSUME NEW g \in Goroutines, Write(g)
          PROVE  SlotKept(cache'[c].slot, c, courses, shifted)
      <3> PICK e : e = job[g].entry
        OBVIOUS
      <3>1. /\ job[g].at = "write" /\ job[g].copy \in EntryOf(e)
            /\ cache'[e] = [job[g].copy EXCEPT !.asof = VersionOf(e)]
            /\ VersionOf(e) \in Nat
            /\ \A d \in Entries \ {e} : cache'[d] = cache[d]
        BY <2>2, Writes DEF Typing
      <3>2. CASE c = e
        <4>1. SlotKept(job[g].copy.slot, c, courses, shifted)
          BY <3>1, <3>2 DEF SlotCopies
        <4>2. cache'[c].slot = job[g].copy.slot
          <5>1. job[g].copy \in CourseEntry /\ VersionOf(e) \in Nat
            BY <3>1, <3>2 DEF EntryOf
          <5>2. [job[g].copy EXCEPT !.asof = VersionOf(e)].slot = job[g].copy.slot
            BY <5>1, CourseEntries
          <5>3. QED
            BY <3>1, <3>2, <5>2
        <4>3. QED
          BY <4>1, <4>2
      <3>3. CASE c # e
        BY <1>1, <1>4, <3>1, <3>3 DEF SlotCopies
      <3>4. QED
        BY <3>2, <3>3
    <2>3. ASSUME NEW E, Invalidate(E) PROVE SlotKept(cache'[c].slot, c, courses, shifted)
      BY <1>1, <1>4, <2>3 DEF Invalidate, SlotCopies
    <2>4. CASE UNCHANGED cache
      BY <1>4, <2>4 DEF SlotCopies
    <2>5. CASE cache' = Preloaded
      BY <1>4, <2>5, SlotsPreloaded
    <2>6. QED
      BY <2>1, <2>2, <2>3, <2>4, <2>5, CacheWritten DEF Typing
  <1>5. QED
    BY <1>2, <1>3, <1>4 DEF SlotCopies

LEMMA BitmapsAlways == Spec => [](Apart /\ Bitmaps /\ SlotCopies)
  <1>1. Init => Apart /\ Bitmaps /\ SlotCopies
    <2> SUFFICES ASSUME Init PROVE Apart /\ Bitmaps /\ SlotCopies
      OBVIOUS
    <2>1. Apart
      BY DEF Init, Apart, ApartIn, Timetable
    <2>2. \A g \in Goroutines : job[g].at # "write"
      BY DEF Init, Idle
    <2>3. ASSUME NEW e \in Entries, cache[e] # None PROVE cache = Preloaded
      BY <2>3 DEF Init
    <2>4. QED
      BY <2>1, <2>2, <2>3, SlotsPreloaded, TypingInit DEF Bitmaps, SlotCopies, Entries
  <1>2. Typing /\ Apart /\ Bitmaps /\ SlotCopies /\ [Next]_vars =>
          Apart' /\ Bitmaps' /\ SlotCopies'
    BY ApartNext, BitmapsNext, SlotCopiesNext
  <1>3. QED
    BY <1>1, <1>2, TypingAlways, PTL DEF Spec

(* In every cached student entry the bitmap has a bit for the slot of each *)
(* selected course and no other, but for slots that an edit moved a course *)
(* out of or into.  The release script may take the slot it finds in the   *)
(* course's entry out of the bitmap: short of such an edit it is the one   *)
(* the reservation put in, and the reservation script and MySQL keep all   *)
(* other selected courses off it.                                          *)
THEOREM BitmapsMatch == Spec => []BitmapMatchesSelected
  <1>1. Bitmaps => BitmapMatchesSelected
    BY DEF Bitmaps, SlotsOK, BitmapMatchesSelected, Bits
  <1>2. QED
    BY <1>1, BitmapsAlways, PTL
-----------------------------------------------------------------------------
(***************************************************************************)
(* Edits and the entries.                                                  *)
(***************************************************************************)
CopyVersions ==
  \A g \in Goroutines : job[g].at \in {"join", "write"} =>
    job[g].copy.version <= VersionOf(job[g].entry)

Editing(e) == editor.step # 0 /\ editor.entry = e

LEMMA Faultless ==
  ASSUME Typing, [Next]_vars, faults' = 0
  PROVE  faults = 0 /\ ~Fault /\ ~FaultWithin
  <1>1. faults \in Nat
    BY DEF Typing, Budget
  <1>2. ~Fault /\ ~FaultWithin
    BY <1>1 DEF Fault, FaultWithin
  <1>3. UNCHANGED faults \/ Fault \/ FaultWithin
    <2>1. (\E p \in Callers : CallerStep(p)) => UNCHANGED faults \/ Fault
      BY CallerSpends
    <2>2. RefreshStep("drop") \/ RefreshStep("create") => UNCHANGED faults
      BY DEF RefreshStep, Read, Join, Write
    <2>3. RefreshFails \/ WarmUpFails \/ DeleteEntry \/ ServerCrash =>
            UNCHANGED faults \/ Fault \/ FaultWithin
      BY DEF RefreshFails, WarmUpFails, DeleteEntry, ServerCrash
    <2>4. ASSUME \/ \E e \in Entries : ExpireLock(e) \/ StartEdit(e)
                 \/ \E k \in Keys : Drop(k)
                 \/ \E c \in Courses : CreateCourse(c) \/ ExpireMarker(c)
                 \/ EditRow \/ UNCHANGED vars
          PROVE  UNCHANGED faults
      BY <2>4 DEF ExpireLock, StartEdit, Drop, CreateCourse, ExpireMarker, EditRow, vars
    <2>5. QED
      BY <2>1, <2>2, <2>3, <2>4, NextCases
  <1>4. QED
    BY <1>1, <1>2, <1>3

(* Only an edit of the row changes its version.                            *)
LEMMA VersionNext ==
  ASSUME Typing, [Next]_vars, NEW e \in Entries
  PROVE  /\ VersionOf(e) \in Nat /\ VersionOf(e)' \in Nat /\ VersionOf(e) <= VersionOf(e)'
         /\ VersionOf(e)' # VersionOf(e) => EditRow /\ editor.entry = e
  <1>1. CASE e \in Courses
    <2>1. courses[e].version \in Nat
      BY <1>1, RowsNext DEF CourseRow
    <2>2. QED
      BY <1>1, <2>1, RowsNext DEF VersionOf
  <1>2. CASE e \in Students
    <2>1. /\ e \notin Courses /\ students[e] \in [used : Nat, limit : Int, version : Nat]
          /\ students \in [Students -> [used : Nat, limit : Int, version : Nat]]
      BY <1>2, NamesAssumption DEF Typing, Tables
    <2>2. ASSUME NEW p \in Callers, Accept(p)
          PROVE  students'[e].version = students[e].version
      <3> PICK s, n : s = job[p].key[1] /\ n = students[s].used + courses[job[p].key[2]].credit
        OBVIOUS
      <3>1. students' = [students EXCEPT ![s].used = n]
        BY <2>2 DEF Accept
      <3>2. QED
        BY <1>2, <2>1, <3>1
    <2>3. ASSUME NEW k \in Keys, Drop(k)
          PROVE  students'[e].version = students[e].version
      <3> PICK n : n = FloorMinus(students[k[1]].used, courses[k[2]].credit)
        OBVIOUS
      <3>1. students' = [students EXCEPT ![k[1]].used = n]
        BY <2>3 DEF Drop
      <3>2. QED
        BY <1>2, <2>1, <3>1
    <2>4. ASSUME EditRow
          PROVE  \/ UNCHANGED students /\ editor.entry \in Courses
                 \/ editor.entry # e /\ students'[e].version = students[e].version
                 \/ editor.entry = e /\ students'[e].version = students[e].version + 1
      <3>1. CASE editor.entry \in Courses /\ UNCHANGED students
        BY <3>1
      <3>2. ASSUME NEW n, NEW f, f = editor.entry,
                   students' = [students EXCEPT ![f].limit = n, ![f].version = @ + 1]
            PROVE  \/ f # e /\ students'[e].version = students[e].version
                   \/ f = e /\ students'[e].version = students[e].version + 1
        BY <1>2, <2>1, <3>2
      <3>3. QED
        BY <2>4, <3>1, <3>2 DEF EditRow
    <2>5. (\E c \in Courses : CreateCourse(c)) => UNCHANGED students
      BY DEF CreateCourse
    <2>6. QED
      BY <1>2, <2>1, <2>2, <2>3, <2>4, <2>5, TablesWritten DEF VersionOf
  <1>3. QED
    BY <1>1, <1>2 DEF Entries

LEMMA CopyVersionsNext == Typing /\ CopyVersions /\ [Next]_vars => CopyVersions'
  <1> SUFFICES ASSUME Typing, CopyVersions, [Next]_vars,
                      NEW g \in Goroutines, job'[g].at \in {"join", "write"},
                      NEW e, e = job'[g].entry
               PROVE  job'[g].copy.version <= VersionOf(e)'
    BY DEF CopyVersions, VersionOf
  <1>1. CASE job'[g] = job[g]
    <2>1. e \in Entries /\ job[g].copy.version \in Nat
      <3>1. JobOK(known, g, job[g]) /\ e = job[g].entry
        BY <1>1 DEF Typing, Jobs
      <3>2. e \in Entries
        BY <1>1, <3>1, CallerNames, KeyParts, Statements
        DEF JobOK, Goroutines, Entries, Typing, Tables
      <3>3. job[g].copy \in EntryOf(e)
        BY <1>1, <3>1 DEF JobOK
      <3>4. QED
        BY <3>2, <3>3 DEF EntryOf, CourseEntry, StudentEntry
    <2>2. VersionOf(e) \in Nat /\ VersionOf(e)' \in Nat /\ VersionOf(e) <= VersionOf(e)'
      BY <2>1, VersionNext
    <2>3. job[g].copy.version <= VersionOf(e)
      BY <1>1 DEF CopyVersions
    <2>4. QED
      BY <1>1, <2>1, <2>2, <2>3
  <1>2. CASE job[g].entry = e /\ e \in Entries /\ job'[g].copy = Row(e)
    BY <1>2, RowTyped, VersionNext DEF Typing
  <1>3. CASE /\ Join(g) /\ job[g].at = "join" /\ job[g].entry = e /\ e \in Students
             /\ job[g].copy \in StudentEntry /\ job'[g].copy = Joined(e, job[g].copy)
    <2>1. job'[g].copy.version = job[g].copy.version /\ job[g].copy.version \in Nat
      BY <1>3, JoinedTyped DEF StudentEntry, Typing
    <2>2. e \in Entries /\ job[g].copy.version <= VersionOf(e)
      BY <1>3 DEF CopyVersions, Entries
    <2>3. QED
      BY <2>1, <2>2, VersionNext
  <1>4. QED
    BY <1>1, <1>2, <1>3, Copying

(* What one step may do to an entry that is there.                         *)
LEMMA EntryNext ==
  ASSUME Typing, [Next]_vars, NEW e \in Entries, ~ServerCrash, cache'[e] # None
  PROVE  \/ /\ cache[e] # None
            /\ cache'[e].version = cache[e].version /\ cache'[e].asof = cache[e].asof
         \/ \E g \in Goroutines : Write(g) /\ job[g].entry = e
  <1>1. ASSUME NEW s \in Students, NEW c \in Courses, TakesPlace(s, c) \/ GivesPlace(s, c)
        PROVE  /\ cache[e] # None
               /\ cache'[e].version = cache[e].version /\ cache'[e].asof = cache[e].asof
    <2>1. CASE e \notin {s, c}
      BY <1>1, <2>1 DEF TakesPlace, GivesPlace
    <2>2. CASE e = c
      BY <1>1, <2>2, NoneAssumption DEF TakesPlace, GivesPlace, CourseEntry
    <2>3. CASE e = s
      BY <1>1, <2>3, NoneAssumption DEF TakesPlace, GivesPlace, StudentEntry
    <2>4. QED
      BY <2>1, <2>2, <2>3
  <1>2. ASSUME NEW g \in Goroutines, Write(g), job[g].entry # e PROVE cache'[e] = cache[e]
    <2> PICK f : f = job[g].entry
      OBVIOUS
    <2>1. \A d \in Entries \ {f} : cache'[d] = cache[d]
      BY <1>2, Writes DEF Typing
    <2>2. QED
      BY <1>2, <2>1
  <1>3. ASSUME NEW E, Invalidate(E) PROVE cache'[e] = cache[e]
    BY <1>3 DEF Invalidate
  <1>4. QED
    BY <1>1, <1>2, <1>3, CacheWritten DEF Typing

LEMMA EditorNext ==
  ASSUME Typing, [Next]_vars, NEW e, Editing(e), ~ServerCrash
  PROVE  Editing(e)' \/ DeleteEntry
  <1>1. CASE UNCHANGED editor
    BY <1>1 DEF Editing
  <1>2. CASE EditRow
    <2>1. editor.step \in {1, 2} /\ EditOrder[editor.step] = "update" /\ editor' = NextStep
          /\ editor \in [step : 0..2, entry : Entries \cup {None}, edit : CourseEdits \cup {None}]
      BY <1>2 DEF EditRow, Typing, EditTyped
    <2>2. editor.step = 1
      BY <2>1 DEF EditOrder
    <2>3. QED
      BY <2>1, <2>2 DEF Editing, NextStep
  <1>3. ~ \E f \in Entries : StartEdit(f)
    BY DEF StartEdit, Editing
  <1>4. QED
    BY <1>1, <1>2, <1>3, NextCases, Alone, CallerNames
    DEF ExpireLock, Drop, RefreshFails, WarmUpFails, CreateCourse, ExpireMarker, vars, Typing

LEMMA EditsReachNext ==
  Typing /\ CopyVersions /\ EditsReachCache /\ [Next]_vars => EditsReachCache'
  <1> SUFFICES ASSUME Typing, CopyVersions, EditsReachCache, [Next]_vars,
                      faults' = 0, NEW e \in Entries, cache'[e] # None
               PROVE  \/ cache'[e].version = VersionOf(e)'
                      \/ Editing(e)'
                      \/ cache'[e].version < cache'[e].asof
    BY DEF EditsReachCache, Editing
  <1>1. faults = 0 /\ ~Fault /\ ~FaultWithin /\ ~ServerCrash
    BY Faultless DEF ServerCrash
  <1>2. CASE EditRow /\ editor.entry = e
    <2>1. Editing(e) /\ ~DeleteEntry
      <3>1. editor.step # 0 /\ EditOrder[editor.step] = "update"
        BY <1>2 DEF EditRow
      <3>2. QED
        BY <1>2, <3>1 DEF DeleteEntry, Editing
    <2>2. QED
      BY <1>1, <2>1, EditorNext
  <1>3. ASSUME VersionOf(e)' = VersionOf(e), NEW g \in Goroutines, Write(g), job[g].entry = e
        PROVE  \/ cache'[e].version = VersionOf(e)'
               \/ cache'[e].version < cache'[e].asof
    <2>1. /\ job[g].at = "write" /\ job[g].copy \in EntryOf(e) /\ VersionOf(e) \in Nat
          /\ cache'[e] = [job[g].copy EXCEPT !.asof = VersionOf(e)]
      BY <1>3, Writes DEF Typing
    <2>2. cache'[e].version = job[g].copy.version /\ cache'[e].asof = VersionOf(e)
          /\ job[g].copy.version \in Nat
      BY <2>1, CourseEntries, StudentStamped DEF EntryOf, CourseEntry, StudentEntry
    <2>3. job[g].copy.version <= VersionOf(e)
      BY <1>3, <2>1 DEF CopyVersions
    <2>4. QED
      BY <1>3, <2>1, <2>2, <2>3
  <1>4. ASSUME VersionOf(e)' = VersionOf(e), cache[e] # None,
               cache'[e].version = cache[e].version, cache'[e].asof = cache[e].asof
        PROVE  \/ cache'[e].version = VersionOf(e)' \/ Editing(e)'
               \/ cache'[e].version < cache'[e].asof
    <2>1. \/ cache[e].version = VersionOf(e) \/ Editing(e)
          \/ cache[e].version < cache[e].asof
      BY <1>1, <1>4 DEF EditsReachCache, Editing
    <2>2. CASE DeleteEntry /\ Editing(e)
      BY <1>1, <2>2 DEF DeleteEntry, Invalidate, Editing
    <2>3. QED
      BY <1>1, <1>4, <2>1, <2>2, EditorNext
  <1>5. QED
    BY <1>1, <1>2, <1>3, <1>4, EntryNext, VersionNext

LEMMA PreloadedVersions ==
  ASSUME Typing, NEW e \in Entries, Preloaded[e] # None
  PROVE  Preloaded[e].version = VersionOf(e)
  <1>1. CASE e \in Courses
    BY <1>1, RowTyped DEF Preloaded, Loaded, Typing
  <1>2. CASE e \notin Courses
    <2>1. Row(e) \in StudentEntry /\ Row(e).version = VersionOf(e)
      BY <1>2, RowTyped DEF Typing, EntryOf
    <2>2. Preloaded[e] = Joined(e, Row(e))
      BY <1>2 DEF Preloaded, Loaded
    <2>3. QED
      BY <2>1, <2>2, JoinedTyped DEF Typing
  <1>3. QED
    BY <1>1, <1>2

(* An administrator's edit reaches the cache: short of a failure an entry  *)
(* that disagrees with the edited row lasts only until the deletion that   *)
(* follows the update, unless a refresh carried the row from before the    *)
(* edit past it, and nothing is ever carried in from a later version.      *)
THEOREM EditsReach == Spec => []EditsReachCache
  <1>1. Init => CopyVersions /\ EditsReachCache
    <2> SUFFICES ASSUME Init PROVE CopyVersions /\ EditsReachCache
      OBVIOUS
    <2>1. \A g \in Goroutines : job[g].at = "idle"
      BY DEF Init, Idle
    <2>2. ASSUME NEW e \in Entries, cache[e] # None PROVE cache[e].version = VersionOf(e)
      <3>1. cache = Preloaded
        BY <2>2 DEF Init
      <3>2. QED
        BY <2>2, <3>1, PreloadedVersions, TypingInit
    <2>3. QED
      BY <2>1, <2>2 DEF CopyVersions, EditsReachCache
  <1>2. QED
    BY <1>1, CopyVersionsNext, EditsReachNext, TypingAlways, PTL DEF Spec
-----------------------------------------------------------------------------
(***************************************************************************)
(* Missing markers.                                                        *)
(***************************************************************************)
Creating(c) == job["create"].at # "idle" /\ job["create"].entry = c

(* A marker for a course that has a row is not set afresh as "right".      *)
LEMMA MarkerNext ==
  ASSUME Typing, [Next]_vars, NEW c \in known, marker'[c] = "right"
  PROVE  marker[c] = "right"
  <1>1. c \in Courses /\ marker \in [Courses -> {"none", "right", "late"}]
    BY DEF Typing, Tables, CachesTyped
  <1>2. \A E : marker' = Unmarked(E) => marker[c] = "right"
    BY <1>1 DEF Unmarked
  <1>3. ASSUME NEW p \in Callers, Mark(p) PROVE marker[c] = "right"
    BY <1>1, <1>3 DEF Mark
  <1>4. QED
    BY <1>2, <1>3, MarkersWritten

(* The edit or the warm-up under way goes on, fails or lifts the marker.   *)
LEMMA CreatingNext ==
  ASSUME Typing, [Next]_vars, NEW c \in known, Creating(c), faults' = 0
  PROVE  Creating(c)' \/ marker'[c] = "none"
  <1>1. /\ c \in Courses /\ ~Fault /\ ~FaultWithin
        /\ job["create"] \in JobRecord /\ DOMAIN job = Goroutines
        /\ JobOK(known, "create", job["create"]) /\ "create" \in Goroutines
    BY Faultless, CallerNames DEF Typing, Tables, Jobs, JobOK
  <1>2. CASE job'["create"] = job["create"]
    BY <1>2 DEF Creating
  <1>3. CASE Read("create")
    <2>1. Goto("create", "forget")
          \/ job' = [job EXCEPT !["create"].at = IF job["create"].entry \in Courses THEN "write" ELSE "join",
                               !["create"].copy = Row(job["create"].entry)]
      BY <1>3 DEF Read
    <2>2. job'["create"].entry = c /\ job'["create"].at # "idle"
      BY <1>1, <2>1, NextJob DEF Creating, JobRecord
    <2>3. QED
      BY <2>2 DEF Creating
  <1>4. ~Join("create")
    BY <1>1 DEF Join, At, JobOK
  <1>5. CASE Write("create")
    BY <1>1, <1>5 DEF Write, Unmarked, Creating
  <1>6. ~RefreshFails /\ ~WarmUpFails /\ ~ServerCrash
    BY <1>1 DEF RefreshFails, WarmUpFails, ServerCrash
  <1>7. \A d \in Courses : ~CreateCourse(d)
    BY DEF CreateCourse, Creating, At
  <1>8. ASSUME \/ \E p \in Callers : CallerStep(p)
               \/ RefreshStep("drop")
               \/ \E k \in Keys : Drop(k)
        PROVE  job'["create"] = job["create"]
    <2>1. (\E k \in Keys : Drop(k)) => job'["create"] = job["create"]
      BY <1>1 DEF Drop
    <2>2. QED
      BY <1>8, <2>1, Alone, CallerNames DEF Typing
  <1>9. CASE \/ \E e \in Entries : ExpireLock(e) \/ StartEdit(e)
             \/ \E d \in Courses : ExpireMarker(d)
             \/ EditRow \/ DeleteEntry \/ UNCHANGED vars
    <2>1. UNCHANGED job
      BY <1>9 DEF ExpireLock, StartEdit, ExpireMarker, EditRow, DeleteEntry, vars
    <2>2. QED
      BY <1>2, <2>1
  <1>10. QED
    BY <1>2, <1>3, <1>4, <1>5, <1>6, <1>7, <1>8, <1>9, NextCases DEF RefreshStep

(* A course opens when it is created open or when an edit opens it.        *)
LEMMA OpeningNext ==
  ASSUME Typing, [Next]_vars, NEW c \in known, courses[c].status = 0, courses'[c].status # 0
  PROVE  EditRow /\ editor.entry = c
  <1>1. c \in Courses /\ ~CreateCourse(c)
    BY DEF Typing, Tables, CreateCourse
  <1>2. QED
    BY <1>1, RowsNext

LEMMA MarkersLiftedNext == Typing /\ MarkersLifted /\ [Next]_vars => MarkersLifted'
  <1> SUFFICES ASSUME Typing, MarkersLifted, [Next]_vars, faults' = 0, NEW c \in known',
                      courses'[c].status # 0, marker'[c] = "right"
               PROVE  Creating(c)' \/ Editing(c)'
    BY DEF MarkersLifted, Creating, Editing, At
  <1>1. /\ faults = 0 /\ ~FaultWithin /\ ~ServerCrash
        /\ Tables /\ courses'[c] \in CourseRow
    BY Faultless, TypingNext DEF ServerCrash, Typing, Tables
  <1>2. CASE c \notin known
    <2>1. c \in Courses /\ CreateCourse(c)
      BY <1>2, TablesWritten DEF Accept, Drop, EditRow, CreateCourse
    <2>2. CASE courses' = [courses EXCEPT ![c].status = 0]
      BY <1>1, <2>1, <2>2 DEF Tables
    <2>3. CASE job' = [job EXCEPT !["create"] = [Idle EXCEPT !.at = "read", !.entry = c]]
      <3>1. job'["create"] = [Idle EXCEPT !.at = "read", !.entry = c]
        BY <2>3, CallerNames DEF Typing, Jobs
      <3>2. QED
        BY <3>1 DEF Creating, Idle
    <2>4. QED
      BY <2>1, <2>2, <2>3 DEF CreateCourse
  <1>3. CASE c \in known
    <2>1. marker[c] = "right"
      BY <1>3, MarkerNext
    <2>2. CASE courses[c].status = 0
      <3>1. EditRow /\ Editing(c) /\ ~DeleteEntry
        <4>1. EditRow /\ editor.entry = c
          BY <1>3, <2>2, OpeningNext
        <4>2. editor.step # 0 /\ EditOrder[editor.step] = "update"
          BY <4>1 DEF EditRow
        <4>3. QED
          BY <4>1, <4>2 DEF DeleteEntry, Editing
      <3>2. QED
        BY <1>1, <3>1, EditorNext
    <2>3. CASE Creating(c)
      BY <1>3, <2>3, CreatingNext
    <2>4. CASE Editing(c)
      <3>1. ~DeleteEntry
        <4>1. c \in Courses
          BY <1>1, <1>3 DEF Tables
        <4>2. QED
          BY <1>1, <2>4, <4>1 DEF DeleteEntry, Invalidate, Unmarked, Editing
      <3>2. QED
        BY <1>1, <2>4, <3>1, EditorNext
    <2>5. QED
      BY <1>1, <1>3, <2>1, <2>2, <2>3, <2>4 DEF MarkersLifted, Creating, Editing, At
  <1>4. QED
    BY <1>2, <1>3

(* A course that is there and open is not hidden for good: short of a      *)
(* failure, a marker set while the course was missing is gone once the     *)
(* creation's warm-up or the edit that opened the course is over.          *)
THEOREM MarkersAreLifted == Spec => []MarkersLifted
  <1>1. Init => MarkersLifted
    BY DEF Init, MarkersLifted
  <1>2. QED
    BY <1>1, MarkersLiftedNext, TypingAlways, PTL DEF Spec
-----------------------------------------------------------------------------
(***************************************************************************)
(* Reservations and rebuilds.                                              *)
(***************************************************************************)
Held(p) == job[p].at \in {"pending", "cleanup"}
Claimed == {job[p].key : p \in {q \in Callers : Held(q)}}
Cold == {"read", "join", "write", "forget", "mark"}

(* What is about to be written is what MySQL has.                          *)
CopyCurrent(p) ==
  IF job[p].entry \in Courses
  THEN job[p].copy.stock = courses[job[p].entry].capacity - courses[job[p].entry].selected
  ELSE job[p].copy.selected = Timetable(job[p].entry)

Fits == \A c \in Courses : courses[c].selected <= courses[c].capacity

(* Who rebuilds an entry finds none, to the end.                           *)
ColdEntries ==
  \A p \in Callers : job[p].at \in Cold =>
    cache[job[p].entry] = None /\ (job[p].at = "write" => CopyCurrent(p))

(* Who has a reservation has it in two entries, and has it alone.          *)
Covered ==
  \A p \in Callers : Held(p) =>
    /\ cache[job[p].key[1]] # None /\ cache[job[p].key[2]] # None
    /\ job[p].key \notin enrolled
    /\ \A q \in Callers : Held(q) /\ job[q].key = job[p].key => p = q

Stocks ==
  \A c \in Courses : cache[c] # None =>
    cache[c].stock = courses[c].capacity - courses[c].selected - Cardinality(Reserved(c))

Selections ==
  \A s \in Students : cache[s] # None =>
    cache[s].selected = {c \in Courses : <<s, c>> \in enrolled \cup Claimed}

(* Nobody has compensated a request that another compensates again.        *)
Once == \A p \in Callers : job[p].at # "again"

Exactness ==
  late = {} /\ Fits /\ ColdEntries /\ Covered /\ Stocks /\ Selections /\ Once

LEMMA ReservedFinite ==
  \A c : IsFiniteSet(Reserved(c)) /\ Cardinality(Reserved(c)) \in Nat
  <1>1. ASSUME NEW c PROVE IsFiniteSet(Reserved(c)) /\ Cardinality(Reserved(c)) \in Nat
    <2>1. Reserved(c) \subseteq Callers
      BY DEF Reserved
    <2>2. QED
      BY <2>1, FiniteAssumption, FS_Subset, FS_CardinalityType
  <1>2. QED
    BY <1>1

LEMMA HeldKey ==
  ASSUME Typing, NEW p \in Callers, Held(p) \/ job[p].at = "reserve"
  PROVE  /\ job[p].key \in Keys /\ job[p].key = <<job[p].key[1], job[p].key[2]>>
         /\ job[p].key[1] \in Students /\ job[p].key[2] \in Courses
  BY PendingKey DEF Typing, Held, Queued

LEMMA ColdEntry ==
  ASSUME Typing, NEW p \in Callers, job[p].at \in Cold
  PROVE  /\ job[p].entry \in Entries /\ job[p].at \in Active /\ ~Held(p)
         /\ job[p].at \in Protected
  <1>1. job[p].at \in Active /\ ~Held(p) /\ job[p].at \in Protected
    BY Statements, ProtectedSteps DEF Cold, Held
  <1>2. QED
    BY <1>1, JobParts, CallerNames DEF Typing, Jobs

(* Steps of one caller that neither reserve nor write nor decide.          *)
LEMMA QuietStep ==
  ASSUME Typing, Exactness, NEW p \in Callers,
         UNCHANGED <<late, courses, enrolled>>,
         \A q \in Callers \ {p} : job'[q] = job[q],
         \A e \in Entries : cache'[e] = cache[e],
         Held(p)' <=> Held(p), Held(p) => job'[p].key = job[p].key,
         job'[p].at # "again",
         job'[p].at \in Cold =>
           /\ job'[p].entry \in Entries /\ cache[job'[p].entry] = None
           /\ job'[p].at = "write" => CopyCurrent(p)'
  PROVE  Exactness'
  <1>1. \A q \in Callers : (Held(q)' <=> Held(q)) /\ (Held(q) => job'[q].key = job[q].key)
    BY DEF Held
  <1>2. Claimed' = Claimed /\ \A c : Reserved(c)' = Reserved(c)
    BY <1>1 DEF Claimed, Reserved, Held
  <1>3. ColdEntries'
    <2>1. ASSUME NEW q \in Callers, job'[q].at \in Cold
          PROVE  cache'[job'[q].entry] = None /\ (job'[q].at = "write" => CopyCurrent(q)')
      <3>1. CASE q = p
        <4>1. cache'[job'[p].entry] = None /\ (job'[p].at = "write" => CopyCurrent(p)')
          BY <2>1, <3>1
        <4>2. QED
          BY <3>1, <4>1 DEF CopyCurrent, Timetable
      <3>2. CASE q # p
        <4>1. job'[q] = job[q] /\ job[q].entry \in Entries
          BY <2>1, <3>2, ColdEntry
        <4>2. CopyCurrent(q) => CopyCurrent(q)'
          BY <4>1 DEF CopyCurrent, Timetable
        <4>3. QED
          BY <2>1, <4>1, <4>2 DEF Exactness, ColdEntries
      <3>3. QED
        BY <3>1, <3>2
    <2>2. QED
      BY <2>1 DEF ColdEntries
  <1>4. Covered'
    <2>1. \A q \in Callers : Held(q) => job[q].key[1] \in Entries /\ job[q].key[2] \in Entries
      BY HeldKey DEF Entries
    <2>2. QED
      BY <1>1, <2>1 DEF Exactness, Covered
  <1>5. Stocks' /\ Selections'
    BY <1>2 DEF Exactness, Stocks, Selections, Entries
  <1>6. Once'
    BY DEF Exactness, Once
  <1>7. QED
    BY <1>3, <1>4, <1>5, <1>6 DEF Exactness, Fits

LEMMA ReserveKeeps ==
  ASSUME Typing, Exactness, NEW p \in Callers, NEW s \in Students, NEW c \in Courses,
         Reserve(p), job[p].key = <<s, c>>, TakesPlace(s, c)
  PROVE  Exactness'
  <1>1. /\ job'[p].at = "pending" /\ job'[p].key = <<s, c>>
        /\ \A q \in Callers \ {p} : job'[q] = job[q]
        /\ UNCHANGED <<late, courses, enrolled>>
        /\ ~Held(p) /\ Held(p)'
    <2>1. /\ Goto(p, "pending") /\ UNCHANGED <<late, courses, enrolled>> /\ job[p].at = "reserve"
      BY DEF Reserve, At
    <2>2. CallerStep(p)
      BY DEF CallerStep, Call
    <2>3. QED
      BY <2>1, <2>2, NextJob, Alone, CallerNames DEF Held, Typing
  <1>2. /\ Claimed' = Claimed \cup {<<s, c>>}
        /\ Reserved(c)' = Reserved(c) \cup {p} /\ p \notin Reserved(c)
        /\ \A d \in Courses \ {c} : Reserved(d)' = Reserved(d)
    BY <1>1 DEF Claimed, Reserved, Held
  <1>3. /\ \A e \in Entries : cache'[e] = None <=> cache[e] = None
        /\ \A e \in Entries \ {s, c} : cache'[e] = cache[e]
    BY PlaceTaken
  <1>4. ColdEntries'
    <2>1. ASSUME NEW q \in Callers, job'[q].at \in Cold
          PROVE  cache'[job'[q].entry] = None /\ (job'[q].at = "write" => CopyCurrent(q)')
      <3>1. job'[q] = job[q] /\ job[q].entry \in Entries
        BY <1>1, <2>1, ColdEntry DEF Cold
      <3>2. CopyCurrent(q) => CopyCurrent(q)'
        BY <1>1, <3>1 DEF CopyCurrent, Timetable
      <3>3. QED
        BY <1>3, <2>1, <3>1, <3>2 DEF Exactness, ColdEntries
    <2>2. QED
      BY <2>1 DEF ColdEntries
  <1>5. <<s, c>> \notin enrolled /\ <<s, c>> \notin Claimed
    <2>1. cache[s] # None /\ c \notin cache[s].selected
      BY PlaceTaken DEF TakesPlace
    <2>2. cache[s].selected = {d \in Courses : <<s, d>> \in enrolled \cup Claimed}
      BY <2>1 DEF Exactness, Selections
    <2>3. QED
      BY <2>1, <2>2
  <1>6. Covered'
    <2>1. ASSUME NEW q \in Callers, Held(q)'
          PROVE  /\ cache'[job'[q].key[1]] # None /\ cache'[job'[q].key[2]] # None
                 /\ job'[q].key \notin enrolled
                 /\ \A r \in Callers : Held(r)' /\ job'[r].key = job'[q].key => q = r
      <3>1. CASE q = p
        <4>1. /\ cache'[job'[q].key[1]] # None /\ cache'[job'[q].key[2]] # None
          BY <1>1, <3>1, PlaceTaken
        <4>2. \A r \in Callers \ {p} : Held(r)' => job'[r].key # <<s, c>>
          BY <1>1, <1>5 DEF Claimed, Held
        <4>3. QED
          BY <1>1, <1>5, <3>1, <4>1, <4>2
      <3>2. CASE q # p
        <4>1. Held(q) /\ job'[q] = job[q]
          BY <1>1, <2>1, <3>2 DEF Held
        <4>2. job[q].key[1] \in Entries /\ job[q].key[2] \in Entries
          BY <4>1, HeldKey DEF Entries
        <4>3. job[q].key # <<s, c>>
          BY <1>5, <4>1 DEF Claimed
        <4>4. \A r \in Callers \ {p} : Held(r)' => Held(r) /\ job'[r] = job[r]
          BY <1>1 DEF Held
        <4>5. QED
          BY <1>1, <1>3, <4>1, <4>2, <4>3, <4>4 DEF Exactness, Covered
      <3>3. QED
        BY <3>1, <3>2
    <2>2. QED
      BY <1>1, <2>1 DEF Covered
  <1>7. Stocks'
    <2>1. ASSUME NEW d \in Courses, cache'[d] # None
          PROVE  cache'[d].stock = courses[d].capacity - courses[d].selected - Cardinality(Reserved(d)')
      <3>1. CASE d = c
        <4>1. Cardinality(Reserved(c)') = Cardinality(Reserved(c)) + 1
          BY <1>2, ReservedFinite, FS_AddElement
        <4>2. cache[c].stock = courses[c].capacity - courses[c].selected - Cardinality(Reserved(c))
          BY PlaceTaken DEF Exactness, Stocks
        <4>3. courses[c].capacity \in Nat /\ courses[c].selected \in Nat
          BY DEF Typing, Tables, CourseRow
        <4>4. QED
          BY <3>1, <4>1, <4>2, <4>3, PlaceTaken, ReservedFinite
      <3>2. CASE d # c
        <4>1. cache'[d] = cache[d] /\ Reserved(d)' = Reserved(d)
          BY <1>2, <1>3, <3>2, NamesAssumption DEF Entries
        <4>2. QED
          BY <2>1, <4>1 DEF Exactness, Stocks
      <3>3. QED
        BY <3>1, <3>2
    <2>2. QED
      BY <1>1, <2>1 DEF Stocks
  <1>8. Selections'
    <2>1. ASSUME NEW u \in Students, cache'[u] # None
          PROVE  cache'[u].selected = {d \in Courses : <<u, d>> \in enrolled \cup Claimed'}
      <3>1. CASE u = s
        <4>1. cache[s].selected = {d \in Courses : <<s, d>> \in enrolled \cup Claimed}
          BY PlaceTaken DEF Exactness, Selections
        <4>2. QED
          BY <1>2, <3>1, <4>1, PlaceTaken
      <3>2. CASE u # s
        <4>1. cache'[u] = cache[u]
          BY <1>3, <3>2, NamesAssumption DEF Entries
        <4>2. QED
          BY <1>2, <2>1, <3>2, <4>1 DEF Exactness, Selections
      <3>3. QED
        BY <3>1, <3>2
    <2>2. QED
      BY <1>1, <2>1 DEF Selections
  <1>9. QED
    BY <1>1, <1>4, <1>6, <1>7, <1>8 DEF Exactness, Fits, Once

LEMMA ReleaseKeeps ==
  ASSUME Typing, Exactness, NEW p \in Callers, NEW s \in Students, NEW c \in Courses,
         CleanUp(p), job[p].key = <<s, c>>, GivesPlace(s, c)
  PROVE  Exactness'
  <1>1. /\ Held(p) /\ ~Held(p)' /\ job'[p].at \notin Cold \cup {"again"}
        /\ \A q \in Callers \ {p} : job'[q] = job[q]
        /\ UNCHANGED <<late, courses, enrolled>>
    <2>1. /\ Goto(p, "done") /\ UNCHANGED <<late, courses, enrolled>> /\ job[p].at = "cleanup"
      BY DEF CleanUp, Exactness, Once
    <2>2. CallerStep(p)
      BY DEF CallerStep
    <2>3. QED
      BY <2>1, <2>2, NextJob, Alone, CallerNames DEF Held, Typing, Cold
  <1>2. \A q \in Callers \ {p} : Held(q) => job[q].key # <<s, c>>
    BY <1>1 DEF Exactness, Covered
  <1>3. /\ Claimed' = Claimed \ {<<s, c>>} /\ <<s, c>> \notin enrolled
        /\ Reserved(c)' = Reserved(c) \ {p} /\ p \in Reserved(c)
        /\ \A d \in Courses \ {c} : Reserved(d)' = Reserved(d)
    <2>1. \A q \in Callers \ {p} : (Held(q)' <=> Held(q)) /\ job'[q] = job[q]
      BY <1>1 DEF Held
    <2>2. Claimed' = Claimed \ {<<s, c>>}
      BY <1>1, <1>2, <2>1 DEF Claimed
    <2>3. QED
      BY <1>1, <2>2 DEF Reserved, Held, Exactness, Covered
  <1>4. /\ \A e \in Entries : cache'[e] = None <=> cache[e] = None
        /\ \A e \in Entries \ {s, c} : cache'[e] = cache[e]
    BY PlaceGiven
  <1>5. ColdEntries'
    <2>1. ASSUME NEW q \in Callers, job'[q].at \in Cold
          PROVE  cache'[job'[q].entry] = None /\ (job'[q].at = "write" => CopyCurrent(q)')
      <3>1. job'[q] = job[q] /\ job[q].entry \in Entries
        BY <1>1, <2>1, ColdEntry
      <3>2. CopyCurrent(q) => CopyCurrent(q)'
        BY <1>1, <3>1 DEF CopyCurrent, Timetable
      <3>3. QED
        BY <1>4, <2>1, <3>1, <3>2 DEF Exactness, ColdEntries
    <2>2. QED
      BY <2>1 DEF ColdEntries
  <1>6. Covered'
    <2>1. ASSUME NEW q \in Callers, Held(q)'
          PROVE  /\ cache'[job'[q].key[1]] # None /\ cache'[job'[q].key[2]] # None
                 /\ job'[q].key \notin enrolled
                 /\ \A r \in Callers : Held(r)' /\ job'[r].key = job'[q].key => q = r
      <3>1. q # p /\ Held(q) /\ job'[q] = job[q]
        BY <1>1, <2>1 DEF Held
      <3>2. job[q].key[1] \in Entries /\ job[q].key[2] \in Entries
        BY <3>1, HeldKey DEF Entries
      <3>3. \A r \in Callers : Held(r)' => Held(r) /\ job'[r] = job[r]
        BY <1>1 DEF Held
      <3>4. QED
        BY <1>1, <1>4, <3>1, <3>2, <3>3 DEF Exactness, Covered
    <2>2. QED
      BY <1>1, <2>1 DEF Covered
  <1>7. Stocks'
    <2>1. ASSUME NEW d \in Courses, cache'[d] # None
          PROVE  cache'[d].stock = courses[d].capacity - courses[d].selected - Cardinality(Reserved(d)')
      <3>1. CASE d = c
        <4>1. Cardinality(Reserved(c)') = Cardinality(Reserved(c)) - 1
          BY <1>3, ReservedFinite, FS_RemoveElement
        <4>2. cache[c].stock = courses[c].capacity - courses[c].selected - Cardinality(Reserved(c))
          BY PlaceGiven DEF Exactness, Stocks
        <4>3. courses[c].capacity \in Nat /\ courses[c].selected \in Nat
          BY DEF Typing, Tables, CourseRow
        <4>4. QED
          BY <3>1, <4>1, <4>2, <4>3, PlaceGiven, ReservedFinite
      <3>2. CASE d # c
        <4>1. cache'[d] = cache[d] /\ Reserved(d)' = Reserved(d)
          BY <1>3, <1>4, <3>2, NamesAssumption DEF Entries
        <4>2. QED
          BY <2>1, <4>1 DEF Exactness, Stocks
      <3>3. QED
        BY <3>1, <3>2
    <2>2. QED
      BY <1>1, <2>1 DEF Stocks
  <1>8. Selections'
    <2>1. ASSUME NEW u \in Students, cache'[u] # None
          PROVE  cache'[u].selected = {d \in Courses : <<u, d>> \in enrolled \cup Claimed'}
      <3>1. CASE u = s
        <4>1. cache[s].selected = {d \in Courses : <<s, d>> \in enrolled \cup Claimed}
          BY PlaceGiven DEF Exactness, Selections
        <4>2. QED
          BY <1>3, <3>1, <4>1, PlaceGiven
      <3>2. CASE u # s
        <4>1. cache'[u] = cache[u]
          BY <1>4, <3>2, NamesAssumption DEF Entries
        <4>2. QED
          BY <1>3, <2>1, <3>2, <4>1 DEF Exactness, Selections
      <3>3. QED
        BY <3>1, <3>2
    <2>2. QED
      BY <1>1, <2>1 DEF Selections
  <1>9. QED
    BY <1>1, <1>5, <1>6, <1>7, <1>8 DEF Exactness, Fits, Once

LEMMA AcceptKeeps ==
  ASSUME Typing, Exactness, NEW p \in Callers, Accept(p)
  PROVE  Exactness'
  <1> PICK s, c : s = job[p].key[1] /\ c = job[p].key[2]
    OBVIOUS
  <1>1. /\ Held(p) /\ ~Held(p)' /\ job'[p].at \notin Cold \cup {"again"}
        /\ \A q \in Callers \ {p} : job'[q] = job[q]
        /\ s \in Students /\ c \in Courses /\ s \in Entries /\ c \in Entries
        /\ job[p].key = <<s, c>>
    <2>1. Goto(p, "done") /\ job[p].at = "pending"
      BY DEF Accept, At
    <2>2. CallerStep(p)
      BY DEF CallerStep
    <2>3. Held(p)
      BY <2>1 DEF Held
    <2>4. QED
      BY <2>1, <2>2, <2>3, NextJob, Alone, CallerNames, HeldKey DEF Held, Typing, Cold, Entries
  <1>2. /\ courses[c].selected < courses[c].capacity
        /\ courses' = [courses EXCEPT ![c].selected = @ + 1]
        /\ enrolled' = enrolled \cup {<<s, c>>}
        /\ UNCHANGED <<late, cache>>
    BY DEF Accept
  <1>3. /\ courses'[c].selected = courses[c].selected + 1
        /\ courses'[c].capacity = courses[c].capacity
        /\ \A d \in Courses \ {c} : courses'[d] = courses[d]
        /\ \A d \in Courses : courses[d].selected \in Nat /\ courses[d].capacity \in Nat
        /\ \A u \in Students \ {s} : Timetable(u)' = Timetable(u)
    BY <1>1, <1>2 DEF Typing, Tables, Timetable, CourseRow
  <1>4. \A q \in Callers \ {p} : Held(q) => job[q].key # <<s, c>>
    BY <1>1 DEF Exactness, Covered
  <1>5. /\ Claimed' = Claimed \ {<<s, c>>} /\ <<s, c>> \in Claimed
        /\ Reserved(c)' = Reserved(c) \ {p} /\ p \in Reserved(c)
        /\ \A d \in Courses \ {c} : Reserved(d)' = Reserved(d)
    <2>1. \A q \in Callers \ {p} : (Held(q)' <=> Held(q)) /\ job'[q] = job[q]
      BY <1>1 DEF Held
    <2>2. Claimed' = Claimed \ {<<s, c>>} /\ <<s, c>> \in Claimed
      BY <1>1, <1>4, <2>1 DEF Claimed
    <2>3. QED
      BY <1>1, <2>2 DEF Reserved, Held
  <1>6. cache[s] # None /\ cache[c] # None
    BY <1>1 DEF Exactness, Covered
  <1>7. Fits'
    <2>1. \A d \in Courses : courses'[d].selected <= courses'[d].capacity
      BY <1>2, <1>3 DEF Exactness, Fits
    <2>2. QED
      BY <2>1 DEF Fits
  <1>8. ColdEntries'
    <2>1. ASSUME NEW q \in Callers, job'[q].at \in Cold
          PROVE  cache'[job'[q].entry] = None /\ (job'[q].at = "write" => CopyCurrent(q)')
      <3>1. job'[q] = job[q] /\ job[q].entry \in Entries /\ cache[job[q].entry] = None
        BY <1>1, <2>1, ColdEntry DEF Exactness, ColdEntries
      <3>2. job[q].entry # s /\ job[q].entry # c
        BY <1>6, <3>1
      <3>3. CopyCurrent(q) => CopyCurrent(q)'
        BY <1>3, <3>1, <3>2 DEF CopyCurrent, Entries
      <3>4. QED
        BY <1>2, <2>1, <3>1, <3>3 DEF Exactness, ColdEntries
    <2>2. QED
      BY <2>1 DEF ColdEntries
  <1>9. Covered'
    <2>1. ASSUME NEW q \in Callers, Held(q)'
          PROVE  /\ cache'[job'[q].key[1]] # None /\ cache'[job'[q].key[2]] # None
                 /\ job'[q].key \notin enrolled'
                 /\ \A r \in Callers : Held(r)' /\ job'[r].key = job'[q].key => q = r
      <3>1. q # p /\ Held(q) /\ job'[q] = job[q]
        BY <1>1, <2>1 DEF Held
      <3>2. job[q].key # <<s, c>>
        BY <1>4, <3>1
      <3>3. \A r \in Callers : Held(r)' => Held(r) /\ job'[r] = job[r]
        BY <1>1 DEF Held
      <3>4. QED
        BY <1>2, <3>1, <3>2, <3>3 DEF Exactness, Covered
    <2>2. QED
      BY <2>1 DEF Covered
  <1>10. Stocks'
    <2>1. ASSUME NEW d \in Courses, cache[d] # None
          PROVE  cache[d].stock = courses'[d].capacity - courses'[d].selected - Cardinality(Reserved(d)')
      <3>1. cache[d].stock = courses[d].capacity - courses[d].selected - Cardinality(Reserved(d))
        BY <2>1 DEF Exactness, Stocks
      <3>2. CASE d = c
        <4>1. Cardinality(Reserved(c)') = Cardinality(Reserved(c)) - 1
          <5>1. Cardinality(Reserved(c) \ {p}) = Cardinality(Reserved(c)) - 1
            <6>1. IsFiniteSet(Reserved(c))
              BY ReservedFinite
            <6>2. p \in Reserved(c)
              BY <1>5
            <6>3. QED
              BY <6>1, <6>2, FS_RemoveElement
          <5>2. QED
            BY <1>5, <5>1
        <4>2. QED
          BY <1>1, <1>3, <3>1, <3>2, <4>1, ReservedFinite
      <3>3. CASE d # c
        BY <1>3, <1>5, <3>1, <3>3
      <3>4. QED
        BY <3>2, <3>3
    <2>2. QED
      BY <1>2, <2>1 DEF Stocks
  <1>11. Selections'
    <2>1. enrolled' \cup Claimed' = enrolled \cup Claimed
      BY <1>2, <1>5
    <2>2. QED
      BY <1>2, <2>1 DEF Exactness, Selections
  <1>12. QED
    BY <1>1, <1>2, <1>7, <1>8, <1>9, <1>10, <1>11 DEF Exactness, Once

LEMMA WriteKeeps ==
  ASSUME Typing, LockKept, Exactness, NEW p \in Callers, Write(p)
  PROVE  Exactness'
  <1> PICK e : e = job[p].entry
    OBVIOUS
  <1>1. /\ e \in Entries /\ job[p].at = "write" /\ job[p].copy \in EntryOf(e)
        /\ cache'[e] = [job[p].copy EXCEPT !.asof = VersionOf(e)]
        /\ VersionOf(e) \in Nat /\ cache'[e] \in EntryOf(e)
        /\ \A d \in Entries \ {e} : cache'[d] = cache[d]
    BY CallerNames, Writes DEF Typing
  <1>2. /\ \A q \in Callers \ {p} : job'[q] = job[q]
        /\ ~Held(p) /\ ~Held(p)' /\ job'[p].at \notin Cold \cup {"again"}
        /\ UNCHANGED <<late, courses, enrolled>>
    <2>1. Goto(p, "release") /\ UNCHANGED <<late, courses, enrolled>>
      BY DEF Write, AfterWrite
    <2>2. CallerStep(p)
      BY DEF CallerStep, Call
    <2>3. QED
      BY <1>1, <2>1, <2>2, NextJob, Alone, CallerNames DEF Held, Typing, Cold
  <1>3. cache[e] = None /\ CopyCurrent(p)
    BY <1>1 DEF Exactness, ColdEntries, Cold
  <1>4. \A q \in Callers : (Held(q)' <=> Held(q)) /\ (Held(q) => job'[q] = job[q])
    BY <1>2 DEF Held
  <1>5. Claimed' = Claimed /\ \A c : Reserved(c)' = Reserved(c)
    <2>1. Claimed' = Claimed
      BY <1>4 DEF Claimed
    <2>2. QED
      BY <1>2, <2>1 DEF Reserved, Held
  <1>6. \A q \in Callers : Held(q) => /\ job[q].key[1] # e /\ job[q].key[2] # e
                                      /\ job[q].key[1] \in Entries /\ job[q].key[2] \in Entries
    BY <1>3, HeldKey DEF Exactness, Covered, Entries
  <1>7. ColdEntries'
    <2>1. ASSUME NEW q \in Callers, job'[q].at \in Cold
          PROVE  cache'[job'[q].entry] = None /\ (job'[q].at = "write" => CopyCurrent(q)')
      <3>1. q # p /\ job'[q] = job[q] /\ job[q].entry \in Entries /\ job[q].at \in Protected
        BY <1>2, <2>1, ColdEntry
      <3>2. job[q].entry # e
        BY <1>1, <3>1, ProtectedSteps DEF LockKept, Exactness
      <3>3. CopyCurrent(q) => CopyCurrent(q)'
        BY <1>2, <3>1 DEF CopyCurrent, Timetable
      <3>4. QED
        BY <1>1, <2>1, <3>1, <3>2, <3>3 DEF Exactness, ColdEntries
    <2>2. QED
      BY <2>1 DEF ColdEntries
  <1>8. Covered'
    <2>1. ASSUME NEW q \in Callers, Held(q)'
          PROVE  /\ cache'[job'[q].key[1]] # None /\ cache'[job'[q].key[2]] # None
                 /\ job'[q].key \notin enrolled
                 /\ \A r \in Callers : Held(r)' /\ job'[r].key = job'[q].key => q = r
      BY <1>1, <1>4, <1>6, <2>1 DEF Exactness, Covered
    <2>2. QED
      BY <1>2, <2>1 DEF Covered
  <1>9. Stocks'
    <2>1. ASSUME NEW d \in Courses, cache'[d] # None
          PROVE  cache'[d].stock = courses[d].capacity - courses[d].selected - Cardinality(Reserved(d))
      <3>1. CASE d = e
        <4>1. Reserved(d) = {}
          BY <1>6, <3>1 DEF Reserved, Held
        <4>2. cache'[d].stock = job[p].copy.stock
          <5>1. job[p].copy \in CourseEntry /\ VersionOf(e) \in Nat
            BY <1>1, <2>1, <3>1 DEF EntryOf
          <5>2. [job[p].copy EXCEPT !.asof = VersionOf(e)].stock = job[p].copy.stock
            BY <5>1, CourseEntries
          <5>3. QED
            BY <1>1, <3>1, <5>2
        <4>3. job[p].copy.stock = courses[d].capacity - courses[d].selected
          BY <1>3, <2>1, <3>1 DEF CopyCurrent
        <4>4. courses[d].capacity \in Nat /\ courses[d].selected \in Nat
          BY DEF Typing, Tables, CourseRow
        <4>5. QED
          BY <4>1, <4>2, <4>3, <4>4, FS_EmptySet
      <3>2. CASE d # e
        BY <1>1, <2>1, <3>2 DEF Exactness, Stocks, Entries
      <3>3. QED
        BY <3>1, <3>2
    <2>2. QED
      BY <1>2, <1>5, <2>1 DEF Stocks
  <1>10. Selections'
    <2>1. ASSUME NEW u \in Students, cache'[u] # None
          PROVE  cache'[u].selected = {d \in Courses : <<u, d>> \in enrolled \cup Claimed}
      <3>1. CASE u = e
        <4>1. u \notin Courses
          BY NamesAssumption
        <4>2. cache'[u].selected = job[p].copy.selected
          BY <1>1, <3>1, <4>1, StudentStamped DEF EntryOf
        <4>3. job[p].copy.selected = Timetable(u)
          BY <1>3, <3>1, <4>1 DEF CopyCurrent
        <4>4. \A d : <<u, d>> \notin Claimed
          BY <1>6, <3>1 DEF Claimed
        <4>5. QED
          BY <4>2, <4>3, <4>4 DEF Timetable
      <3>2. CASE u # e
        BY <1>1, <2>1, <3>2 DEF Exactness, Selections, Entries
      <3>3. QED
        BY <3>1, <3>2
    <2>2. QED
      BY <1>2, <1>5, <2>1 DEF Selections
  <1>11. QED
    BY <1>2, <1>7, <1>8, <1>9, <1>10 DEF Exactness, Fits, Once

(* Every step of a caller, as long as nothing disturbs it.                 *)
LEMMA CallerKeeps ==
  ASSUME Typing, LockKept, Exactness, [Next]_vars, NEW p \in Callers, CallerStep(p),
         UNCHANGED counters
  PROVE  Exactness'
  <1>1. /\ ~Fault /\ ~Disturb /\ p \in Goroutines
        /\ \A q \in Callers \ {p} : job'[q] = job[q]
        /\ JobOK(known, p, job[p]) /\ DOMAIN job = Goroutines
    <2>1. ~Fault /\ ~Disturb
      BY DEF Fault, Disturb, Typing, Budget
    <2>2. QED
      BY <2>1, Alone, CallerNames DEF Typing, Jobs
  <1>2. ASSUME UNCHANGED <<late, courses, enrolled, cache>>, ~Held(p), ~Held(p)',
               job'[p].at \notin Cold \cup {"again"}
        PROVE  Exactness'
    BY <1>1, <1>2, QuietStep
  <1>3. \A x : Goto(p, x) => job'[p].at = x /\ job'[p].entry = job[p].entry
                              /\ job'[p].key = job[p].key /\ job'[p].copy = job[p].copy
    BY <1>1, NextJob
  <1>4. Ready(p) => job'[p].at \in {"look", "reserve"}
    BY <1>1, NextJob
  <1>5. CASE Submit(p)
    <2>1. job'[p].at = "look" /\ job[p].at = "idle" /\ UNCHANGED <<late, courses, enrolled, cache>>
      BY <1>1, <1>5 DEF Submit, At
    <2>2. QED
      BY <1>2, <2>1 DEF Held, Cold
  <1>6. CASE Look(p) \/ Acquire(p) \/ WaitEnds(p) \/ Refused(p)
    <2>1. /\ UNCHANGED <<late, courses, enrolled, cache>>
          /\ job[p].at \in {"look", "acquire", "wait", "reserve"}
          /\ Ready(p) \/ \E x \in {"done", "acquire", "recheck", "wait"} : Goto(p, x)
      BY <1>6 DEF Look, Acquire, WaitEnds, Refused, At
    <2>2. job'[p].at \in {"done", "acquire", "recheck", "wait", "look", "reserve"}
      BY <1>3, <1>4, <2>1
    <2>3. QED
      BY <1>2, <2>1, <2>2 DEF Held, Cold
  <1>7. CASE Release(p)
    <2>1. /\ UNCHANGED <<courses, enrolled, cache>> /\ late' = late \ {p}
          /\ job[p].at \in Leaving /\ (Ready(p) \/ Goto(p, "done"))
      BY <1>7 DEF Release, Leave
    <2>2. job'[p].at \in {"done", "look", "reserve"} /\ UNCHANGED late
      BY <1>3, <1>4, <2>1 DEF Exactness
    <2>3. QED
      BY <1>2, <2>1, <2>2 DEF Held, Cold, Leaving
  <1>8. ~CallFails(p) /\ ~ReleaseFails(p)
    BY <1>1 DEF CallFails, ReleaseFails
  <1>9. CASE Recheck(p)
    <2>1. /\ UNCHANGED <<late, courses, enrolled, cache>> /\ job[p].at = "recheck"
          /\ \/ Goto(p, "quit") \/ Goto(p, "release")
             \/ Goto(p, "read") /\ cache[job[p].entry] = None
      BY <1>9 DEF Recheck, Present, At
    <2>2. job[p].entry \in Entries
      BY <1>1, <2>1, Statements, JobParts
    <2>3. CASE Goto(p, "read") /\ cache[job[p].entry] = None
      <3>1. /\ ~Held(p) /\ ~Held(p)'
            /\ job'[p].entry \in Entries /\ cache[job'[p].entry] = None
            /\ job'[p].at \notin {"write", "again"}
        BY <1>3, <2>1, <2>2, <2>3 DEF Held
      <3>2. QED
        BY <1>1, <2>1, <3>1, QuietStep
    <2>4. CASE Goto(p, "quit") \/ Goto(p, "release")
      BY <1>2, <1>3, <2>1, <2>4 DEF Held, Cold
    <2>5. QED
      BY <2>1, <2>3, <2>4
  <1>10. CASE Read(p) \/ Join(p)
    <2>1. /\ UNCHANGED <<late, courses, enrolled, cache>> /\ job[p].at \in {"read", "join"}
      BY <1>10 DEF Read, Join, At
    <2>2. /\ job[p].entry \in Entries /\ cache[job[p].entry] = None
      BY <2>1, ColdEntry DEF Exactness, ColdEntries, Cold
    <2>3. /\ job'[p].entry = job[p].entry
          /\ job'[p].at \in {"forget", "join", "write"}
      <3>1. Read(p) => \/ Goto(p, "forget")
                       \/ job' = [job EXCEPT ![p].at = IF job[p].entry \in Courses THEN "write" ELSE "join",
                                             ![p].copy = Row(job[p].entry)]
        BY DEF Read
      <3>2. Join(p) => job' = [job EXCEPT ![p].at = "write",
                                          ![p].copy = Joined(job[p].entry, @)]
        BY DEF Join
      <3>3. job[p] \in JobRecord
        BY <1>1 DEF JobOK
      <3>4. QED
        BY <1>1, <1>3, <1>10, <3>1, <3>2, <3>3 DEF JobRecord
    <2>4. job'[p].at = "write" => CopyCurrent(p)'
      <3>1. SUFFICES ASSUME job'[p].at = "write" PROVE CopyCurrent(p)'
        OBVIOUS
      <3>2. CASE job[p].entry \in Courses
        <4>1. job'[p].copy = Row(job[p].entry)
          BY <2>1, <3>1, <3>2, <1>1, Copying, NamesAssumption
        <4>2. /\ courses[job[p].entry].selected <= courses[job[p].entry].capacity
              /\ courses[job[p].entry].selected \in Nat /\ courses[job[p].entry].capacity \in Nat
          BY <3>2 DEF Exactness, Fits, Typing, Tables, CourseRow
        <4>3. Row(job[p].entry).stock = courses[job[p].entry].capacity - courses[job[p].entry].selected
          BY <3>2, <4>2 DEF Row
        <4>4. QED
          BY <2>1, <2>3, <3>2, <4>1, <4>3 DEF CopyCurrent
      <3>3. CASE job[p].entry \notin Courses
        <4>1. /\ job[p].copy \in StudentEntry
              /\ job'[p].copy = Joined(job[p].entry, job[p].copy)
          BY <1>1, <2>1, <2>3, <3>1, <3>3, Copying
        <4>2. job'[p].copy.selected = Timetable(job[p].entry)
          BY <4>1, JoinedTyped DEF Typing
        <4>3. QED
          BY <2>1, <2>3, <3>3, <4>2 DEF CopyCurrent, Timetable
      <3>4. QED
        BY <3>2, <3>3
    <2>5. ~Held(p) /\ ~Held(p)'
      BY <2>1, <2>3 DEF Held
    <2>6. QED
      BY <1>1, <2>1, <2>2, <2>3, <2>4, <2>5, QuietStep
  <1>11. CASE Write(p)
    BY <1>11, WriteKeeps
  <1>12. CASE Forget(p)
    <2>1. /\ UNCHANGED <<late, courses, enrolled>> /\ job[p].at = "forget" /\ Goto(p, "mark")
          /\ Invalidate({job[p].entry}) \/ UNCHANGED cache
      BY <1>12 DEF Forget, At
    <2>2. job[p].entry \in Entries /\ cache[job[p].entry] = None
      BY <2>1, ColdEntry DEF Exactness, ColdEntries, Cold
    <2>3. \A e \in Entries : cache'[e] = cache[e]
      BY <2>1, <2>2 DEF Invalidate
    <2>4. /\ ~Held(p) /\ ~Held(p)' /\ job'[p].at \notin {"write", "again"}
          /\ job'[p].entry \in Entries /\ cache[job'[p].entry] = None
      BY <1>3, <2>1, <2>2 DEF Held
    <2>5. QED
      BY <1>1, <2>1, <2>3, <2>4, QuietStep
  <1>13. CASE Mark(p)
    <2>1. /\ UNCHANGED <<late, courses, enrolled, cache>> /\ job[p].at = "mark"
          /\ Goto(p, "quit")
      BY <1>13 DEF Mark, At
    <2>2. QED
      BY <1>2, <1>3, <2>1 DEF Held, Cold
  <1>14. CASE Reserve(p)
    <2>1. PICK s \in Students, c \in Courses : job[p].key = <<s, c>> /\ TakesPlace(s, c)
      BY <1>14, Reserves DEF Typing
    <2>2. QED
      BY <1>14, <2>1, ReserveKeeps
  <1>15. CASE Accept(p)
    BY <1>15, AcceptKeeps
  <1>16. CASE Refuse(p)
    <2>1. /\ UNCHANGED <<late, courses, enrolled, cache>> /\ job[p].at = "pending"
          /\ Goto(p, "cleanup")
      BY <1>16 DEF Refuse, At
    <2>2. Held(p) /\ Held(p)' /\ job'[p].key = job[p].key /\ job'[p].at \notin Cold \cup {"again"}
      BY <1>3, <2>1 DEF Held, Cold
    <2>3. QED
      BY <1>1, <2>1, <2>2, QuietStep
  <1>17. CASE CleanUp(p)
    <2> PICK s, c : s = job[p].key[1] /\ c = job[p].key[2]
      OBVIOUS
    <2>1. Held(p)
      BY <1>17 DEF CleanUp, Exactness, Once, Held
    <2>2. s \in Students /\ c \in Courses /\ job[p].key = <<s, c>>
      BY <2>1, HeldKey
    <2>3. cache[c] # None /\ cache[s] # None /\ c \in cache[s].selected
      <3>1. cache[c] # None /\ cache[s] # None
        BY <2>1 DEF Exactness, Covered
      <3>2. <<s, c>> \in Claimed
        BY <2>1, <2>2 DEF Claimed
      <3>3. QED
        BY <2>2, <3>1, <3>2 DEF Exactness, Selections
    <2>4. cache' = Released(s, c) /\ UNCHANGED marker
      BY <1>1, <1>17, <2>3 DEF CleanUp, Compensate
    <2>5. GivesPlace(s, c)
      BY <2>2, <2>3, <2>4, Releases DEF Typing
    <2>6. QED
      BY <1>17, <2>2, <2>5, ReleaseKeeps
  <1>18. ~CleanUpFirst(p) /\ ~CleanUpFails(p)
    BY <1>1 DEF CleanUpFirst, CleanUpFails
  <1>19. QED
    BY <1>5, <1>6, <1>7, <1>8, <1>9, <1>10, <1>11, <1>12, <1>13, <1>14, <1>15, <1>16, <1>17,
       <1>18
    DEF CallerStep, Call

Calm == disturbances = 0 => Exactness

LEMMA CalmNext == Typing /\ LockKept /\ Calm /\ [Next]_vars => Calm'
  <1> SUFFICES ASSUME Typing, LockKept, Calm, [Next]_vars, disturbances' = 0
               PROVE  Exactness'
    BY DEF Calm
  <1>1. /\ disturbances \in Nat /\ faults \in Nat
        /\ faults' \in Nat /\ faults' <= disturbances'
    BY TypingNext DEF Typing, Budget, Due
  <1>2. ~Disturb /\ ~Fault /\ ~FaultWithin
    BY <1>1 DEF Disturb, Fault, FaultWithin
  <1>3. ASSUME disturbances = 0
        PROVE  /\ editor.step = 0 /\ job["drop"].at = "idle" /\ job["create"].at = "idle"
               /\ faults = 0 /\ Exactness
    BY <1>1, <1>3 DEF Typing, Budget, Due, Calm
  <1>4. ASSUME UNCHANGED <<late, enrolled, job>>, \A e \in Entries : cache'[e] = cache[e],
               \A c \in Courses : /\ courses'[c].selected = courses[c].selected
                                  /\ courses'[c].capacity = courses[c].capacity,
               Exactness
        PROVE  Exactness'
    <2>1. /\ Claimed' = Claimed /\ \A c : Reserved(c)' = Reserved(c)
          /\ \A p : Held(p)' <=> Held(p)
      BY <1>4 DEF Claimed, Reserved, Held
    <2>2. ColdEntries'
      <3>1. ASSUME NEW q \in Callers, job[q].at \in Cold
            PROVE  cache'[job[q].entry] = None /\ (job[q].at = "write" => CopyCurrent(q)')
        <4>1. job[q].entry \in Entries
          BY <3>1, ColdEntry
        <4>2. CopyCurrent(q) => CopyCurrent(q)'
          BY <1>4 DEF CopyCurrent, Timetable
        <4>3. QED
          BY <1>4, <3>1, <4>1, <4>2 DEF Exactness, ColdEntries
      <3>2. QED
        BY <1>4, <3>1 DEF ColdEntries
    <2>3. Covered'
      <3>1. \A q \in Callers : Held(q) => job[q].key[1] \in Entries /\ job[q].key[2] \in Entries
        BY HeldKey DEF Entries
      <3>2. QED
        BY <1>4, <2>1, <3>1 DEF Exactness, Covered
    <2>4. Stocks' /\ Selections' /\ Fits' /\ Once'
      BY <1>4, <2>1 DEF Exactness, Stocks, Selections, Fits, Once, Entries
    <2>5. QED
      BY <1>4, <2>2, <2>3, <2>4 DEF Exactness
  <1>5. ASSUME NEW p \in Callers, CallerStep(p) PROVE Exactness'
    <2>1. UNCHANGED counters
      BY <1>2, <1>5, CallerSpends
    <2>2. Exactness
      BY <1>3, <2>1
    <2>3. QED
      BY <1>5, <2>1, <2>2, CallerKeeps
  <1>6. ~ \E e \in Entries : ExpireLock(e) \/ StartEdit(e)
    BY <1>2 DEF ExpireLock, StartEdit
  <1>7. ~ \E k \in Keys : Drop(k)
    BY <1>2 DEF Drop
  <1>8. ~ServerCrash /\ ~RefreshFails /\ ~WarmUpFails
    BY <1>2 DEF ServerCrash, RefreshFails, WarmUpFails
  <1>9. ~RefreshStep("drop") /\ ~RefreshStep("create")
    <2>1. ASSUME NEW g \in {"drop", "create"}, RefreshStep(g) PROVE FALSE
      <3>1. disturbances = 0 /\ job[g].at # "idle"
        BY <2>1 DEF RefreshStep, Read, Join, Write, At
      <3>2. QED
        BY <1>3, <3>1
    <2>2. QED
      BY <2>1
  <1>10. ~EditRow /\ ~DeleteEntry
    <2>1. EditRow \/ DeleteEntry => disturbances = 0 /\ editor.step # 0
      BY <1>2 DEF EditRow, DeleteEntry
    <2>2. QED
      BY <1>3, <2>1
  <1>11. ASSUME NEW c \in Courses, CreateCourse(c) PROVE Exactness'
    <2>1. /\ courses' = [courses EXCEPT ![c].status = 0]
          /\ UNCHANGED <<job, disturbances, enrolled, cache, late>>
      BY <1>2, <1>11 DEF CreateCourse
    <2>2. \A d \in Courses : /\ courses'[d].selected = courses[d].selected
                             /\ courses'[d].capacity = courses[d].capacity
      BY <2>1 DEF Typing, Tables, CourseRow
    <2>3. QED
      BY <1>3, <1>4, <2>1, <2>2
  <1>12. CASE (\E c \in Courses : ExpireMarker(c)) \/ UNCHANGED vars
    <2>1. UNCHANGED <<late, enrolled, job, cache, courses, disturbances>>
      BY <1>12 DEF ExpireMarker, vars
    <2>2. QED
      BY <1>3, <1>4, <2>1
  <1>13. QED
    BY <1>5, <1>6, <1>7, <1>8, <1>9, <1>10, <1>11, <1>12, NextCases

LEMMA CalmInit == Init => Calm
  <1> SUFFICES ASSUME Init PROVE Exactness
    BY DEF Calm
  <1>1. Typing
    BY TypingInit
  <1>2. \A p \in Callers : job[p].at = "idle"
    BY CallerNames DEF Init, Idle
  <1>3. /\ Claimed = {} /\ \A c : Reserved(c) = {}
        /\ \A p \in Callers : ~Held(p) /\ job[p].at \notin Cold \cup {"again"}
    BY <1>2 DEF Claimed, Reserved, Held, Cold
  <1>4. \A c \in Courses : courses[c].selected = 0 /\ courses[c].capacity \in Nat
    BY <1>1 DEF Init, Typing, Tables, CourseRow
  <1>5. Stocks
    <2>1. ASSUME NEW c \in Courses, cache[c] # None PROVE cache[c].stock = courses[c].capacity
      <3>1. c \in Entries
        BY DEF Entries
      <3>2. cache = Preloaded
        BY <2>1, <3>1 DEF Init
      <3>3. cache[c] = Row(c)
        BY <2>1, <3>1, <3>2 DEF Preloaded, Loaded
      <3>4. QED
        BY <1>4, <3>3 DEF Row
    <2>2. \A c \in Courses : Cardinality(Reserved(c)) = 0
      BY <1>3, FS_EmptySet
    <2>3. ASSUME NEW c \in Courses, cache[c] # None
          PROVE  cache[c].stock = courses[c].capacity - courses[c].selected - Cardinality(Reserved(c))
      BY <1>4, <2>1, <2>2, <2>3
    <2>4. QED
      BY <2>3 DEF Stocks
  <1>6. Selections
    <2>1. ASSUME NEW s \in Students, cache[s] # None PROVE cache[s].selected = {}
      <3>1. s \in Entries /\ s \notin Courses
        BY NamesAssumption DEF Entries
      <3>2. cache = Preloaded
        BY <2>1, <3>1 DEF Init
      <3>3. cache[s] = Joined(s, Row(s)) /\ Row(s) \in StudentEntry
        BY <1>1, <3>1, <3>2, RowTyped DEF Preloaded, Loaded, Typing, EntryOf
      <3>4. cache[s].selected = Timetable(s)
        BY <1>1, <3>3, JoinedTyped DEF Typing
      <3>5. QED
        BY <3>4 DEF Timetable, Init
    <2>2. enrolled = {}
      BY DEF Init
    <2>3. QED
      BY <1>3, <2>1, <2>2 DEF Selections
  <1>7. QED
    BY <1>3, <1>4, <1>5, <1>6 DEF Exactness, Fits, ColdEntries, Covered, Once, Init

(* Many callers that find the entries cold never wipe out a reservation:   *)
(* as long as no lock expires, nobody edits, drops or fails, and no        *)
(* request is compensated twice, stock and selected courses in Redis are   *)
(* what MySQL has plus what is reserved, however many callers look, wait,  *)
(* rebuild, reserve and are refused.                                       *)
THEOREM CachesExact == Spec => []CacheExact
  <1>1. Typing /\ Calm => CacheExact
    <2> SUFFICES ASSUME Typing, Exactness,
                        NEW s \in Students, cache[s] # None
                 PROVE  cache[s].selected = Timetable(s) \cup
                          {c \in Courses : \E p \in Reserved(c) : job[p].key[1] = s}
      BY DEF Calm, CacheExact, Exactness, Stocks
    <2>1. \A c \in Courses : <<s, c>> \in Claimed
                              <=> \E p \in Reserved(c) : job[p].key[1] = s
      BY HeldKey DEF Claimed, Reserved, Held
    <2>2. QED
      BY <2>1 DEF Exactness, Selections, Timetable
  <1>2. QED
    BY <1>1, CalmInit, CalmNext, TypingAlways, LockKeptAlways, PTL DEF Spec
=============================================================================
