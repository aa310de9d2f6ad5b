--------------------------- MODULE AsyncSelection ---------------------------
(***************************************************************************)
(* An asynchronous selection from the HTTP request to its final answer.    *)
(*                                                                         *)
(* The server reserves a place in Redis, records the request as pending in *)
(* Redis and publishes a message; a worker consumes it, decides it in one  *)
(* MySQL transaction, undoes the reservation if the request failed and     *)
(* records the final state in Redis.  A request that stays pending too     *)
(* long is closed as failed by the worker's sweeper or by a client's poll. *)
(* No step of this spans two stores, so every two steps may be torn apart  *)
(* by a crash, an error or another process.                                *)
(*                                                                         *)
(* A MySQL transaction is one step here (SelectionTx shows that its locks  *)
(* make it one), so is a Lua script, and so is the rebuild of one missing  *)
(* cache entry from MySQL.  The courses are open and do not clash, and the *)
(* students' credits suffice: what is left of the rules is the capacity    *)
(* and "not twice".                                                        *)
(***************************************************************************)
EXTENDS Integers, FiniteSets

CONSTANTS
  Students, Courses, Requests,
  RequestKey,  \* [Requests -> Students \X Courses]: who asks for what
  Capacity,    \* [Courses -> Nat]
  Consumers,   \* one goroutine for each shard of the grab queue
  ConsumerOf,  \* [Courses -> Consumers]: the shard of a course's messages
  MaxFaults,   \* bound: errors and crashes in a behaviour
  MaxDrops,    \* bound: courses dropped in a behaviour
  Deadlocks,   \* may a fault be MySQL's choice of a deadlock victim?
  None         \* no request, no cache entry

Keys == Students \X Courses
Final == {"success", "failed"}
Closers == {"sweeper", "poll"}

ASSUME KeyAssumption == RequestKey \in [Requests -> Keys]
ASSUME CapacityAssumption == Capacity \in [Courses -> Nat]
ASSUME ConsumerAssumption == ConsumerOf \in [Courses -> Consumers]
ASSUME BoundAssumption ==
  MaxFaults \in Nat /\ MaxDrops \in Nat /\ Deadlocks \in BOOLEAN
ASSUME NoneAssumption == None \notin Requests /\ None \notin Keys
ASSUME FiniteAssumption == IsFiniteSet(Students)

VARIABLES
  enrolled,  \* MySQL: the active rows of enrollments
  row,       \* MySQL: the status in selection_requests, or "none"
  stock,     \* Redis: remaining places, or None when the key is missing
  held,      \* Redis: the student's selected courses, or None when missing
  state,     \* Redis: the request's state, or "none"
  due,       \* Redis: the requests in the sorted set of deadlines
  overdue,   \* the requests whose two minutes are over
  outlived,  \* history: the requests whose pending state lived out its day
  queue,     \* RabbitMQ: messages waiting for a consumer
  submit,    \* how far the HTTP goroutine of each request has come
  consumer,  \* [Consumers -> Job]: the message each one handles, unacked
  closer,    \* [Closers -> Job]: the timed out request each one closes
  dropping,  \* the drop whose caches are being refreshed, as a Job
  faults, drops,  \* how often the environment misbehaved, a course was dropped
  reserver   \* history: [Keys -> Requests \cup {None}], who reserved a place

mysql == <<enrolled, row>>
places == <<stock, held, reserver>>
states == <<state, due>>
ages == <<overdue, outlived>>
procs == <<submit, consumer, closer, dropping>>
vars == <<enrolled, row, stock, held, state, due, overdue, outlived, queue, submit,
          consumer, closer, dropping, faults, drops, reserver>>

(* What a goroutine is at, for which request (or, dropping, for which key) *)
(* and with what final status in its memory.                               *)
Idle == [at |-> "idle", for |-> None, status |-> "none"]
At(step, x) == [at |-> step, for |-> x, status |-> "none"]
Steps == {"decide", "insert", "cleanup", "store", "ack"}
Job == {Idle} \cup [at : Steps, for : Requests, status : {"none"} \cup Final]

Roster(c) == {s \in Students : <<s, c>> \in enrolled}
Timetable(s) == {c \in Courses : <<s, c>> \in enrolled}

Init ==
  /\ enrolled = {}
  /\ row = [r \in Requests |-> "none"]
  /\ stock = Capacity
  /\ held = [s \in Students |-> {}]
  /\ state = [r \in Requests |-> "none"]
  /\ due = {}
  /\ overdue = {}
  /\ outlived = {}
  /\ queue = {}
  /\ submit = [r \in Requests |-> "new"]
  /\ consumer = [n \in Consumers |-> Idle]
  /\ closer = [w \in Closers |-> Idle]
  /\ dropping = Idle
  /\ faults = 0
  /\ drops = 0
  /\ reserver = [k \in Keys |-> None]

(* An error or a crash, at most MaxFaults of them.                         *)
Fault == faults < MaxFaults /\ faults' = faults + 1
-----------------------------------------------------------------------------
(***************************************************************************)
(* The cached places: rebuild, reserve, release, reset.                    *)
(***************************************************************************)

(* EnsureCourseSelectionCache: a missing entry is rebuilt from MySQL.      *)
LoadCourse(c) ==
  /\ stock[c] = None
  /\ stock' = [stock EXCEPT ![c] = Capacity[c] - Cardinality(Roster(c))]
  /\ UNCHANGED <<mysql, held, reserver, states, ages, queue, procs, faults, drops>>

LoadStudent(s) ==
  /\ held[s] = None
  /\ held' = [held EXCEPT ![s] = Timetable(s)]
  /\ UNCHANGED <<mysql, stock, reserver, states, ages, queue, procs, faults, drops>>

Cached(k) == stock[k[2]] # None /\ held[k[1]] # None

FaultyReserve(r) ==  \* checked before the script, not in it
  LET k == RequestKey[r] IN
    /\ Cached(k)
    /\ stock' = [stock EXCEPT ![k[2]] = @ - 1]
    /\ held' = [held EXCEPT ![k[1]] = @ \cup {k[2]}]
    /\ reserver' = [reserver EXCEPT ![k] = r]

(* The Lua script of a reservation, successful.                            *)
Reserve(r) ==
  LET k == RequestKey[r] IN
    /\ Cached(k)
    /\ stock[k[2]] > 0
    /\ k[2] \notin held[k[1]]
    /\ stock' = [stock EXCEPT ![k[2]] = @ - 1]
    /\ held' = [held EXCEPT ![k[1]] = @ \cup {k[2]}]
    /\ reserver' = [reserver EXCEPT ![k] = r]

(* The Lua script of a compensation, if it sees a place reserved for this  *)
(* student and course.                                                     *)
GiveBack(k) ==
  /\ Cached(k)
  /\ k[2] \in held[k[1]]
  /\ stock' = [stock EXCEPT ![k[2]] = @ + 1]
  /\ held' = [held EXCEPT ![k[1]] = @ \ {k[2]}]

(* resetSelectionCaches: both entries are deleted, the course's first.     *)
Reset(k) ==
  /\ stock' = [stock EXCEPT ![k[2]] = None]
  /\ held' = [held EXCEPT ![k[1]] = None]

ResetFails(k) ==
  /\ stock' \in {stock, [stock EXCEPT ![k[2]] = None]}
  /\ UNCHANGED held

(* cleanupFailedSelection: a compensation that fails, because there is     *)
(* nothing to give back or because Redis does, deletes the entries.        *)
CleanUp(r) ==
  LET k == RequestKey[r] IN
    /\ \/ GiveBack(k) /\ UNCHANGED faults
       \/ ~(Cached(k) /\ k[2] \in held[k[1]]) /\ Reset(k) /\ UNCHANGED faults
       \/ Fault /\ Reset(k)
    /\ reserver' = [reserver EXCEPT ![k] = None]

CleanUpFails(r) == Fault /\ ResetFails(RequestKey[r]) /\ UNCHANGED reserver
-----------------------------------------------------------------------------
(***************************************************************************)
(* SubmitSelectCourse, in the HTTP server.                                 *)
(***************************************************************************)
Submitting(r, from, to) ==
  submit[r] = from /\ submit' = [submit EXCEPT ![r] = to]

SubmitReserve(r) ==
  /\ Submitting(r, "new", "reserved")
  /\ Reserve(r)
  /\ UNCHANGED <<mysql, states, ages, queue, consumer, closer, dropping, faults, drops>>

(* The script refuses, or a cache entry it needs was deleted under it.     *)
SubmitRefused(r) ==
  /\ Submitting(r, "new", "refused")
  /\ LET k == RequestKey[r] IN
       Cached(k) => stock[k[2]] <= 0 \/ k[2] \in held[k[1]]
  /\ UNCHANGED <<mysql, places, states, ages, queue, consumer, closer, dropping,
                 faults, drops>>

FaultyStorePending(r) ==  \* forgets the deadline index
  /\ Submitting(r, "reserved", "stored")
  /\ state' = [state EXCEPT ![r] = "pending"]
  /\ UNCHANGED <<mysql, places, due, ages, queue, consumer, closer, dropping,
                 faults, drops>>

StorePending(r) ==
  /\ Submitting(r, "reserved", "stored")
  /\ state' = [state EXCEPT ![r] = "pending"]
  /\ due' = due \cup {r}
  /\ UNCHANGED <<mysql, places, ages, queue, consumer, closer, dropping, faults, drops>>

(* The pipeline is not atomic: an error may leave either command applied.  *)
StorePendingFails(r) ==
  /\ Submitting(r, "reserved", "undo")
  /\ Fault
  /\ state' \in {state, [state EXCEPT ![r] = "pending"]}
  /\ due' \in {due, due \cup {r}}
  /\ UNCHANGED <<mysql, places, ages, queue, consumer, closer, dropping, drops>>

Publish(r) ==
  /\ Submitting(r, "stored", "accepted")
  /\ queue' = queue \cup {r}
  /\ UNCHANGED <<mysql, places, states, ages, consumer, closer, dropping, faults, drops>>

FaultyPublishFails(r) ==  \* reports an error although the broker has the message
  /\ Submitting(r, "stored", "unpublish")
  /\ Fault
  /\ queue' = queue \cup {r}
  /\ UNCHANGED <<mysql, places, states, ages, consumer, closer, dropping, drops>>

PublishFails(r) ==
  /\ Submitting(r, "stored", "unpublish")
  /\ Fault
  /\ UNCHANGED <<mysql, places, states, ages, queue, consumer, closer, dropping, drops>>

(* After a failed publish the state is deleted first, then the place is    *)
(* released; a failed deletion does not stop the release.                  *)
DeleteState(r) ==
  /\ Submitting(r, "unpublish", "undo")
  /\ \/ /\ state' = [state EXCEPT ![r] = "none"]
        /\ due' = due \ {r}
        /\ UNCHANGED faults
     \/ /\ Fault
        /\ state' \in {state, [state EXCEPT ![r] = "none"]}
        /\ UNCHANGED due
  /\ UNCHANGED <<mysql, places, ages, queue, consumer, closer, dropping, drops>>

SubmitUndo(r) ==
  /\ Submitting(r, "undo", "refused")
  /\ CleanUp(r) \/ CleanUpFails(r)
  /\ UNCHANGED <<mysql, states, ages, queue, consumer, closer, dropping, drops>>

(* The server dies: its requests stop wherever they are, so does its poll. *)
ServerCrash ==
  /\ Fault
  /\ submit' = [r \in Requests |->
                  IF submit[r] \in {"reserved", "stored", "unpublish", "undo"}
                  THEN "crashed" ELSE submit[r]]
  /\ closer' = [closer EXCEPT !["poll"] = Idle]
  /\ dropping' = Idle
  /\ UNCHANGED <<mysql, places, states, ages, queue, consumer, drops>>
-----------------------------------------------------------------------------
(***************************************************************************)
(* RabbitMQ and the consumers: HandleGrabMessage.                          *)
(***************************************************************************)

(* Nothing confirms a publish: the broker may lose a message.              *)
LoseMessage(r) ==
  /\ r \in queue
  /\ Fault
  /\ queue' = queue \ {r}
  /\ UNCHANGED <<mysql, places, states, ages, procs, drops>>

Move(jobs, n, step) == [jobs EXCEPT ![n].at = step]

(* A failed request is cleaned up after before its state is stored.        *)
Closed(jobs, n, status) ==
  [jobs EXCEPT ![n].at = IF status = "failed" THEN "cleanup" ELSE "store",
               ![n].status = status]

(* Requeued messages overtake others, so any waiting message may be next.  *)
Deliver(n) ==
  /\ consumer[n] = Idle
  /\ \E r \in queue :
       /\ ConsumerOf[RequestKey[r][2]] = n
       /\ consumer' = [consumer EXCEPT ![n] = At("decide", r)]
       /\ queue' = queue \ {r}
  /\ UNCHANGED <<mysql, places, states, ages, submit, closer, dropping, faults, drops>>

Admissible(k) ==
  k \notin enrolled /\ Cardinality(Roster(k[2])) < Capacity[k[2]]

FaultyDecide(n) ==  \* a final row does not stop the transaction
  LET r == consumer[n].for
      k == RequestKey[r]
      accept == Admissible(k) IN
    /\ consumer[n].at = "decide"
    /\ row' = [row EXCEPT ![r] = IF accept THEN "success" ELSE "failed"]
    /\ enrolled' = IF accept THEN enrolled \cup {k} ELSE enrolled
    /\ consumer' = Closed(consumer, n, row'[r])
    /\ UNCHANGED <<places, states, ages, queue, submit, closer, dropping, faults, drops>>

(* The transaction: a request without a row is decided, one with a final   *)
(* row (decided before, or timed out) is left as it is.  An error of a     *)
(* statement in applySelectCourseTx counts as a reason to refuse.          *)
Decide(n) ==
  LET r == consumer[n].for
      k == RequestKey[r]
      accept == row[r] = "none" /\ Admissible(k) IN
    /\ consumer[n].at = "decide"
    /\ \/ /\ row' = IF row[r] = "none"
                    THEN [row EXCEPT ![r] = IF accept THEN "success" ELSE "failed"]
                    ELSE row
          /\ enrolled' = IF accept THEN enrolled \cup {k} ELSE enrolled
          /\ UNCHANGED faults
       \/ /\ accept
          /\ Fault
          /\ row' = [row EXCEPT ![r] = "failed"]
          /\ UNCHANGED enrolled
    /\ consumer' = Closed(consumer, n, row'[r])
    /\ UNCHANGED <<places, states, ages, queue, submit, closer, dropping, drops>>

(* One of these errors is special: MySQL has rolled back the victim of a   *)
(* deadlock, the request's row with it.  The handler still takes the       *)
(* request for failed: its update of the row changes nothing, and that is  *)
(* no error.                                                               *)
DecideAsVictim(n) ==
  /\ Deadlocks
  /\ consumer[n].at = "decide"
  /\ row[consumer[n].for] = "none"
  /\ Fault
  /\ consumer' = Closed(consumer, n, "failed")
  /\ UNCHANGED <<mysql, places, states, ages, queue, submit, closer, dropping, drops>>

ConsumerCleanUp(n) ==
  /\ consumer[n].at = "cleanup"
  /\ CleanUp(consumer[n].for)
  /\ consumer' = Move(consumer, n, "store")
  /\ UNCHANGED <<mysql, states, ages, queue, submit, closer, dropping, drops>>

(* StoreFinalSelectionRequestState.                                        *)
StoreFinal(job) ==
  /\ state' = [state EXCEPT ![job.for] = job.status]
  /\ due' = due \ {job.for}

(* A failed pipeline: nothing applied, or only its first command.          *)
StoreFinalFails(job) ==
  /\ Fault
  /\ state' \in {state, [state EXCEPT ![job.for] = job.status]}
  /\ UNCHANGED due

(* Best effort: an error is logged and the message acknowledged anyway.    *)
ConsumerStore(n) ==
  /\ consumer[n].at = "store"
  /\ \/ StoreFinal(consumer[n]) /\ UNCHANGED faults
     \/ StoreFinalFails(consumer[n])
  /\ consumer' = Move(consumer, n, "ack")
  /\ UNCHANGED <<mysql, places, ages, queue, submit, closer, dropping, drops>>

Ack(n) ==
  /\ consumer[n].at = "ack"
  /\ consumer' = [consumer EXCEPT ![n] = Idle]
  /\ UNCHANGED <<mysql, places, states, ages, queue, submit, closer, dropping,
                 faults, drops>>

FaultyRequeue(n) ==  \* Nack without requeue
  /\ consumer[n].at \in {"decide", "cleanup"}
  /\ Fault
  /\ consumer' = [consumer EXCEPT ![n] = Idle]
  /\ UNCHANGED <<mysql, places, states, ages, queue, submit, closer, dropping, drops>>

(* MySQL or Redis fails: the handler returns the error, Nack with requeue. *)
Requeue(n) ==
  /\ \/ consumer[n].at = "decide" /\ Fault /\ UNCHANGED places
     \/ consumer[n].at = "cleanup" /\ CleanUpFails(consumer[n].for)
  /\ queue' = queue \cup {consumer[n].for}
  /\ consumer' = [consumer EXCEPT ![n] = Idle]
  /\ UNCHANGED <<mysql, states, ages, submit, closer, dropping, drops>>

(* The worker dies: its unacknowledged messages are delivered again.       *)
WorkerCrash ==
  /\ Fault
  /\ queue' = queue \cup {consumer[n].for : n \in {m \in Consumers : consumer[m] # Idle}}
  /\ consumer' = [n \in Consumers |-> Idle]
  /\ closer' = [closer EXCEPT !["sweeper"] = Idle]
  /\ UNCHANGED <<mysql, places, states, ages, submit, dropping, drops>>
-----------------------------------------------------------------------------
(***************************************************************************)
(* Time, the sweeper and the poll: tryFailTimedOutRequest.                 *)
(***************************************************************************)
PassDeadline(r) ==
  /\ state[r] = "pending"
  /\ r \notin overdue
  /\ overdue' = overdue \cup {r}
  /\ UNCHANGED <<mysql, places, states, outlived, queue, procs, faults, drops>>

FaultyExpire(r) ==  \* the pending state with the short life of a final one
  /\ state[r] # "none"
  /\ state' = [state EXCEPT ![r] = "none"]
  /\ UNCHANGED <<mysql, places, due, ages, queue, procs, faults, drops>>

(* The final state is kept in Redis for five minutes.                      *)
Expire(r) ==
  /\ state[r] \in Final
  /\ state' = [state EXCEPT ![r] = "none"]
  /\ UNCHANGED <<mysql, places, due, ages, queue, procs, faults, drops>>

(* The pending state is kept for a day: if an outage keeps everybody from  *)
(* closing the request for so long, Redis forgets it, but not its deadline *)
(* and not its place.                                                      *)
ExpirePending(r) ==
  /\ state[r] = "pending"
  /\ r \in overdue
  /\ Fault
  /\ state' = [state EXCEPT ![r] = "none"]
  /\ outlived' = outlived \cup {r}
  /\ UNCHANGED <<mysql, places, due, overdue, queue, procs, drops>>

(* A poll of an accepted request that it finds pending for too long, or    *)
(* the sweeper's next candidate.                                           *)
StartClosing(w) ==
  /\ closer[w] = Idle
  /\ \E r \in overdue :
       /\ state[r] = "pending"
       /\ w = "sweeper" => r \in due
       /\ w = "poll" => submit[r] = "accepted"
       /\ closer' = [closer EXCEPT ![w] = At("insert", r)]
  /\ UNCHANGED <<mysql, places, states, ages, queue, submit, consumer, dropping,
                 faults, drops>>

(* A candidate that is final already, or has no state any more, only       *)
(* leaves the sorted set.                                                  *)
ForgetDue(r) ==
  /\ closer["sweeper"] = Idle
  /\ r \in due \cap overdue
  /\ state[r] # "pending"
  /\ due' = due \ {r}
  /\ UNCHANGED <<mysql, places, state, ages, queue, procs, faults, drops>>

FaultyInsertFailed(w) ==  \* takes the request for failed without looking at the row
  LET r == closer[w].for IN
    /\ closer[w].at = "insert"
    /\ row' = [row EXCEPT ![r] = IF @ = "none" THEN "failed" ELSE @]
    /\ closer' = Closed(closer, w, "failed")
    /\ UNCHANGED <<enrolled, places, states, ages, queue, submit, consumer,
                   dropping, faults, drops>>

FaultierInsertFailed(w) ==  \* overwrites the row that is there
  LET r == closer[w].for IN
    /\ closer[w].at = "insert"
    /\ row' = [row EXCEPT ![r] = "failed"]
    /\ closer' = Closed(closer, w, "failed")
    /\ UNCHANGED <<enrolled, places, states, ages, queue, submit, consumer,
                   dropping, faults, drops>>

(* createFinalFailedSelectionRequest: insert the failed row unless there   *)
(* is one, and go by the row that is there.                                *)
InsertFailed(w) ==
  LET r == closer[w].for IN
    /\ closer[w].at = "insert"
    /\ row' = [row EXCEPT ![r] = IF @ = "none" THEN "failed" ELSE @]
    /\ closer' = Closed(closer, w, row'[r])
    /\ UNCHANGED <<enrolled, places, states, ages, queue, submit, consumer,
                   dropping, faults, drops>>

CloserCleanUp(w) ==
  /\ closer[w].at = "cleanup"
  /\ CleanUp(closer[w].for)
  /\ closer' = Move(closer, w, "store")
  /\ UNCHANGED <<mysql, states, ages, queue, submit, consumer, dropping, drops>>

CloserStore(w) ==
  /\ closer[w].at = "store"
  /\ StoreFinal(closer[w])
  /\ closer' = [closer EXCEPT ![w] = Idle]
  /\ UNCHANGED <<mysql, places, ages, queue, submit, consumer, dropping, faults, drops>>

(* Any error ends the attempt; the next sweep or poll starts over.         *)
CloserFails(w) ==
  /\ \/ closer[w].at = "insert" /\ Fault /\ UNCHANGED <<places, states>>
     \/ closer[w].at = "cleanup" /\ CleanUpFails(closer[w].for) /\ UNCHANGED states
     \/ closer[w].at = "store" /\ StoreFinalFails(closer[w]) /\ UNCHANGED places
  /\ closer' = [closer EXCEPT ![w] = Idle]
  /\ UNCHANGED <<mysql, ages, queue, submit, consumer, dropping, drops>>
-----------------------------------------------------------------------------
(***************************************************************************)
(* DropCourse: one MySQL transaction, then the caches are rebuilt from     *)
(* MySQL, the course's and then the student's.                             *)
(***************************************************************************)
DropCourse(k) ==
  /\ dropping = Idle
  /\ drops < MaxDrops
  /\ k \in enrolled
  /\ enrolled' = enrolled \ {k}
  /\ dropping' = At("course", k)
  /\ drops' = drops + 1
  /\ UNCHANGED <<row, places, states, ages, queue, submit, consumer, closer, faults>>

RefreshCourse ==
  /\ dropping.at = "course"
  /\ LET c == dropping.for[2] IN
       stock' = [stock EXCEPT ![c] = Capacity[c] - Cardinality(Roster(c))]
  /\ dropping' = At("student", dropping.for)
  /\ UNCHANGED <<mysql, held, reserver, states, ages, queue, submit, consumer,
                 closer, faults, drops>>

RefreshStudent ==
  /\ dropping.at = "student"
  /\ LET s == dropping.for[1] IN held' = [held EXCEPT ![s] = Timetable(s)]
  /\ dropping' = Idle
  /\ UNCHANGED <<mysql, stock, reserver, states, ages, queue, submit, consumer,
                 closer, faults, drops>>

(* A refresh that fails deletes both entries instead, or fails to.         *)
RefreshFails ==
  /\ dropping # Idle
  /\ Fault
  /\ Reset(dropping.for) \/ ResetFails(dropping.for)
  /\ dropping' = Idle
  /\ UNCHANGED <<mysql, reserver, states, ages, queue, submit, consumer, closer, drops>>
-----------------------------------------------------------------------------
Sweep ==
  \/ StartClosing("sweeper")
  \/ \E r \in Requests : ForgetDue(r)
  \/ InsertFailed("sweeper")
  \/ CloserCleanUp("sweeper")
  \/ CloserStore("sweeper")

Poll ==
  \/ StartClosing("poll")
  \/ InsertFailed("poll")
  \/ CloserCleanUp("poll")
  \/ CloserStore("poll")

Next ==
  \/ \E c \in Courses : LoadCourse(c)
  \/ \E s \in Students : LoadStudent(s)
  \/ \E r \in Requests :
       \/ SubmitReserve(r)
       \/ SubmitRefused(r)
       \/ StorePending(r)
       \/ StorePendingFails(r)
       \/ Publish(r)
       \/ PublishFails(r)
       \/ DeleteState(r)
       \/ SubmitUndo(r)
       \/ LoseMessage(r)
       \/ PassDeadline(r)
       \/ Expire(r)
       \/ ExpirePending(r)
  \/ ServerCrash
  \/ \E n \in Consumers :
       \/ Deliver(n)
       \/ Decide(n)
       \/ DecideAsVictim(n)
       \/ ConsumerCleanUp(n)
       \/ ConsumerStore(n)
       \/ Ack(n)
       \/ Requeue(n)
  \/ WorkerCrash
  \/ Sweep
  \/ Poll
  \/ \E w \in Closers : CloserFails(w)
  \/ \E k \in Keys : DropCourse(k)
  \/ RefreshCourse
  \/ RefreshStudent
  \/ RefreshFails

Spec == Init /\ [][Next]_vars

(* The deadline passes and the sweeper's ticker keeps running, after a     *)
(* crash in the worker that is started again; consumers may stop for good  *)
(* (nothing reconnects them) and clients need not poll.                    *)
FairSpec ==
  Spec /\ WF_vars(Sweep) /\ \A r \in Requests : WF_vars(PassDeadline(r))
-----------------------------------------------------------------------------
(* Every variable holds what the stores and processes can hold; a stock in *)
(* Redis that fell below zero would show here.                             *)
TypeOK ==
  /\ enrolled \subseteq Keys
  /\ row \in [Requests -> {"none"} \cup Final]
  /\ \A c \in Courses : stock[c] = None \/ stock[c] \in Nat
  /\ \A s \in Students : held[s] = None \/ held[s] \subseteq Courses
  /\ state \in [Requests -> {"none", "pending"} \cup Final]
  /\ due \subseteq Requests /\ overdue \subseteq Requests /\ queue \subseteq Requests
  /\ outlived \subseteq overdue
  /\ submit \in [Requests -> {"new", "reserved", "stored", "accepted", "unpublish",
                              "undo", "refused", "crashed"}]
  /\ consumer \in [Consumers -> Job]
  /\ closer \in [Closers -> Job]
  /\ dropping \in {Idle} \cup [at : {"course", "student"}, for : Keys, status : {"none"}]
  /\ faults \in 0..MaxFaults /\ drops \in 0..MaxDrops
  /\ reserver \in [Keys -> Requests \cup {None}]

(* What a poll answers: the state in Redis, else the row in MySQL.  (A     *)
(* poll that finds the request overdue closes it first.)                   *)
Answer(r) == IF state[r] = "none" THEN row[r] ELSE state[r]

(* A request is decided once, by the worker or by a timeout, whichever     *)
(* comes first, and a student is enrolled only in the step that makes a    *)
(* request of hers a success: a message that arrives after the timeout, or *)
(* a second time, enrols nobody.                                           *)
DecidedOnce ==
  [][/\ \A r \in Requests : row[r] \in Final => row'[r] = row[r]
     /\ \A k \in enrolled' \ enrolled :
          \E r \in Requests :
            RequestKey[r] = k /\ row[r] = "none" /\ row'[r] = "success"]_vars

Promise == INSTANCE Enrollment WITH
  catalogue <- [c \in Courses |->
                  [status |-> 1, capacity |-> Capacity[c], credit |-> 0, slot |-> c]],
  creditLimit <- [s \in Students |-> 0],
  outcome <- row

(* All the machinery around the tables implements the indivisible          *)
(* selection, as far as its rules are modelled: messages that are lost or  *)
(* come twice, sweeps, polls and crashes decide a request at most once,    *)
(* never enrol beyond the capacity, and take no place from anybody.        *)
ImplementsEnrollment == Promise!Spec

(* A student whose submission was answered with an error is not enrolled   *)
(* by it later (a failed publish does not count as accepted).              *)
RefusedNotEnrolled ==
  \A r \in Requests : submit[r] = "refused" => row[r] # "success"

(* A consumer lets go of a message only when the request is decided, or    *)
(* by putting the message back, through errors and worker crashes.         *)
NeverAckedUndecided ==
  [][\A n \in Consumers :
       consumer[n] # Idle /\ consumer'[n] = Idle =>
         \/ row'[consumer[n].for] \in Final
         \/ consumer[n].for \in queue']_vars

(* Nobody sets out to undo the reservation of a request that succeeded,    *)
(* also when the sweeper, a poll and the worker handle it at once.         *)
SuccessKeepsPlace ==
  \A j \in {consumer[n] : n \in Consumers} \cup {closer[w] : w \in Closers} :
    j.at = "cleanup" => row[j.for] # "success"

(* Once a client has been told a final answer it is never told another,    *)
(* though the answer comes from Redis first and, after it expired, from    *)
(* MySQL.                                                                  *)
AnswerStable ==
  [][\A r \in Requests : Answer(r) \in Final => Answer(r)' = Answer(r)]_vars

(* The request number of an accepted request is known whenever it is       *)
(* polled: no gap between the expiry of the Redis state and MySQL's row,   *)
(* unless nobody closed the request for the whole day its pending state    *)
(* lives.                                                                  *)
AcceptedIsKnown ==
  \A r \in Requests :
    submit[r] = "accepted" => Answer(r) # "none" \/ r \in outlived

(* Every accepted request gets its final answer, even if its message is    *)
(* lost or no consumer runs: the sweeper closes it (README: "pending       *)
(* requests not completed in 2 minutes are closed as failed"), provided    *)
(* that it runs again before the pending state has lived out its day.      *)
AcceptedAnswered ==
  \A r \in Requests :
    submit[r] = "accepted" ~> Answer(r) \in Final \/ r \in outlived

(* The release script "fails when it cannot see the trace of this          *)
(* reservation" (comment of releaseReservedSelectionScript): a place       *)
(* reserved by one request is only given back after that request failed.   *)
ReleasedByItsRequest ==
  [][\A k \in Keys :
       reserver[k] # None /\ reserver'[k] = None =>
         \/ row[reserver[k]] = "failed"
         \/ submit[reserver[k]] = "undo"]_vars
=============================================================================
