# ChooseCourse in TLA+

ChooseCourse is a course selection system: a Go backend (`src/Backend`) made of
an HTTP server and a worker, on top of MySQL, Redis and RabbitMQ. Students grab
courses in a rush, so a selection is accepted by Redis, queued, and decided later
by a worker inside one MySQL transaction. This directory holds models of that
code, the configurations that check them with TLC, and proofs checked with TLAPS.

    tlc -workers 2 -config MCSelectionTx.cfg MCSelectionTx
    tlapm SelectionTxProofs.tla
    tlapm AccountStateProofs.tla
    tlapm GrabQueuesProofs.tla
    tlapm CommunityProofs.tla
    tlapm SelectionErrorsProofs.tla
    tlapm AsyncSelectionProofs.tla
    tlapm SelectionCacheProofs.tla
    tlapm SumsProofs.tla

## 1. The system

Paths are relative to `src/Backend`. `server` is `cmd/server`, `worker` is
`cmd/worker`. The three stores are shared by all goroutines of both.

| Component | State it keeps | Operations | Where |
|---|---|---|---|
| Selection transactions | MySQL: `courses`, `students`, `enrollments`, `selection_requests`; InnoDB's locks | grab, drop, close a timed out request | `internal/service/selection_async_service.go`, `selection_service.go` |
| Asynchronous selection | Redis: request states, the sorted set of deadlines; RabbitMQ: the sharded grab queue | submit, publish, consume, compensate, store the final state, sweep, poll | `selection_async_service.go`, `internal/mq`, `internal/cache/selection_request_state.go`, `cmd/worker` |
| Selection caches | Redis: stock, status, credit, slot of a course; selected set, credits, slot bitmap of a student; missing markers, rebuild locks | ensure, refresh, invalidate, reserve, release, preload | `internal/cache` |
| Queues | RabbitMQ: exchanges, the sharded grab queues, the notification queue, dead letters | declare, publish, consume, acknowledge, put back, dead-letter; start, stop, lose a channel | `internal/mq`, `cmd/worker` |
| Administration | the same tables | create and edit courses and students | `admin_course_service.go`, `admin_student_service.go` |
| Accounts | MySQL `students`, `admins`; Redis: the cached account state | log in, check every request, disable an account, change a password | `auth_service.go`, `middleware`, `cache/auth_user_cache.go` |
| Notifications | MySQL `notifications`; RabbitMQ | publish after an event, consume, list, mark as read | `notification_*.go`, `student_notification_service.go` |
| Likes and comments | MySQL: the rows and the counters kept beside them | like, unlike, comment, reply, delete | `student_like_service.go`, `student_comment_service.go` |
| Synchronous selection | the same tables | select a course in one HTTP request; no route reaches it any more | `selection_service.go` |
| Views | none | lists, timetable, profiles | `student_course_service.go`, `student_profile_service.go`, `timetable_service.go`, `admin_service.go` |
| HTTP, configuration, start-up | connections | routes, responses, dialling, logging | `router`, `handler`, `config`, `repository` |

### How they interact

1. `SubmitSelectCourse` (server) ensures the two cache entries, reserves a place
   with a Lua script, stores the request as `pending` in Redis with a deadline,
   and publishes a message to the shard of the course. No store knows about the
   others: an error after a step is answered by undoing the earlier ones, a crash
   by nothing.
2. `HandleGrabMessage` (worker, one goroutine per shard) inserts the request's
   row in MySQL, which is the idempotency gate, decides it in the same
   transaction, releases the reservation if the request failed, stores the final
   state in Redis, publishes a notification and acknowledges the message.
3. The sweeper (worker, on a ticker) and `GetSelectionRequest` (server, when the
   client polls) close requests that stayed pending for more than two minutes,
   with the same row as the gate.
4. `DropCourse` (server) is one MySQL transaction followed by a refresh of the
   two cache entries.
5. Administrators write the same tables, and delete the cache entries afterwards;
   a new course has its entry written at once.
6. Server and worker each declare the queues they use, by the shard count in
   their own configuration, and the worker starts one goroutine for each queue.

### What is hard about it

- Both kinds of transactions compute new counters from copies read earlier, so
  they depend on `FOR UPDATE` in every place, and on the order of the locks; the
  slot check is not a locking read at all.
- A locking read of an enrollment that does not exist takes a gap lock, which is
  shared, and the insert that follows waits for the others: two first grabs
  deadlock in the database although their row locks cannot.
- Three actors may close one request, messages come twice, final states expire.
- Redis is only a filter in front of MySQL and may be wrong in both directions.
- An error inside the worker's transaction is taken for a business refusal.
- Serial handling of a course rests on a number in two configurations, and on
  queues that outlive a change of it; no channel is ever opened again.

### What makes each component correct

- Transactions: counters agree with the rows, no course is oversold, no student
  exceeds her credits or holds two courses at one time, no row-lock deadlock,
  every transaction ends, and what each commits is the abstract selection.
- Asynchronous selection: a request is decided once, stays decided, the answer
  the client sees never changes, an accepted request is known and finally answered
  unless it lies a whole day, a refused one enrols nobody, and no place of a success
  is given back.
- Caches: stock never negative; a reservation is released by its own request;
  rebuilds of one entry exclude each other and wipe out no reservation; edits
  reach the entries; no missing marker hides a course that is there; whoever
  waits for an entry stops waiting.
- Queues: nothing the broker has taken is lost; a course is handled by one
  goroutine; what a running consumer can reach is served.
- Administration: rules in force at the commit are those a grab obeys.
- Accounts: a disabled account is locked out at the latest when its entry expires.
- Notifications: they tell of what was committed, once, and stay read.
- Likes and comments: the counters agree with the rows.

## 2. The modules

| Module | What it models |
|---|---|
| `Enrollment` | the promise: selections as indivisible steps that obey the rules |
| `SelectionTx` | the MySQL transactions, one locking statement at a time |
| `CourseAdmin` | `SelectionTx` with an administrator who edits in between |
| `SelectionErrors` | `CourseAdmin` with statements that fail on a live connection |
| `AsyncSelection` | a request across Redis, RabbitMQ and MySQL, with faults |
| `SelectionCache` | the cache entries: rebuild lock, refresh, reservations, edits, missing markers |
| `GrabQueues` | the queues between server and worker, through restarts and changes of the shard count |
| `AccountState` | the cached state of a student's account |
| `Community` | likes, comments, their counters, and notifications |
| `MC*` | the small instances the `.cfg` files check |
| `Sums` | the sum of a function over a finite set, as a cardinality |
| `SelectionTxProofs` | the theorems about `SelectionTx` and their proofs |
| `SelectionErrorsProofs` | what of them survives edits and failing statements |
| `AsyncSelectionProofs`, `SelectionCacheProofs`, `AccountStateProofs`, `GrabQueuesProofs`, `CommunityProofs` | the same for `AsyncSelection`, `SelectionCache`, `AccountState`, `GrabQueues` and `Community` |
| `SumsProofs` | what one element more or less does to a sum |

`CourseAdmin` extends `SelectionTx` with actions of its own, and `SelectionErrors`
extends `CourseAdmin`, so that students, worker and administrator act at once.
`GrabQueues` looks at the messages that `AsyncSelection` has in one set, and at
nothing that handlers do. `AsyncSelection` takes the transaction as one step and
`SelectionCache` the same, with `SelectionTx` as the reason, and answers to the
same promise, `Enrollment`; `SelectionCache` looks inside the refreshes that are
one step in `AsyncSelection`. `AccountState` and `Community` share only tables
with the rest, in columns nobody else writes.

### SelectionTx

A session is a connection inside a transaction. Its `pc` names the next
statement; `target` is the student and course, `grab` the request (or `None` for
a drop), `studentRow` and `courseRow` the copies Go holds. `Following` is the
order of the statements, the same in both transactions: student, course,
enrollment, (rules,) write. Actions and code:

| Action | Code |
|---|---|
| `BeginGrab` | `createProcessingSelectionRequestTx`: the insert that nobody else has done |
| `LockStudent`, `LockCourse`, `LockEnrollment` | the three `FOR UPDATE` reads and the checks right after each |
| `CheckRules` | the join for the time slot, the credit check |
| `CommitGrab`, `CommitDrop` | the updates, the insert or update of the enrollment, `COMMIT` |
| `Reject` | a business error: a grab commits a `failed` request, a drop rolls back |
| `DeadlockAbort`, `SystemError` | InnoDB's victim; a lost connection or a crash |
| `FailTimedOut` | `createFinalFailedSelectionRequest` by the sweeper or a poll |

The updates, the insert and the commit are one step: every row they touch is
locked by the session already, except the gap the insert goes to, which is the
guard `GapWaits(p) = {}`. A drop's locking read finds an existing row and takes
no gap. A lock of an existing enrollment row is not a variable of its own: whoever
wants it holds the student's row lock. The request's status "pending" in MySQL is
never committed and is not a value.

InnoDB is modelled from its use at its default level REPEATABLE READ:
`KeyRank` orders the keys of `uk_student_course`, two absent keys with no row
between them share a gap, gap locks do not exclude each other, an insert waits
for the other holders, and a session on a cycle of waits may be rolled back. Any
session of a cycle may be the victim. `students` and `courses` start with the
contents of `StudentTables` and `CourseTables` and no selection: a student is
created with a positive limit, or 25. Later her status and limit may be any
integers, for `UpdateStudentByNo` validates neither and the columns have no check.

`Credits(s)` sums the credits of a student's courses with `SumOver`, which counts
the pairs of a course and one of its credits. A fold would need induction over
data in a proof; cardinalities have the library's theorems. `SumsAreSums` in
`MCSelectionTx` lets TLC compare the two definitions.

### SelectionErrors

`HandleGrabMessage` takes any error returned by `applySelectCourseTx` for a
reason to refuse: it marks the request failed and returns nil, so gorm commits.
`StatementFails` lets a statement of a grab fail after the first, the first two
or none of the counter updates. `MaxDisturbances` bounds such statements and the
administrator's edits together. `repriced` is a history: a credit was edited while
the course was selected, after which no sum of credits fits what was paid.

### CourseAdmin

`UpdateCourse` is three steps: read without a lock (`ReadCourse`), check
(`CheckEdit`), update only the edited columns when the row lock is free
(`WriteCourse`). `UpdateStudentByNo` checks nothing against the row, so it is one
step (`EditStudent`). `EditAssumption` says which edits there are: the course's
status, slot and credit are in the ranges `UpdateCourse` checks, a capacity is any
integer (`CheckEdit` compares it with the row), a student's columns are any integers.

### AsyncSelection

`enrolled` and `row` are MySQL; `stock`, `held`, `state` and `due` Redis; `queue`
RabbitMQ. `submit[r]` is how far the HTTP goroutine of request r is, `consumer[n]`
what the goroutine of shard n does with the message it has not acknowledged,
`closer["sweeper"]` and `closer["poll"]` the two that close timed out requests,
`dropping` a drop whose caches are being refreshed. `reserver` is a history
variable: which request took the place last.

Merged into one step: the worker's transaction (`SelectionTx` shows that its locks
make it indivisible), each Lua script, the rebuild of a missing entry, each
refresh and the deletion of the two entries in `resetSelectionCaches`. A pipeline
that fails may have applied a prefix. What may go wrong: an error at any step
(`...Fails`, `Requeue`, `CloserFails`), a crash of the server or the worker, the
loss of a message, the expiry of a final state; each costs one of `MaxFaults`
except the expiry, which is normal. `ExpirePending` is the end of a pending state,
24 hours after the submission. It takes an outage of worker and polls as long as
that, and counts as one fault. `SubmitSelectCourse` promises nothing beyond it:
the request is unknown, the next sweep drops its deadline (`ForgetDue`) and nobody
gives its place back. `outlived` is a history of these requests; `AcceptedIsKnown`
and `AcceptedAnswered` excuse them and no others. Requests of one shard may
overtake each other since a requeued message does. Courses are open and credits
suffice. Notifications are left out. The constants are only asked to be different
from `None` where they share a field with it; students are finitely many and a
course has one consumer.

### SelectionCache

An entry is all keys of a course or of a student; it is there or not. `job[g]` is
what a goroutine does: `at` the step, `key` its student and course, `entry` the
one in hand (first the course's, then the student's) and `copy` what it read from
MySQL. `courses` are the rows with all columns a selection looks at. A caller goes
through `look`, `acquire` (SETNX), `recheck`, `read`, (`join`,) `write` and
`release`, or through `wait`, for each of the two entries, and then through the
reservation script. The drop's goroutine is in `read`, `join` and `write` only:
its refreshes take no lock. `lock[e]` names the holder instead of a token; one
call of a goroutine per run makes that the same.

Not in the database: `version` counts the edits of a row (the column of that name is
never updated), and an entry remembers
the version it was read from and the one it was written at (`asof`). `late` holds
the goroutines whose lock expired under them. Both only serve the properties:
the code promises nothing to a rebuild slower than its lock, nor for an edit that
overtakes a refresh. The properties show that these are the only two excuses.
Courses and students have different names, since an entry is named by either, and
a limit is any integer, as above.

`known` are the courses that have a row. A refresh that finds none deletes what
there is of the entry (`Forget`) and sets the missing marker (`Mark`), and ignores
the errors of both. `CreateCourse` inserts the row and warms the entry up without
the lock, in `job["create"]`. `marker[c]` says whether the marker was set when the
row was there already ("late"): then the setter had looked too early, nothing the
code does takes the marker away, and students are told that the course does not
exist until it expires. `MarkersLifted` shows that this is the only way to get
such a marker.

`StartEdit` and `EditRow` are `UpdateCourse`: an edit of status, capacity, slot
and credit that the row's `selected_count` allows (`Editable`), then the update.
`CourseEdits` says what an edit may make of a row. The check and the update are apart
in `CourseAdmin`, too, where selections overtake them. Reservations that are pending
are no selections, so a course's slot may be edited under them. Then the bitmap goes
wrong: a student reserves at slot 1, the course moves to slot 2, its entry is rebuilt, and
the release clears bit 2 and leaves bit 1. `shifted` is the history of the slots an
edit moved a course out of or into; `BitmapMatchesSelected` excuses these and no
others. Credits have no such property: what a release gives back is the credit in the
entry, and may be another than was taken.

Requests that failed or timed out are compensated by `CleanUp`. Sweeper, polls and
worker may each come to that for one request, without any fault (the finding
`async_release`): `CleanUpFirst` compensates and leaves the request to
another compensation (`again`), as often as `MaxDisturbances` permits. A second one
finds no trace and deletes both entries, or finds the trace of another request or of
an enrollment and takes that away. After it Redis may differ from MySQL plus the
reservations, so `CacheExact` counts it with the disturbances.

Left out: entries of which some keys are missing because a pipeline failed
halfway, the interleaving of one pipeline with another client (Redis reads a short
one in one go), markers of students (a token belongs to an account, and none is
deleted), edits of a course while another administrator edits it, and the warming
of the student's entry by a login, which is the first part of a submission under
the same lock.

### GrabQueues

A queue is named by its kind and shard. `place[m]` is where a message is, `route[m]`
its queue, `bound` what the broker has been told to keep. `StartServer` and
`StartWorker` are `mq.Init` with some shard count; `InitFails` stops after a prefix
of the declarations, which then stay. `Publish` declares the shard's queue once
more and publishes. The worker starts its consumers one by one (`StartConsumer`)
and each takes one delivery at a time: `Take`, then `Succeed` and `Ack`, or `Retry`
(returned to the queue), or `DeadLetter` for a body that cannot be parsed; no
handler returns `ErrDeadLetter`. `StopWorker` and `LoseChannels` make the broker
put back what was not acknowledged (`Requeue`). A goroutine whose channel is closed
returns and nothing starts it again, though the process and the sweeper live on.

`sent[m]` is a history: the shard count of the sender. The comments promise that a
course always enters one queue and is handled serially; that is true as long as
the count is not changed under queued grabs, which is what `SerialPerCourse` says.
Left out: the order within a queue (a returned message upsets it, and
`AsyncSelection` assumes none), the loss of an unconfirmed message by the broker
(`LoseMessage` of `AsyncSelection`), what a publisher does when publishing fails
(there as well), and a handler that outlives its closed channel.

### AccountState

`ensureActiveUser` is `Look`, `ReadAccount` and `Fill`; `StudentLogin` is
`ReadLogin` and `Fill`. `Me` is the handler that reads MySQL again after the check.
`UpdateStudentByNo` is `EditStatus` and `Invalidate`, and
`pending` counts the edits between the two. `version` and `asof` are as above.
A goroutine answers, returns and serves the next request, without bound.

### Community

A session's `pc` is `row` (before it has its like or comment locked or inserted),
`count` (before the counter's update and the commit) and `publish`. The worker
receives, handles and acknowledges; `Requeue` stands for an error, a crash and a
lost channel. `committed` and `published` are history. The comments at
`student_comment_service.go` 172 and 198 make the notification part of the
transaction; the code publishes it after the commit, best effort, as the
repository's README (425-427) says, and so does the model. An unlike that finds no row
takes a gap lock and rolls back at once, in one step. The counters are columns of
`courses`, which selections lock as well; a session holds no lock any other part
waits for when it gets there, so this closes no cycle.

## 3. The runs

| Run | Shows | Instance |
|---|---|---|
| `selection_tx` | all that `SelectionTx` promises, that it implements `Enrollment`, that begun transactions end | 2 students, 2 courses, 3 requests, 2 sessions |
| `selection_errors` | edits lose no count, errors only make counters too high, and no counter is raised against the rules in force | 2 students, 2 courses, 3 requests, 2 sessions, 2 disturbances: edits and errors |
| `selection_errors_count` | they do make `selected_count` too high (finding) | the same |
| `admin_rules` | an edit may contradict selections made since its unlocked read (finding) | 2 requests, 2 sessions, 1 editor |
| `async` | decided once, refused means not enrolled, success keeps its place, and `Enrollment` is implemented, whatever two faults (outages of a day among them) and one drop do | 2 requests, 1 shard, 2 faults, 1 drop |
| `async_live` | accepted requests stay known and are answered unless they lie a whole day, and the answer is stable | 2 requests, 1 fault |
| `async_deadlock` | a deadlock victim is acknowledged without a decision (finding) | 1 fault |
| `async_release` | a place may be given back by a request that did not reserve it (finding) | no fault |
| `selection_cache` | rebuilds exclude each other and keep reservations, bitmaps match but for slots under edit, edits arrive, markers are lifted, calls end | 3 callers, 2 students, 2 courses of one slot, one of them perhaps new, 2 edits to choose from, 1 disturbance |
| `grab_queues` | nothing is lost, a course is served by one goroutine, what can be reached is served | 2 grabs of one course, 1 unreadable notification, shard counts 0, 2 and 3, 3 disturbances |
| `account_state` | a stale entry has one of three reasons; the last status rules in the end | 2 requests, 1 login, 3 edits |
| `community` | counters equal rows; notifications are true, single, not lost, stay read | 2 students, 1 course, 2 sessions, 3 operations |

The instances are small but not tame. In `selection_tx` two students compete for
one place, one student grabs two courses of the same slot and, in another start,
more credits than she has; a third request repeats a grab after a drop. Two
sessions are enough for every conflict of two transactions, among them the
gap-lock deadlock, since each lock has one holder and the deadlock detector sees
pairs first. In `async` one student asks twice for the only place, so that both
requests share every gate, the cache entries and the key of the compensation, and
may be exchanged (`MCSymmetry`); faults are bounded by two because one error
inside the handling of another (a compensation that fails after a failed publish,
a crash after an error) is the deepest case the code handles. `MaxDrops`,
`MaxDisturbances` and `MaxFaults` appear in guards only. In `selection_errors` two
disturbances let an edit fall between the statements of a grab that fails;
sessions differ in nothing, so `MCSymmetry` permutes them, and all its properties
are safety properties. In `selection_cache` three callers may meet at one entry,
the least for a late release to harm: the late one, the one whose lock it would
delete, and the one that would get in. One disturbance is an edit, a drop, the
creation of an open course, a failure, a crash, the expiry of a lock or a
compensation with another to follow; a failure within an edit, a drop or a
creation comes on top. An edit closes the course, or gives it another slot,
capacity and credit at once, so that every column changes under reservations; one
edit is enough to leave a wrong bit. `MCInit` is a bound too: when the course is
new, the entries of the others are preloaded. In `grab_queues` the course is in
different queues under each of the three counts, one of which is the unsharded
queue; three disturbances stop and restart both processes and fail once more. In
`account_state` three edits make an old state come back, so that equal states of
different versions are seen. In `community` a course starts with two likes and two
comments or none: with fewer the floor of a counter would hide a second decrement.

`CHECK_DEADLOCK FALSE` in the runs of `AsyncSelection`, `SelectionCache`,
`GrabQueues` and `Community`: with finitely many requests the system is done when
all are answered.

### Fairness

`SelectionTx!FairSpec` is strong fairness of the next statement of each session:
the goroutine runs on, and InnoDB grants locks in the order of its queue, so a
session that can have its lock again and again gets it. Beginning a transaction,
failing and timing out are not fair. `AsyncSelection!FairSpec` asks only that
time passes (`PassDeadline`) and that the sweeper's ticker, which the worker runs
in a loop of its own, goes on (`Sweep`). The latter assumes that a worker that died
is started again within the day a pending state lives: no code does that, nor does
`docker-compose.yml` state a restart policy, but an operator can. If it takes longer,
`ExpirePending` may happen and the request is excused. Consumers get no fairness: nothing
reconnects them when their channel closes. Nor do clients, who need not poll.
`SelectionCache!FairSpec` asks that some call goes on while one can, which is less
than the scheduler gives; no lock need expire. `AccountState!FairSpec` asks that
each goroutine runs on and that Redis ends the life of an entry.
`GrabQueues!FairSpec` asks that a worker that is starting goes on and that each
consumer's goroutine serves its queue. It does not ask that anybody starts a
process: `docker-compose.yml` states no restart policy. `QueuedIsServed` therefore
exempts the queues that no goroutine consumes: of a stopped worker, of a lost
channel, and of a shard count that is no longer configured.

## 4. What is proved

Every invariant and every action property that a passing run checks is also a
theorem, for all values of the constants that the named assumptions of its module
allow. TLC evaluates these assumptions in the runs. None of them excludes a state
the program can be in: they separate names and give the columns their ranges.

### SelectionTx

`SelectionTxProofs`, for any students, courses, requests, sessions and initial tables:

| Theorem | Statement |
|---|---|
| `TypeCorrect` | `TypeOK` |
| `LocksProtect` | `LockDiscipline`: copies are current and checks still hold |
| `CountsCorrect` | `CountMatchesRoster` |
| `NeverOversold` | `NoOversell` |
| `NeverClashing` | `NoSlotClash` |
| `CreditsCorrect` | `CreditsWithinLimit`: `credit_used` is the sum of the credits and within the limit |
| `DecidedAtMostOnce` | `AppliedOnce`: no run checks it, for the refinement says more |
| `NoLockCycle` | `NoRowLockCycle` |
| `TransactionsImplementSelection` | `ImplementsEnrollment`: the transactions implement `Enrollment` |

The assumptions: keys are ranked without ties, `None` is not a session, request or
key, tables start without selections, and the sets of students and courses are
finite (they are tables; cardinalities need it).

The argument has layers, each inductive given the ones before it.

1. `Rows` is what row locks alone keep: a copy taken under a lock is the row, and
   the checks made on it still hold. A step of one session leaves alone what every
   other relies on (`Undisturbed`), because it writes only rows it has locked. That
   is why it is stated as copies being equal to rows: without it the update
   `selected = courseRow.selected + 1` says nothing about the roster.
2. `Locking` adds the slots, which a grab checks without a lock: nobody edits them here.
3. `Books` adds the counts and rules: in a commit the copy is the row, so the
   counter and the roster change together.
4. `Ledger` adds the credits: a commit adds one course to a timetable, or takes
   one away, and `SumsProofs` says what that does to the sum.
5. The refinement: `CommitGrab` is the abstract `Accept`, `CommitDrop` is `Drop`,
   `Reject` of a grab and `FailTimedOut` are `Refuse`, and everything else
   changes nothing the promise speaks of. `Accept` has the rules as its guards; a
   commit has them by `Ledger`, though it looks at copies only.

`NoLockCycle` rests on `LocksInOrder`: a session waiting for a student's row holds
no course's row, so the waits cannot close.

### SelectionErrors

`SelectionErrorsProofs`, in addition for any edits that `EditAssumption` allows and
any number of failing statements:

| Theorem | Statement |
|---|---|
| `CountsSurviveEdits` | `CountMatchesUnlessErrors` |
| `CountersNeverTooLow` | `CountersCoverRoster` |
| `RaisesFollowRules` | `CountersObeyCurrentRules` |

Layer 1 holds here as well: an administrator's `UPDATE` waits for the row lock, so
copies stay current. Layers 2 and 3 do not: an edit may move a slot after it was
checked, lower a capacity or a limit below what is used, and (finding
`selection_errors_count`) an error may leave a counter one too high. `ErrorInv` is
what is left: `Rows`, exact counts as long as no statement failed, and counters
that are never below the roster and, unless a credit was edited while selected,
never below the credits. Each step adds one to the roster and the counter, takes
one from both, or adds to the counter only (`RosterStep`, `TimetableStep`); the
floor at zero of a drop is harmless because the counter covers the roster.

### AsyncSelection

`AsyncSelectionProofs`, for any students, courses, requests, consumers and any
number of faults and drops:

| Theorem | Statement |
|---|---|
| `TypesCorrect` | `TypeOK` |
| `NoOversell` | no course has more active enrollments than places, whatever Redis says |
| `RequestsDecidedOnce` | `DecidedOnce` |
| `RefusalsCorrect` | `RefusedNotEnrolled` |
| `SuccessesKeepPlaces` | `SuccessKeepsPlace` |
| `MachineryImplementsSelection` | `ImplementsEnrollment` |
| `AcceptedKnown` | `AcceptedIsKnown`, if `~Deadlocks` |
| `AnswersStable` | `AnswerStable`, if `~Deadlocks` |
| `AcksDecided` | `NeverAckedUndecided`, if `~Deadlocks` |

`Inv` needs two things besides types. `Messages`: a message exists for an accepted
request only, and is in one place only, so that nobody decides a request while
another consumer undoes it. `Undoing`: who compensates has seen a row that is not
a success. The row, which never changes once it is final, keeps that true across
redeliveries, crashes and sweeps, and `SuccessKeepsPlace` follows.

The refinement maps `enrolled` and `row` to the promise. `Decide` is `Accept` or
`Refuse`, `InsertFailed` is `Refuse`, `DropCourse` is `Drop`, and each does nothing
if the row is final. As the model leaves credits and time slots out, the
catalogue it is compared with has courses of no credits at different times;
`TransactionsImplementSelection` is about the rest.

The last three assume `~Deadlocks`, a constant that says whether the database may
choose a worker's transaction as its victim: with it they are false, as the
finding `async_deadlock` shows, and run `async_live` checks them under the same
condition. `CertainInv` adds `Verdicts` (what a goroutine is about to store or
acknowledge, and what Redis says, is the row's status) and `Known` (from the
moment the state is stored Redis or MySQL knows the request, unless it has lived
out its day). A request once `outlived` stays so, which is why the excuse is
inductive.

### SelectionCache

`SelectionCacheProofs`, for any callers, students, courses, rows and edits of them,
limits and disturbances:

| Theorem | Statement | Inductive invariant |
|---|---|---|
| `TypesCorrect` | `TypeOK` | `Typing` |
| `RebuildsApart` | `OneRebuilder` | `LockKept`: who is in the section has the lock, or it expired |
| `BitmapsMatch` | `BitmapMatchesSelected` | `Bitmaps`, with `Apart` for the timetables in MySQL and `SlotCopies` for the slots in course entries |
| `EditsReach` | `EditsReachCache` | `CopyVersions`: a copy is not newer than its row |
| `MarkersAreLifted` | `MarkersLifted` | itself |
| `CachesExact` | `CacheExact` | `Calm`: `Exactness` while nothing has disturbed |

The columns of counts are only typed: a drop floors them at zero, and stock is
read with a floor. All of `Bitmaps`, `Apart` and `SlotCopies` is about slots
outside `shifted`, and slot 0 in Redis: the selected courses of a student are at
different slots, the bitmap has theirs, and the slot in a course's entry (or in a
copy on its way there) is the row's. `SlotCopies` is why a release clears the bit
that was set; it is what a slot edit breaks, and an edit puts both slots into
`shifted` in the same step. `Exactness` is what any number of callers keep while
they overlap: a rebuild finds no entry and none is written before its own
(`ColdEntries`), whoever holds a reservation has it in two entries and alone
(`Covered`), stock is capacity less what is selected and reserved (`Stocks`), and
a cached timetable is the one in MySQL plus what is claimed (`Selections`), and
nobody is about to compensate what another has (`Once`). The proof that a rebuild
wipes out no reservation is in `ColdEntries`: until it writes, its entry is
missing, so the reservation script finds nothing to reserve in.

### AccountState, GrabQueues, Community

`AccountStateProofs` proves, for any goroutines and any number of edits:

| Theorem | Statement |
|---|---|
| `AccountTypeCorrect` | `TypeOK`: a login writes an entry only for an account it found active |
| `StaleEntriesExcused` | `StaleOnlyIfOvertaken` |

`StaleOnlyIfOvertaken` compares states, and states repeat; its strengthening
`Ordered` speaks of versions: what has the present version has the present state,
and an entry of an older one has an excuse. The only assumptions are that requests
and logins differ and that `None` is no row.

`GrabQueuesProofs` proves, for any messages, shard counts and number of restarts:

| Theorem | Statement |
|---|---|
| `TypeCorrect` | `TypeOK`: what is in hand is held by a consumer that is there |
| `KeepsMessages` | `NothingLost` |
| `ServesCourseSerially` | `SerialPerCourse` |

Its inductive invariant adds that a queue which holds a message is bound together
with its dead letters (so that nothing is dropped), that the consumers a worker
has started are a prefix of those of its count, and that a queue has at most one
message in hand. `ServesCourseSerially` follows because grabs of one course that
were sent with one count have one route.

`CommunityProofs` proves, for any students, courses, sessions and operations:

| Theorem | Statement |
|---|---|
| `CommunityTypes` | `TypeOK`, with the unique ids and the unique like of a student and course |
| `CountersExact` | `CountsMatchRows` |
| `NotificationsTrue` | `NotifiedOfFacts` |
| `MessagesNotLost` | `PublishedNotLost` |
| `ReadIsFinal` | `ReadStaysRead` |

`CountsMatchRows` alone is not inductive: that a commit changes the number of rows
by one depends on what the session saw when it took its lock. `RowInv` adds it:
`WorksOn` says that the row a session has locked is still there (or the one it
inserted still new), and `Apart` that no two sessions past their locks have one
row. `MessageInv` follows a message: what is queued, in hand or about to be
published is committed, and what is handled has its notification. The assumptions
are that the rows at the start are finitely many and obey the unique indexes, and
that `None` is no delivery.

### Model-checked only

Liveness, since no prover here knows `ENABLED`: `TransactionsEnd`,
`AcceptedAnswered`, `CallsEnd`, `StatusRules` and `QueuedIsServed`. The findings,
which are counterexamples. That `SumOver` is the sum one gets by adding up, which
would be induction over data.

## 5. Findings

- `selection_errors_count`: the comments of `HandleGrabMessage` say that only
  business errors end in a final failure; any statement error does, and what was
  written before it is committed.
- `async_deadlock`: after a deadlock MySQL has rolled the request's row back; the
  update to `failed` affects no row, the message is acknowledged and only Redis
  knows that the request failed. When that state expires the request is unknown.
- `async_release`: the release script promises to fail when it does not see the
  trace of *this* reservation; the trace is the student and the course, so the
  reservation of another request will do.
- `admin_rules`: the README's promise about edits holds only against the copy
  `UpdateCourse` has read.

Details and line numbers are in `PROJECT.json`.

## 6. The plan

Done: the models `Enrollment`, `SelectionTx`, `CourseAdmin`, `SelectionErrors`,
`AsyncSelection`, `SelectionCache`, `GrabQueues`, `AccountState` and `Community`,
and proofs of every invariant and action property of their passing runs. Proving
changed the models where they were wrong: a limit and a status are now any
integers where nothing checks them, the edits' ranges are stated, and the crash of
a server, whose cases overlapped, says in one case what it does. Next, in this
order:

1. `AsyncSelection`: a request whose closing always fails at the head of the
   sweep; notifications of grabs and drops.
2. `SelectionCache`: preloading without the lock while the worker decides; how
   far credits go wrong when a credit is edited under reservations.

## 7. Not modelled

- Lists, pages, details and profiles: they read, and change no column that another
  part relies on. A page and its total are two queries that may disagree, which
  nothing promises otherwise.
- HTTP parsing and responses, configuration, connections, logging, and the web
  front end: input and output.
- Tokens and password hashing: library calls. A token stays valid for its life,
  and `AccountState` shows what is made of that.
- Table creation and sample data (`cmd/migrate`): one transaction of inserts that
  are skipped if the row is there, run by hand before the system starts.
- The creation of a student: one insert behind a unique index, of an account
  nobody has a token for yet.
- `SelectCourse`, the synchronous selection: the same transaction as
  `applySelectCourseTx`, and no route reaches it.
