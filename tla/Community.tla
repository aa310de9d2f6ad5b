----------------------------- MODULE Community -----------------------------
(***************************************************************************)
(* Likes and comments with the counters kept beside them, and the          *)
(* notifications that tell a student what she has done.                    *)
(*                                                                         *)
(* A session is one HTTP request: a transaction that first locks the row   *)
(* of the like or comment (or inserts it) and then updates the counter of  *)
(* the course, and after the commit the publication of a notification.     *)
(* The worker stores notifications; the student marks them as read.        *)
(*                                                                         *)
(* The row is locked until the commit, so it is written there; and as the  *)
(* counter's update is the last write, update and commit are one step.     *)
(* Courses and students exist.                                             *)
(***************************************************************************)
EXTENDS Integers, FiniteSets

CONSTANTS
  Students, Courses,
  Sessions,
  OldLikes, OldComments,  \* rows there may be at the start
  FirstId,        \* the first id after theirs
  MaxOperations,  \* bound: how many operations are begun
  None            \* no value

OldIds == 1..(FirstId - 1)
Likes == [id : Nat, student : Students, course : Courses]
Comments == [id : Nat, student : Students, course : Courses, status : {0, 1}]

ASSUME BoundAssumption == FirstId \in Nat \ {0} /\ MaxOperations \in Nat
ASSUME OldRowsAssumption ==
  /\ OldLikes \subseteq Likes /\ OldComments \subseteq Comments
  /\ IsFiniteSet(OldLikes) /\ IsFiniteSet(OldComments)
  /\ \A row \in OldLikes \cup OldComments : row.id \in OldIds
  /\ \A l, k \in OldLikes :
       l.id = k.id \/ (l.student = k.student /\ l.course = k.course) => l = k
  /\ \A m, n \in OldComments : m.id = n.id => m = n

VARIABLES
  likes,          \* MySQL: rows [id, student, course]
  comments,       \* MySQL: rows [id, student, course, status]
  likeCount,      \* MySQL: courses.like_count
  commentCount,   \* MySQL: courses.comment_count
  nextId,         \* MySQL: AUTO_INCREMENT, one for both tables
  session,        \* [Sessions -> Session]
  begun,          \* how many operations were begun
  queue,          \* RabbitMQ: biz_keys of the messages that are ready
  delivery,       \* the message the worker has not acknowledged, or None
  notifications,  \* MySQL: rows [id, key, read]
  committed,      \* history: biz_keys of the committed operations
  published       \* history: biz_keys that reached RabbitMQ

rows == <<likes, comments, likeCount, commentCount>>
broker == <<queue, delivery, published>>
vars == <<rows, nextId, session, begun, broker, notifications, committed>>

Operations == {"like", "unlike", "comment", "delete"}
Session == [pc : {"idle", "row", "count", "publish"},
            op : Operations \cup {None}, student : Students \cup {None},
            course : Courses \cup {None}, id : Nat]
(* newNotificationBizKey                                                   *)
BizKeys == Operations \X (Nat \ {0})
ASSUME NoneAssumption == None \notin [key : BizKeys, handled : BOOLEAN]
BizKey(p) == <<session[p].op, session[p].id>>

Idle == [pc |-> "idle", op |-> None, student |-> None, course |-> None, id |-> 0]

LikesOn(c) == {l \in likes : l.course = c}
CommentsOn(c) == {m \in comments : m.course = c /\ m.status = 1}

Init ==
  /\ likes \in {{}, OldLikes} /\ comments \in {{}, OldComments}
  /\ likeCount = [c \in Courses |-> Cardinality(LikesOn(c))]
  /\ commentCount = [c \in Courses |-> Cardinality(CommentsOn(c))]
  /\ nextId = FirstId
  /\ session = [p \in Sessions |-> Idle]
  /\ begun = 0
  /\ queue = {} /\ delivery = None /\ published = {}
  /\ notifications = {}
  /\ committed = {}

End(p) == session' = [session EXCEPT ![p] = Idle]
-----------------------------------------------------------------------------
(* LikeCourse, UnlikeCourse, CreateComment.                                *)
Begin(p) ==
  /\ session[p].pc = "idle"
  /\ begun < MaxOperations /\ begun' = begun + 1
  /\ \E op \in Operations \ {"delete"}, s \in Students, c \in Courses :
       session' = [session EXCEPT ![p] =
         [pc |-> "row", op |-> op, student |-> s, course |-> c, id |-> 0]]
  /\ UNCHANGED <<rows, nextId, broker, notifications, committed>>

(* DeleteOwnComment of any comment there is, whoever wrote it.             *)
BeginDelete(p) ==
  /\ session[p].pc = "idle"
  /\ begun < MaxOperations /\ begun' = begun + 1
  /\ \E s \in Students, m \in comments :
       session' = [session EXCEPT ![p] =
         [pc |-> "row", op |-> "delete", student |-> s, course |-> m.course,
          id |-> m.id]]
  /\ UNCHANGED <<rows, nextId, broker, notifications, committed>>

(* The row a session works on: the unique key of a like, or a comment.     *)
RowOf(x) ==
  CASE x.op \in {"like", "unlike"} -> <<"like", x.student, x.course>>
    [] x.op \in {"comment", "delete"} -> <<"comment", x.id>>

(* Who else has locked it, or inserted it, and not committed yet.          *)
Holders(p) ==
  {q \in Sessions \ {p} : session[q].pc = "count"
                          /\ RowOf(session[q]) = RowOf(session[p])}

LikesOf(s, c) == {l \in likes : l.student = s /\ l.course = c}

FaultyInserts(p) ==  \* no unique index
  session[p].op \in {"like", "comment"}

Inserts(p) ==
  \/ session[p].op = "like" /\ LikesOf(session[p].student, session[p].course) = {}
  \/ session[p].op = "comment"

InsertRow(p) ==
  /\ session[p].pc = "row"
  /\ Holders(p) = {}
  /\ Inserts(p)
  /\ session' = [session EXCEPT ![p].pc = "count", ![p].id = nextId]
  /\ nextId' = nextId + 1
  /\ UNCHANGED <<rows, begun, broker, notifications, committed>>

Lockable(p) ==
  LET x == session[p] IN
    IF x.op = "unlike" THEN {l.id : l \in LikesOf(x.student, x.course)}
    ELSE {m.id : m \in {n \in comments : /\ n.id = x.id /\ n.status = 1
                                         /\ n.student = x.student}}

FaultyLockRow(p) ==  \* reads the row without FOR UPDATE
  /\ session[p].pc = "row"
  /\ session[p].op \in {"unlike", "delete"}
  /\ \E i \in Lockable(p) :
       session' = [session EXCEPT ![p].pc = "count", ![p].id = i]
  /\ UNCHANGED <<rows, nextId, begun, broker, notifications, committed>>

LockRow(p) ==
  /\ session[p].pc = "row"
  /\ session[p].op \in {"unlike", "delete"}
  /\ Holders(p) = {}
  /\ \E i \in Lockable(p) :
       session' = [session EXCEPT ![p].pc = "count", ![p].id = i]
  /\ UNCHANGED <<rows, nextId, begun, broker, notifications, committed>>

(* Liked already, no such like, or no such comment of hers.                *)
RowRefused(p) ==
  /\ session[p].pc = "row"
  /\ Holders(p) = {}
  /\ IF session[p].op \in {"unlike", "delete"} THEN Lockable(p) = {}
                                               ELSE ~Inserts(p)
  /\ End(p)
  /\ UNCHANGED <<rows, nextId, begun, broker, notifications, committed>>

FloorDecrement(n) == IF n > 0 THEN n - 1 ELSE 0

(* Insert, deletion or status of the row; the counter; COMMIT.             *)
CountAndCommit(p) ==
  LET x == session[p] IN
    /\ x.pc = "count"
    /\ \/ /\ x.op = "like"
          /\ likes' = likes \cup
                        {[id |-> x.id, student |-> x.student, course |-> x.course]}
          /\ likeCount' = [likeCount EXCEPT ![x.course] = @ + 1]
          /\ UNCHANGED <<comments, commentCount>>
       \/ /\ x.op = "unlike"
          /\ likes' = {l \in likes : l.id # x.id}
          /\ likeCount' = [likeCount EXCEPT ![x.course] = FloorDecrement(@)]
          /\ UNCHANGED <<comments, commentCount>>
       \/ /\ x.op = "comment"
          /\ comments' = comments \cup
               {[id |-> x.id, student |-> x.student, course |-> x.course,
                 status |-> 1]}
          /\ commentCount' = [commentCount EXCEPT ![x.course] = @ + 1]
          /\ UNCHANGED <<likes, likeCount>>
       \/ /\ x.op = "delete"
          /\ comments' = {IF m.id = x.id THEN [m EXCEPT !.status = 0] ELSE m :
                          m \in comments}
          /\ commentCount' = [commentCount EXCEPT ![x.course] = FloorDecrement(@)]
          /\ UNCHANGED <<likes, likeCount>>
    /\ committed' = committed \cup {BizKey(p)}
    /\ session' = [session EXCEPT ![p].pc = "publish"]
    /\ UNCHANGED <<nextId, begun, broker, notifications>>

(* Any error of a statement, or a crash of the server, rolls all back.     *)
Abort(p) ==
  /\ session[p].pc \in {"row", "count"}
  /\ End(p)
  /\ UNCHANGED <<rows, nextId, begun, broker, notifications, committed>>
-----------------------------------------------------------------------------
FaultyPublish(p) ==  \* publishes within the transaction
  /\ session[p].pc \in {"count", "publish"}
  /\ queue' = queue \cup {BizKey(p)}
  /\ published' = published \cup {BizKey(p)}
  /\ End(p)
  /\ UNCHANGED <<rows, nextId, begun, delivery, notifications, committed>>

Publish(p) ==
  /\ session[p].pc = "publish"
  /\ queue' = queue \cup {BizKey(p)}
  /\ published' = published \cup {BizKey(p)}
  /\ End(p)
  /\ UNCHANGED <<rows, nextId, begun, delivery, notifications, committed>>

(* Best effort: an error is logged.                                        *)
PublishFails(p) ==
  /\ session[p].pc = "publish"
  /\ End(p)
  /\ UNCHANGED <<rows, nextId, begun, broker, notifications, committed>>

Receive ==
  /\ delivery = None
  /\ \E k \in queue :
       delivery' = [key |-> k, handled |-> FALSE] /\ queue' = queue \ {k}
  /\ UNCHANGED <<rows, nextId, session, begun, published, notifications, committed>>

FaultyStored(k) ==  \* ON DUPLICATE KEY UPDATE of the whole row
  {n \in notifications : n.key # k}
    \cup {[id |-> Cardinality(notifications) + 1, key |-> k, read |-> FALSE]}

(* HandleMessage: biz_key is unique, and a duplicate is no error.          *)
Stored(k) ==
  IF \E n \in notifications : n.key = k THEN notifications
  ELSE notifications
         \cup {[id |-> Cardinality(notifications) + 1, key |-> k, read |-> FALSE]}

Handle ==
  /\ delivery # None
  /\ ~delivery.handled
  /\ notifications' = Stored(delivery.key)
  /\ delivery' = [delivery EXCEPT !.handled = TRUE]
  /\ UNCHANGED <<rows, nextId, session, begun, queue, published, committed>>

FaultyAck ==  \* whatever the handler returned
  /\ delivery # None
  /\ delivery' = None
  /\ UNCHANGED <<rows, nextId, session, begun, queue, published, notifications,
                 committed>>

Ack ==
  /\ delivery # None
  /\ delivery.handled
  /\ delivery' = None
  /\ UNCHANGED <<rows, nextId, session, begun, queue, published, notifications,
                 committed>>

(* The handler failed, or the worker crashed or lost its channel, before   *)
(* or after the insert.                                                    *)
Requeue ==
  /\ delivery # None
  /\ queue' = queue \cup {delivery.key}
  /\ delivery' = None
  /\ UNCHANGED <<rows, nextId, session, begun, published, notifications, committed>>

(* MarkRead, by the student the notification is for.                       *)
MarkRead ==
  /\ \E n \in notifications :
       ~n.read /\ notifications' = (notifications \ {n}) \cup {[n EXCEPT !.read = TRUE]}
  /\ UNCHANGED <<rows, nextId, session, begun, broker, committed>>
-----------------------------------------------------------------------------
Next ==
  \/ \E p \in Sessions :
       \/ Begin(p) \/ BeginDelete(p)
       \/ InsertRow(p) \/ LockRow(p) \/ RowRefused(p)
       \/ CountAndCommit(p) \/ Abort(p)
       \/ Publish(p) \/ PublishFails(p)
  \/ Receive \/ Handle \/ Ack \/ Requeue
  \/ MarkRead

Spec == Init /\ [][Next]_vars
-----------------------------------------------------------------------------
(* Rows and counters; ids and the unique index of likes hold.              *)
TypeOK ==
  /\ likes \subseteq Likes /\ comments \subseteq Comments
  /\ \A l, k \in likes :
       l.id = k.id \/ (l.student = k.student /\ l.course = k.course) => l = k
  /\ \A m, n \in comments : m.id = n.id => m = n
  /\ likeCount \in [Courses -> Nat] /\ commentCount \in [Courses -> Nat]
  /\ nextId \in Nat /\ begun \in 0..MaxOperations
  /\ session \in [Sessions -> Session]
  /\ queue \subseteq BizKeys
  /\ delivery \in [key : BizKeys, handled : BOOLEAN] \cup {None}
  /\ notifications \subseteq [id : Nat, key : BizKeys, read : BOOLEAN]

(* The counters shown with a course are the numbers of its likes and of    *)
(* its comments that are not deleted, also when one student sends the same *)
(* request twice at once.                                                  *)
CountsMatchRows ==
  \A c \in Courses :
    /\ likeCount[c] = Cardinality(LikesOn(c))
    /\ commentCount[c] = Cardinality(CommentsOn(c))

(* Nobody is told of what was rolled back, nor of one thing twice.         *)
NotifiedOfFacts ==
  /\ \A n \in notifications : n.key \in committed
  /\ \A m, n \in notifications : m.key = n.key => m = n

(* A message that reached RabbitMQ waits there, is being handled, or has   *)
(* become a notification.                                                  *)
PublishedNotLost ==
  \A k \in published :
    \/ k \in queue
    \/ delivery # None /\ delivery.key = k
    \/ \E n \in notifications : n.key = k

(* What a student has read stays read, whatever is delivered again.        *)
ReadStaysRead ==
  [][\A n \in notifications : n.read => n \in notifications']_vars
=============================================================================
