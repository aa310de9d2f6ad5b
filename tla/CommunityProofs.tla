--------------------------- MODULE CommunityProofs ---------------------------
(***************************************************************************)
(* The counters of likes and comments are right, and notifications are     *)
(* true, single, not lost and stay read: for any number of students,       *)
(* courses, requests at once and redeliveries.                             *)
(*                                                                         *)
(* RowInv is about MySQL and the sessions: what a session has locked or    *)
(* inserted is still what it was, and no two sessions work on one row.     *)
(* MessageInv is about RabbitMQ and the notifications, and rests on it.    *)
(***************************************************************************)
EXTENDS Community, FiniteSetTheorems, TLAPS

(* What session p knows of its row.                                        *)
WorksOn(p) ==
  LET x == session[p] IN
    /\ x.id < nextId
    /\ x.pc # "idle" =>
         x.op \in Operations /\ x.student \in Students /\ x.course \in Courses
    /\ x.pc \in {"count", "publish"} => x.id > 0
    /\ x.pc \in {"row", "count"} /\ x.op = "delete" =>
         \E m \in comments : m.id = x.id /\ m.course = x.course
    /\ x.pc = "count" =>
         /\ x.op = "like" =>
              \A l \in likes : /\ l.id # x.id
                               /\ ~(l.student = x.student /\ l.course = x.course)
         /\ x.op = "unlike" =>
              \E l \in likes : /\ l.id = x.id /\ l.student = x.student
                               /\ l.course = x.course
         /\ x.op = "comment" => \A m \in comments : m.id # x.id
         /\ x.op = "delete" => \E m \in comments : m.id = x.id /\ m.status = 1

(* The locks: sessions that have passed them work on different rows.       *)
Apart(p, q) ==
  LET x == session[p]
      y == session[q] IN
    x.pc = "count" /\ y.pc = "count" =>
      /\ x.op \in {"like", "unlike"} /\ y.op \in {"like", "unlike"} =>
           ~(x.student = y.student /\ x.course = y.course)
      /\ x.op = "like" /\ y.op = "like" => x.id # y.id
      /\ x.op \in {"comment", "delete"} /\ y.op \in {"comment", "delete"} =>
           x.id # y.id

Tables ==
  /\ likes \subseteq Likes /\ comments \subseteq Comments
  /\ IsFiniteSet(likes) /\ IsFiniteSet(comments)
  /\ nextId \in Nat \ {0}
  /\ \A row \in likes \cup comments : row.id > 0 /\ row.id < nextId
  /\ \A l, k \in likes :
       l.id = k.id \/ (l.student = k.student /\ l.course = k.course) => l = k
  /\ \A m, n \in comments : m.id = n.id => m = n

Counts ==
  /\ likeCount \in [Courses -> Nat] /\ commentCount \in [Courses -> Nat]
  /\ CountsMatchRows

SessionsInv ==
  /\ session \in [Sessions -> Session]
  /\ begun \in 0..MaxOperations
  /\ \A p \in Sessions : WorksOn(p)
  /\ \A p, q \in Sessions : p # q => Apart(p, q)

RowInv == Tables /\ Counts /\ SessionsInv

MessageInv ==
  /\ queue \subseteq BizKeys /\ queue \subseteq committed
  /\ delivery \in [key : BizKeys, handled : BOOLEAN] \cup {None}
  /\ delivery # None => delivery.key \in committed
  /\ delivery # None /\ delivery.handled =>
       \E n \in notifications : n.key = delivery.key
  /\ \A p \in Sessions : session[p].pc = "publish" => BizKey(p) \in committed
  /\ notifications \subseteq [id : Nat, key : BizKeys, read : BOOLEAN]
  /\ IsFiniteSet(notifications)
  /\ NotifiedOfFacts
  /\ PublishedNotLost

IInv == RowInv /\ MessageInv
-----------------------------------------------------------------------------
LEMMA InitCommunity == Init => IInv
<1> SUFFICES ASSUME Init PROVE IInv
  OBVIOUS
<1> USE BoundAssumption, OldRowsAssumption
<1>1. /\ IsFiniteSet({}) /\ likes \in {{}, OldLikes} /\ comments \in {{}, OldComments}
      /\ nextId = FirstId
  BY FS_EmptySet DEF Init
<1>2. Tables
  <2>1. \A row \in OldLikes \cup OldComments : row.id > 0 /\ row.id < FirstId
    <3>1. \A i \in OldIds : i > 0 /\ i < FirstId
      BY DEF OldIds
    <3> QED
      BY <3>1
  <2>2. \A row \in likes \cup comments : row.id > 0 /\ row.id < nextId
    BY <1>1, <2>1
  <2>3. /\ likes \subseteq Likes /\ comments \subseteq Comments
        /\ IsFiniteSet(likes) /\ IsFiniteSet(comments)
    BY <1>1
  <2>4. \A l, k \in likes :
          l.id = k.id \/ (l.student = k.student /\ l.course = k.course) => l = k
    BY <1>1
  <2>5. \A m, n \in comments : m.id = n.id => m = n
    BY <1>1
  <2> QED
    BY <1>1, <2>2, <2>3, <2>4, <2>5 DEF Tables
<1>3. Counts
  <2>1. ASSUME NEW c \in Courses
        PROVE  Cardinality(LikesOn(c)) \in Nat /\ Cardinality(CommentsOn(c)) \in Nat
    <3>1. LikesOn(c) \subseteq likes /\ CommentsOn(c) \subseteq comments
      BY DEF LikesOn, CommentsOn
    <3>2. IsFiniteSet(LikesOn(c)) /\ IsFiniteSet(CommentsOn(c))
      BY <1>2, <3>1, FS_Subset DEF Tables
    <3> QED
      BY <3>2, FS_CardinalityType
  <2>2. /\ likeCount = [c \in Courses |-> Cardinality(LikesOn(c))]
        /\ commentCount = [c \in Courses |-> Cardinality(CommentsOn(c))]
    BY DEF Init
  <2> QED
    BY <2>1, <2>2 DEF Counts, CountsMatchRows
<1>4. SessionsInv
  <2>1. session = [p \in Sessions |-> Idle] /\ begun = 0
    BY DEF Init
  <2>2. Idle \in Session
    BY DEF Idle, Session
  <2>3. \A p \in Sessions : session[p].pc = "idle" /\ session[p].id = 0
    BY <2>1 DEF Idle
  <2> QED
    BY <1>1, <2>1, <2>2, <2>3 DEF SessionsInv, WorksOn, Apart
<1>5. MessageInv
  <2>1. /\ queue = {} /\ delivery = None /\ published = {} /\ notifications = {}
        /\ \A p \in Sessions : session[p].pc = "idle"
    BY DEF Init, Idle
  <2> QED
    BY <1>1, <2>1 DEF MessageInv, NotifiedOfFacts, PublishedNotLost
<1> QED
  BY <1>2, <1>3, <1>4, <1>5 DEF IInv, RowInv
-----------------------------------------------------------------------------
(* A session that ends, or goes on to a row it has not locked yet, is in   *)
(* nobody's way.                                                           *)
LEMMA SessionMoves ==
  ASSUME RowInv, NEW p \in Sessions, NEW y \in Session,
         session' = [session EXCEPT ![p] = y],
         begun' \in 0..MaxOperations,
         UNCHANGED rows, nextId' \in {nextId, nextId + 1},
         WorksOn(p)',
         \A q \in Sessions \ {p} : Apart(p, q)' /\ Apart(q, p)'
  PROVE  RowInv'
<1> USE DEF RowInv
<1>1. /\ likes' = likes /\ comments' = comments
      /\ likeCount' = likeCount /\ commentCount' = commentCount
  BY DEF rows
<1>2. Tables'
  BY <1>1 DEF Tables, Likes, Comments
<1>3. Counts'
  BY <1>1 DEF Counts, CountsMatchRows, LikesOn, CommentsOn
<1>4. session' \in [Sessions -> Session]
  BY DEF SessionsInv
<1>5. \A q \in Sessions \ {p} : session'[q] = session[q]
  BY DEF SessionsInv
<1>6. ASSUME NEW q \in Sessions \ {p} PROVE WorksOn(q)'
  <2>1. session[q].id \in Nat /\ nextId \in Nat
    BY DEF SessionsInv, Session, Tables
  <2> QED
    BY <1>1, <1>5, <2>1 DEF WorksOn, SessionsInv
<1>7. ASSUME NEW q \in Sessions \ {p}, NEW r \in Sessions \ {p}, q # r
      PROVE  Apart(q, r)'
  BY <1>5, <1>7 DEF Apart, SessionsInv
<1>8. \A q \in Sessions : WorksOn(q)'
  BY <1>6
<1>9. \A q, r \in Sessions : q # r => Apart(q, r)'
  BY <1>7
<1>10. SessionsInv'
  BY <1>4, <1>8, <1>9 DEF SessionsInv
<1> QED
  BY <1>2, <1>3, <1>10

(* Whoever is not past the locks is apart from everybody.                  *)
LEMMA NotCounting ==
  ASSUME RowInv, NEW p \in Sessions, NEW y \in Session,
         session' = [session EXCEPT ![p] = y],
         y.pc # "count"
  PROVE  \A q \in Sessions \ {p} : Apart(p, q)' /\ Apart(q, p)'
<1>1. session'[p] = y
  BY DEF RowInv, SessionsInv
<1> QED
  BY <1>1 DEF Apart

LEMMA Ends ==
  ASSUME RowInv, NEW p \in Sessions, End(p),
         UNCHANGED <<rows, nextId, begun>>
  PROVE  RowInv'
<1>1. Idle \in Session /\ session' = [session EXCEPT ![p] = Idle]
  BY DEF Idle, Session, End
<1>2. session'[p] = Idle /\ Idle.pc = "idle" /\ Idle.id = 0
  BY <1>1 DEF RowInv, SessionsInv, Idle
<1>3. WorksOn(p)'
  BY <1>2 DEF WorksOn, RowInv, Tables
<1>4. begun' \in 0..MaxOperations
  BY DEF RowInv, SessionsInv
<1> QED
  BY <1>1, <1>2, <1>3, <1>4, NotCounting, SessionMoves

LEMMA Begins ==
  ASSUME RowInv, NEW p \in Sessions, Begin(p) \/ BeginDelete(p)
  PROVE  RowInv'
<1>1. PICK y \in Session :
        /\ session' = [session EXCEPT ![p] = y]
        /\ y.pc = "row" /\ y.id < nextId
        /\ y.op \in Operations /\ y.student \in Students /\ y.course \in Courses
        /\ y.op = "delete" => \E m \in comments : m.id = y.id /\ m.course = y.course
  <2>1. CASE Begin(p)
    <3>1. PICK op \in Operations \ {"delete"}, s \in Students, c \in Courses :
            session' = [session EXCEPT ![p] =
              [pc |-> "row", op |-> op, student |-> s, course |-> c, id |-> 0]]
      BY <2>1 DEF Begin
    <3>2. [pc |-> "row", op |-> op, student |-> s, course |-> c, id |-> 0] \in Session
      BY DEF Session
    <3>3. op \in Operations /\ op # "delete" /\ 0 < nextId
      BY DEF RowInv, Tables
    <3> QED
      BY <3>1, <3>2, <3>3
  <2>2. CASE BeginDelete(p)
    <3>1. PICK s \in Students, m \in comments :
            session' = [session EXCEPT ![p] =
              [pc |-> "row", op |-> "delete", student |-> s, course |-> m.course,
               id |-> m.id]]
      BY <2>2 DEF BeginDelete
    <3>2. m.id \in Nat /\ m.course \in Courses /\ m.id < nextId
      BY DEF RowInv, Tables, Comments
    <3>3. [pc |-> "row", op |-> "delete", student |-> s, course |-> m.course,
           id |-> m.id] \in Session
      BY <3>2 DEF Session, Operations
    <3> QED
      BY <3>1, <3>2, <3>3 DEF Operations
  <2> QED
    BY <2>1, <2>2
<1>2. UNCHANGED rows /\ nextId' = nextId /\ begun' \in 0..MaxOperations
  BY BoundAssumption DEF Begin, BeginDelete, RowInv, SessionsInv
<1>3. session'[p] = y
  BY <1>1 DEF RowInv, SessionsInv
<1>4. WorksOn(p)'
  BY <1>1, <1>2, <1>3 DEF WorksOn, rows
<1> QED
  BY <1>1, <1>2, <1>4, NotCounting, SessionMoves

(* An insert takes a fresh id and, for a like, a pair nobody has.          *)
LEMMA InsertsRow ==
  ASSUME RowInv, NEW p \in Sessions, InsertRow(p)
  PROVE  RowInv'
<1> DEFINE x == session[p]
           y == [x EXCEPT !.pc = "count", !.id = nextId]
<1>1. x \in Session /\ WorksOn(p) /\ nextId \in Nat \ {0} /\ x.pc = "row"
  BY DEF RowInv, SessionsInv, Tables, InsertRow
<1>2. /\ y \in Session /\ y.pc = "count" /\ y.id = nextId /\ y.op = x.op
      /\ y.student = x.student /\ y.course = x.course
  BY <1>1 DEF Session
<1>3. /\ session' = [session EXCEPT ![p] = y] /\ nextId' = nextId + 1
      /\ UNCHANGED <<rows, begun>>
  BY DEF InsertRow, RowInv, SessionsInv
<1>4. session'[p] = y /\ \A q \in Sessions \ {p} : session'[q] = session[q]
  BY <1>3 DEF RowInv, SessionsInv
<1>5. x.op \in {"like", "comment"}
  BY DEF InsertRow, Inserts
<1>6. x.op = "like" =>
        \A l \in likes : ~(l.student = x.student /\ l.course = x.course)
  BY DEF InsertRow, Inserts, LikesOf
<1>7. \A row \in likes \cup comments : row.id # nextId
  BY DEF RowInv, Tables, Likes, Comments
<1>8. WorksOn(p)'
  <2>1. nextId < nextId' /\ nextId > 0
    BY <1>1, <1>3
  <2>2. /\ likes' = likes /\ comments' = comments
        /\ y.op \in Operations /\ y.student \in Students /\ y.course \in Courses
    BY <1>1, <1>2, <1>3 DEF rows, WorksOn
  <2>3. /\ y.op # "delete" /\ y.op # "unlike" /\ y.pc = "count"
        /\ \A row \in likes \cup comments : row.id # y.id
        /\ y.op = "like" =>
             \A l \in likes : ~(l.student = y.student /\ l.course = y.course)
    BY <1>2, <1>5, <1>6, <1>7
  <2> QED
    BY <1>2, <1>4, <2>1, <2>2, <2>3 DEF WorksOn
<1>9. ASSUME NEW q \in Sessions \ {p} PROVE Apart(p, q)' /\ Apart(q, p)'
  <2> DEFINE z == session[q]
  <2>1. z.id # nextId
    BY <1>1 DEF RowInv, SessionsInv, Session, WorksOn
  <2>2. ASSUME z.pc = "count", x.op = "like", z.op \in {"like", "unlike"},
               z.student = x.student, z.course = x.course
        PROVE  FALSE
    <3>1. RowOf(z) = RowOf(x)
      BY <2>2 DEF RowOf
    <3> QED
      BY <2>2, <3>1 DEF InsertRow, Holders
  <2> QED
    BY <1>2, <1>4, <1>5, <2>1, <2>2 DEF Apart
<1>10. begun' \in 0..MaxOperations
  BY <1>3 DEF RowInv, SessionsInv
<1> QED
  BY <1>2, <1>3, <1>8, <1>9, <1>10, SessionMoves

(* A lock is granted on a row that is there and that nobody holds.         *)
LEMMA LocksRow ==
  ASSUME RowInv, NEW p \in Sessions, LockRow(p)
  PROVE  RowInv'
<1> DEFINE x == session[p]
<1>1. PICK i \in Lockable(p) : session' = [session EXCEPT ![p].pc = "count", ![p].id = i]
  BY DEF LockRow
<1> DEFINE y == [x EXCEPT !.pc = "count", !.id = i]
<1>2. x \in Session /\ WorksOn(p) /\ x.pc = "row" /\ x.op \in {"unlike", "delete"}
  BY DEF RowInv, SessionsInv, LockRow
<1>3. x.op = "unlike" =>
        \E l \in likes : l.id = i /\ l.student = x.student /\ l.course = x.course
  BY DEF Lockable, LikesOf
<1>4. x.op = "delete" => i = x.id /\ \E m \in comments : m.id = i /\ m.status = 1
  BY <1>2 DEF Lockable
<1>5. i \in Nat /\ i > 0 /\ i < nextId
  <2>1. \E row \in likes \cup comments : row.id = i
    BY <1>2, <1>3, <1>4
  <2> QED
    BY <2>1 DEF RowInv, Tables, Likes, Comments
<1>6. /\ y \in Session /\ y.pc = "count" /\ y.id = i /\ y.op = x.op
      /\ y.student = x.student /\ y.course = x.course
  BY <1>2, <1>5 DEF Session
<1>7. /\ session' = [session EXCEPT ![p] = y] /\ nextId' = nextId
      /\ UNCHANGED <<rows, begun>>
  BY <1>1 DEF LockRow, RowInv, SessionsInv
<1>8. session'[p] = y /\ \A q \in Sessions \ {p} : session'[q] = session[q]
  BY <1>7 DEF RowInv, SessionsInv
<1>9. WorksOn(p)'
  BY <1>2, <1>3, <1>4, <1>5, <1>6, <1>7, <1>8 DEF WorksOn, rows
<1>10. ASSUME NEW q \in Sessions \ {p} PROVE Apart(p, q)' /\ Apart(q, p)'
  <2> DEFINE z == session[q]
  <2>1. ASSUME z.pc = "count",
               \/ /\ x.op = "unlike" /\ z.op \in {"like", "unlike"}
                  /\ z.student = x.student /\ z.course = x.course
               \/ x.op = "delete" /\ z.op \in {"comment", "delete"} /\ z.id = x.id
        PROVE  FALSE
    <3>1. RowOf(z) = RowOf(x)
      BY <2>1 DEF RowOf
    <3> QED
      BY <2>1, <3>1 DEF LockRow, Holders
  <2> QED
    BY <1>2, <1>4, <1>6, <1>8, <2>1 DEF Apart
<1>11. begun' \in 0..MaxOperations
  BY <1>7 DEF RowInv, SessionsInv
<1> QED
  BY <1>6, <1>7, <1>9, <1>10, <1>11, SessionMoves
-----------------------------------------------------------------------------
LEMMA RowsFinite ==
  ASSUME Tables, NEW c \in Courses
  PROVE  /\ IsFiniteSet(LikesOn(c)) /\ IsFiniteSet(CommentsOn(c))
         /\ Cardinality(LikesOn(c)) \in Nat /\ Cardinality(CommentsOn(c)) \in Nat
<1>1. LikesOn(c) \subseteq likes /\ CommentsOn(c) \subseteq comments
  BY DEF LikesOn, CommentsOn
<1>2. IsFiniteSet(LikesOn(c)) /\ IsFiniteSet(CommentsOn(c))
  BY <1>1, FS_Subset DEF Tables
<1> QED
  BY <1>2, FS_CardinalityType

(* What a commit leaves to show: the tables, the counters, and that it     *)
(* takes nothing away from the others.                                     *)
LEMMA CommitMoves ==
  ASSUME RowInv, NEW p \in Sessions, CountAndCommit(p),
         Tables', Counts',
         \A q \in Sessions \ {p} : WorksOn(q)'
  PROVE  RowInv'
<1> DEFINE x == session[p]
           y == [x EXCEPT !.pc = "publish"]
<1>1. x \in Session /\ WorksOn(p) /\ x.pc = "count"
  BY DEF RowInv, SessionsInv, CountAndCommit
<1>2. /\ y \in Session /\ y.pc = "publish" /\ y.id = x.id /\ y.op = x.op
      /\ y.student = x.student /\ y.course = x.course
  BY <1>1 DEF Session
<1>3. session' = [session EXCEPT ![p] = y] /\ nextId' = nextId /\ begun' = begun
  BY DEF CountAndCommit, RowInv, SessionsInv
<1>4. /\ session' \in [Sessions -> Session] /\ session'[p] = y
      /\ \A q \in Sessions \ {p} : session'[q] = session[q]
  BY <1>2, <1>3 DEF RowInv, SessionsInv
<1>5. WorksOn(p)'
  BY <1>1, <1>2, <1>3, <1>4 DEF WorksOn
<1>6. ASSUME NEW q \in Sessions, NEW r \in Sessions, q # r PROVE Apart(q, r)'
  <2>1. CASE p \in {q, r}
    BY <1>2, <1>4, <2>1 DEF Apart
  <2>2. CASE p \notin {q, r}
    <3>1. Apart(q, r) /\ session'[q] = session[q] /\ session'[r] = session[r]
      BY <1>4, <1>6, <2>2 DEF RowInv, SessionsInv
    <3> QED
      BY <3>1 DEF Apart
  <2> QED
    BY <2>1, <2>2
<1>7. SessionsInv'
  <2>1. \A q \in Sessions : WorksOn(q)'
    BY <1>5
  <2>2. \A q, r \in Sessions : q # r => Apart(q, r)'
    BY <1>6
  <2>3. begun' \in 0..MaxOperations
    BY <1>3 DEF RowInv, SessionsInv
  <2> QED
    BY <1>4, <2>1, <2>2, <2>3 DEF SessionsInv
<1> QED
  BY <1>7 DEF RowInv

LEMMA CommitsLike ==
  ASSUME RowInv, NEW p \in Sessions, CountAndCommit(p), session[p].op = "like"
  PROVE  RowInv'
<1> DEFINE x == session[p]
           row == [id |-> x.id, student |-> x.student, course |-> x.course]
<1>1. /\ x \in Session /\ WorksOn(p) /\ x.pc = "count" /\ x.op = "like"
      /\ Tables /\ Counts
  BY DEF RowInv, SessionsInv, CountAndCommit
<1>2. /\ likes' = likes \cup {row}
      /\ likeCount' = [likeCount EXCEPT ![x.course] = @ + 1]
      /\ comments' = comments /\ commentCount' = commentCount /\ nextId' = nextId
      /\ \A q \in Sessions \ {p} : session'[q] = session[q]
  BY <1>1 DEF CountAndCommit, RowInv, SessionsInv
<1>3. /\ row \in Likes /\ row.id = x.id /\ x.id > 0 /\ x.id < nextId
      /\ row.student = x.student /\ row.course = x.course /\ x.course \in Courses
  BY <1>1 DEF WorksOn, Session, Likes
<1>4. \A l \in likes : /\ l.id # x.id
                       /\ ~(l.student = x.student /\ l.course = x.course)
  BY <1>1 DEF WorksOn
<1>5. Tables'
  <2>1. likes' \subseteq Likes /\ comments' \subseteq Comments
    BY <1>1, <1>2, <1>3 DEF Tables, Comments
  <2>2. IsFiniteSet(likes') /\ IsFiniteSet(comments')
    BY <1>1, <1>2, FS_AddElement DEF Tables
  <2>3. \A r \in likes' \cup comments' : r.id > 0 /\ r.id < nextId'
    BY <1>1, <1>2, <1>3 DEF Tables
  <2>4. \A l, k \in likes' :
          l.id = k.id \/ (l.student = k.student /\ l.course = k.course) => l = k
    BY <1>1, <1>2, <1>3, <1>4 DEF Tables
  <2>5. nextId' \in Nat \ {0} /\ \A m, n \in comments' : m.id = n.id => m = n
    BY <1>1, <1>2 DEF Tables
  <2> QED
    BY <2>1, <2>2, <2>3, <2>4, <2>5 DEF Tables
<1>6. Counts'
  <2>1. /\ likeCount' \in [Courses -> Nat] /\ commentCount' \in [Courses -> Nat]
        /\ likeCount'[x.course] = likeCount[x.course] + 1
        /\ \A c \in Courses \ {x.course} : likeCount'[c] = likeCount[c]
    BY <1>1, <1>2, <1>3 DEF Counts
  <2>2. ASSUME NEW c \in Courses
        PROVE  /\ likeCount'[c] = Cardinality(LikesOn(c)')
               /\ commentCount'[c] = Cardinality(CommentsOn(c)')
    <3>1. CommentsOn(c)' = CommentsOn(c)
      BY <1>2 DEF CommentsOn
    <3>2. /\ likeCount[c] = Cardinality(LikesOn(c))
          /\ commentCount[c] = Cardinality(CommentsOn(c))
      BY <1>1 DEF Counts, CountsMatchRows
    <3>3. CASE c = x.course
      <4>1. LikesOn(c)' = LikesOn(c) \cup {row} /\ row \notin LikesOn(c)
        BY <1>2, <1>3, <1>4, <3>3 DEF LikesOn
      <4>2. IsFiniteSet(LikesOn(c))
        BY <1>1, RowsFinite
      <4>3. Cardinality(LikesOn(c) \cup {row}) = Cardinality(LikesOn(c)) + 1
        BY <4>1, <4>2, FS_AddElement
      <4> QED
        BY <1>2, <2>1, <3>1, <3>2, <3>3, <4>1, <4>3
    <3>4. CASE c # x.course
      <4>1. LikesOn(c)' = LikesOn(c)
        BY <1>2, <1>3, <3>4 DEF LikesOn
      <4> QED
        BY <1>2, <2>1, <3>1, <3>2, <3>4, <4>1
    <3> QED
      BY <3>3, <3>4
  <2> QED
    BY <2>1, <2>2 DEF Counts, CountsMatchRows
<1>7. ASSUME NEW q \in Sessions \ {p} PROVE WorksOn(q)'
  <2>1. WorksOn(q) /\ Apart(p, q) /\ session'[q] = session[q]
    BY <1>2 DEF RowInv, SessionsInv
  <2> QED
    BY <1>1, <1>2, <1>3, <2>1 DEF WorksOn, Apart
<1> QED
  BY <1>5, <1>6, <1>7, CommitMoves

LEMMA CommitsUnlike ==
  ASSUME RowInv, NEW p \in Sessions, CountAndCommit(p), session[p].op = "unlike"
  PROVE  RowInv'
<1> DEFINE x == session[p]
<1>1. /\ x \in Session /\ WorksOn(p) /\ x.pc = "count" /\ x.op = "unlike"
      /\ Tables /\ Counts
  BY DEF RowInv, SessionsInv, CountAndCommit
<1>2. /\ likes' = {l \in likes : l.id # x.id}
      /\ likeCount' = [likeCount EXCEPT ![x.course] = FloorDecrement(@)]
      /\ comments' = comments /\ commentCount' = commentCount /\ nextId' = nextId
      /\ \A q \in Sessions \ {p} : session'[q] = session[q]
  BY <1>1 DEF CountAndCommit, RowInv, SessionsInv
<1>3. PICK row \in likes :
        row.id = x.id /\ row.student = x.student /\ row.course = x.course
  BY <1>1 DEF WorksOn
<1>4. x.course \in Courses /\ likes' = likes \ {row}
  BY <1>1, <1>2, <1>3 DEF Tables, WorksOn
<1>5. Tables'
  <2>1. IsFiniteSet(likes')
    BY <1>1, <1>4, FS_RemoveElement DEF Tables
  <2> QED
    BY <1>1, <1>2, <1>4, <2>1 DEF Tables, Likes, Comments
<1>6. Counts'
  <2>1. /\ likeCount' \in [Courses -> Nat] /\ commentCount' \in [Courses -> Nat]
        /\ likeCount'[x.course] = FloorDecrement(likeCount[x.course])
        /\ \A c \in Courses \ {x.course} : likeCount'[c] = likeCount[c]
    BY <1>1, <1>2, <1>4 DEF Counts, FloorDecrement
  <2>2. ASSUME NEW c \in Courses
        PROVE  /\ likeCount'[c] = Cardinality(LikesOn(c)')
               /\ commentCount'[c] = Cardinality(CommentsOn(c)')
    <3>1. CommentsOn(c)' = CommentsOn(c)
      BY <1>2 DEF CommentsOn
    <3>2. /\ likeCount[c] = Cardinality(LikesOn(c))
          /\ commentCount[c] = Cardinality(CommentsOn(c))
      BY <1>1 DEF Counts, CountsMatchRows
    <3>3. CASE c = x.course
      <4>1. LikesOn(c)' = LikesOn(c) \ {row} /\ row \in LikesOn(c)
        BY <1>3, <1>4, <3>3 DEF LikesOn
      <4>2. /\ Cardinality(LikesOn(c)') = Cardinality(LikesOn(c)) - 1
            /\ Cardinality(LikesOn(c)) \in Nat /\ Cardinality(LikesOn(c)) # 0
        BY <1>1, <4>1, RowsFinite, FS_RemoveElement, FS_EmptySet
      <4> QED
        BY <1>2, <2>1, <3>1, <3>2, <3>3, <4>2 DEF FloorDecrement
    <3>4. CASE c # x.course
      <4>1. LikesOn(c)' = LikesOn(c)
        BY <1>3, <1>4, <3>4 DEF LikesOn
      <4> QED
        BY <1>2, <2>1, <3>1, <3>2, <3>4, <4>1
    <3> QED
      BY <3>3, <3>4
  <2> QED
    BY <2>1, <2>2 DEF Counts, CountsMatchRows
<1>7. ASSUME NEW q \in Sessions \ {p} PROVE WorksOn(q)'
  <2>1. WorksOn(q) /\ Apart(p, q) /\ session'[q] = session[q]
    BY <1>2 DEF RowInv, SessionsInv
  <2> QED
    BY <1>1, <1>2, <1>3, <1>4, <2>1 DEF WorksOn, Apart
<1> QED
  BY <1>5, <1>6, <1>7, CommitMoves

LEMMA CommitsComment ==
  ASSUME RowInv, NEW p \in Sessions, CountAndCommit(p), session[p].op = "comment"
  PROVE  RowInv'
<1> DEFINE x == session[p]
           row == [id |-> x.id, student |-> x.student, course |-> x.course,
                   status |-> 1]
<1>1. /\ x \in Session /\ WorksOn(p) /\ x.pc = "count" /\ x.op = "comment"
      /\ Tables /\ Counts
  BY DEF RowInv, SessionsInv, CountAndCommit
<1>2. /\ comments' = comments \cup {row}
      /\ commentCount' = [commentCount EXCEPT ![x.course] = @ + 1]
      /\ likes' = likes /\ likeCount' = likeCount /\ nextId' = nextId
      /\ \A q \in Sessions \ {p} : session'[q] = session[q]
  BY <1>1 DEF CountAndCommit, RowInv, SessionsInv
<1>3. /\ row \in Comments /\ row.id = x.id /\ x.id > 0 /\ x.id < nextId
      /\ row.status = 1 /\ row.course = x.course /\ x.course \in Courses
  BY <1>1 DEF WorksOn, Session, Comments
<1>4. \A m \in comments : m.id # x.id
  BY <1>1 DEF WorksOn
<1>5. Tables'
  <2>1. likes' \subseteq Likes /\ comments' \subseteq Comments
    BY <1>1, <1>2, <1>3 DEF Tables, Likes
  <2>2. IsFiniteSet(likes') /\ IsFiniteSet(comments')
    BY <1>1, <1>2, FS_AddElement DEF Tables
  <2>3. \A r \in likes' \cup comments' : r.id > 0 /\ r.id < nextId'
    BY <1>1, <1>2, <1>3 DEF Tables
  <2>4. \A m, n \in comments' : m.id = n.id => m = n
    BY <1>1, <1>2, <1>3, <1>4 DEF Tables
  <2>5. /\ nextId' \in Nat \ {0}
        /\ \A l, k \in likes' :
             l.id = k.id \/ (l.student = k.student /\ l.course = k.course) => l = k
    BY <1>1, <1>2 DEF Tables
  <2> QED
    BY <2>1, <2>2, <2>3, <2>4, <2>5 DEF Tables
<1>6. Counts'
  <2>1. /\ likeCount' \in [Courses -> Nat] /\ commentCount' \in [Courses -> Nat]
        /\ commentCount'[x.course] = commentCount[x.course] + 1
        /\ \A c \in Courses \ {x.course} : commentCount'[c] = commentCount[c]
    BY <1>1, <1>2, <1>3 DEF Counts
  <2>2. ASSUME NEW c \in Courses
        PROVE  /\ likeCount'[c] = Cardinality(LikesOn(c)')
               /\ commentCount'[c] = Cardinality(CommentsOn(c)')
    <3>1. LikesOn(c)' = LikesOn(c)
      BY <1>2 DEF LikesOn
    <3>2. /\ likeCount[c] = Cardinality(LikesOn(c))
          /\ commentCount[c] = Cardinality(CommentsOn(c))
      BY <1>1 DEF Counts, CountsMatchRows
    <3>3. CASE c = x.course
      <4>1. CommentsOn(c)' = CommentsOn(c) \cup {row} /\ row \notin CommentsOn(c)
        BY <1>2, <1>3, <1>4, <3>3 DEF CommentsOn
      <4>2. IsFiniteSet(CommentsOn(c))
        BY <1>1, RowsFinite
      <4>3. Cardinality(CommentsOn(c) \cup {row}) = Cardinality(CommentsOn(c)) + 1
        BY <4>1, <4>2, FS_AddElement
      <4> QED
        BY <1>2, <2>1, <3>1, <3>2, <3>3, <4>1, <4>3
    <3>4. CASE c # x.course
      <4>1. CommentsOn(c)' = CommentsOn(c)
        BY <1>2, <1>3, <3>4 DEF CommentsOn
      <4> QED
        BY <1>2, <2>1, <3>1, <3>2, <3>4, <4>1
    <3> QED
      BY <3>3, <3>4
  <2> QED
    BY <2>1, <2>2 DEF Counts, CountsMatchRows
<1>7. ASSUME NEW q \in Sessions \ {p} PROVE WorksOn(q)'
  <2>1. WorksOn(q) /\ Apart(p, q) /\ session'[q] = session[q]
    BY <1>2 DEF RowInv, SessionsInv
  <2> QED
    BY <1>1, <1>2, <1>3, <2>1 DEF WorksOn, Apart
<1> QED
  BY <1>5, <1>6, <1>7, CommitMoves

LEMMA CommitsDelete ==
  ASSUME RowInv, NEW p \in Sessions, CountAndCommit(p), session[p].op = "delete"
  PROVE  RowInv'
<1> DEFINE x == session[p]
<1>1. /\ x \in Session /\ WorksOn(p) /\ x.pc = "count" /\ x.op = "delete"
      /\ Tables /\ Counts
  BY DEF RowInv, SessionsInv, CountAndCommit
<1>2. /\ comments' = {IF m.id = x.id THEN [m EXCEPT !.status = 0] ELSE m :
                       m \in comments}
      /\ commentCount' = [commentCount EXCEPT ![x.course] = FloorDecrement(@)]
      /\ likes' = likes /\ likeCount' = likeCount /\ nextId' = nextId
      /\ \A q \in Sessions \ {p} : session'[q] = session[q]
  BY <1>1 DEF CountAndCommit, RowInv, SessionsInv
<1>3. PICK row \in comments : row.id = x.id /\ row.status = 1
  BY <1>1 DEF WorksOn
<1>4. row.course = x.course /\ x.course \in Courses /\ row \in Comments
  BY <1>1, <1>3 DEF WorksOn, Tables
<1> DEFINE gone == [row EXCEPT !.status = 0]
<1>5. /\ gone \in Comments /\ gone.id = x.id /\ gone.course = x.course
      /\ gone.status = 0
  BY <1>3, <1>4 DEF Comments
<1>6. comments' = (comments \ {row}) \cup {gone}
  <2>1. \A m \in comments : m.id = x.id <=> m = row
    BY <1>1, <1>3 DEF Tables
  <2> QED
    BY <1>2, <1>3, <2>1
<1>7. \A m \in comments \ {row} : m.id # x.id
  BY <1>1, <1>3 DEF Tables
<1>8. Tables'
  <2>1. likes' \subseteq Likes /\ comments' \subseteq Comments
    BY <1>1, <1>2, <1>5, <1>6 DEF Tables, Likes
  <2>2. IsFiniteSet(likes') /\ IsFiniteSet(comments')
    <3>1. IsFiniteSet(comments \ {row})
      BY <1>1, FS_RemoveElement DEF Tables
    <3>2. IsFiniteSet((comments \ {row}) \cup {gone})
      BY <3>1, FS_AddElement
    <3> QED
      BY <1>1, <1>2, <1>6, <3>2 DEF Tables
  <2>3. \A r \in likes' \cup comments' : r.id > 0 /\ r.id < nextId'
    <3>1. x.id > 0 /\ x.id < nextId
      BY <1>1 DEF WorksOn
    <3> QED
      BY <1>1, <1>2, <1>5, <1>6, <3>1 DEF Tables
  <2>4. \A m, n \in comments' : m.id = n.id => m = n
    BY <1>1, <1>5, <1>6, <1>7 DEF Tables
  <2>5. /\ nextId' \in Nat \ {0}
        /\ \A l, k \in likes' :
             l.id = k.id \/ (l.student = k.student /\ l.course = k.course) => l = k
    BY <1>1, <1>2 DEF Tables
  <2> QED
    BY <2>1, <2>2, <2>3, <2>4, <2>5 DEF Tables
<1>9. Counts'
  <2>1. /\ likeCount' \in [Courses -> Nat] /\ commentCount' \in [Courses -> Nat]
        /\ commentCount'[x.course] = FloorDecrement(commentCount[x.course])
        /\ \A c \in Courses \ {x.course} : commentCount'[c] = commentCount[c]
    BY <1>1, <1>2, <1>4 DEF Counts, FloorDecrement
  <2>2. ASSUME NEW c \in Courses
        PROVE  /\ likeCount'[c] = Cardinality(LikesOn(c)')
               /\ commentCount'[c] = Cardinality(CommentsOn(c)')
    <3>1. LikesOn(c)' = LikesOn(c)
      BY <1>2 DEF LikesOn
    <3>2. /\ likeCount[c] = Cardinality(LikesOn(c))
          /\ commentCount[c] = Cardinality(CommentsOn(c))
      BY <1>1 DEF Counts, CountsMatchRows
    <3>3. CASE c = x.course
      <4>1. CommentsOn(c)' = CommentsOn(c) \ {row} /\ row \in CommentsOn(c)
        <5>1. row \in CommentsOn(c)
          BY <1>3, <1>4, <3>3 DEF CommentsOn
        <5>2. gone.status # 1
          BY <1>5
        <5>3. CommentsOn(c)' = {m \in (comments \ {row}) \cup {gone} :
                                 m.course = c /\ m.status = 1}
          BY <1>6 DEF CommentsOn
        <5> HIDE DEF gone
        <5>4. \A m \in (comments \ {row}) \cup {gone} :
                m.status = 1 => m \in comments \ {row}
          BY <5>2
        <5>5. CommentsOn(c)' = {m \in comments \ {row} :
                                 m.course = c /\ m.status = 1}
          BY <5>3, <5>4
        <5> QED
          BY <5>1, <5>5 DEF CommentsOn
      <4>2. /\ Cardinality(CommentsOn(c)') = Cardinality(CommentsOn(c)) - 1
            /\ Cardinality(CommentsOn(c)) \in Nat /\ Cardinality(CommentsOn(c)) # 0
        BY <1>1, <4>1, RowsFinite, FS_RemoveElement, FS_EmptySet
      <4> QED
        BY <1>2, <2>1, <3>1, <3>2, <3>3, <4>2 DEF FloorDecrement
    <3>4. CASE c # x.course
      <4>1. CommentsOn(c)' = CommentsOn(c)
        BY <1>4, <1>5, <1>6, <3>4 DEF CommentsOn
      <4> QED
        BY <1>2, <2>1, <3>1, <3>2, <3>4, <4>1
    <3> QED
      BY <3>3, <3>4
  <2> QED
    BY <2>1, <2>2 DEF Counts, CountsMatchRows
<1>10. ASSUME NEW q \in Sessions \ {p} PROVE WorksOn(q)'
  <2> DEFINE z == session[q]
  <2>1. WorksOn(q) /\ Apart(p, q) /\ session'[q] = z
    BY <1>2 DEF RowInv, SessionsInv
  <2>2. z.pc \in {"row", "count"} /\ z.op = "delete" =>
          \E m \in comments' : m.id = z.id /\ m.course = z.course
    <3>1. SUFFICES ASSUME z.pc \in {"row", "count"}, z.op = "delete"
                   PROVE  \E m \in comments' : m.id = z.id /\ m.course = z.course
      OBVIOUS
    <3>2. PICK m \in comments : m.id = z.id /\ m.course = z.course
      BY <2>1, <3>1 DEF WorksOn
    <3>3. CASE m = row
      BY <1>3, <1>4, <1>5, <1>6, <3>2, <3>3
    <3>4. CASE m # row
      BY <1>6, <3>2, <3>4
    <3> QED
      BY <3>3, <3>4
  <2>3. z.pc = "count" /\ z.op = "delete" =>
          \E m \in comments' : m.id = z.id /\ m.status = 1
    <3>1. SUFFICES ASSUME z.pc = "count", z.op = "delete"
                   PROVE  \E m \in comments' : m.id = z.id /\ m.status = 1
      OBVIOUS
    <3>2. PICK m \in comments : m.id = z.id /\ m.status = 1
      BY <2>1, <3>1 DEF WorksOn
    <3>3. m # row
      BY <1>1, <1>3, <2>1, <3>1, <3>2 DEF Apart
    <3> QED
      BY <1>6, <3>2, <3>3
  <2>4. z.pc = "count" /\ z.op = "comment" => \A m \in comments' : m.id # z.id
    BY <1>1, <1>5, <1>6, <2>1 DEF WorksOn, Apart
  <2> QED
    BY <1>2, <2>1, <2>2, <2>3, <2>4 DEF WorksOn
<1> QED
  BY <1>8, <1>9, <1>10, CommitMoves

(* MySQL and the sessions are in order after every step.                   *)
LEMMA StepRows == RowInv /\ [Next]_vars => RowInv'
<1> SUFFICES ASSUME RowInv, [Next]_vars PROVE RowInv'
  OBVIOUS
<1>1. ASSUME NEW p \in Sessions, Begin(p) \/ BeginDelete(p) PROVE RowInv'
  BY <1>1, Begins
<1>2. ASSUME NEW p \in Sessions, InsertRow(p) PROVE RowInv'
  BY <1>2, InsertsRow
<1>3. ASSUME NEW p \in Sessions, LockRow(p) PROVE RowInv'
  BY <1>3, LocksRow
<1>4. ASSUME NEW p \in Sessions,
             RowRefused(p) \/ Abort(p) \/ Publish(p) \/ PublishFails(p)
      PROVE  RowInv'
  BY <1>4, Ends DEF RowRefused, Abort, Publish, PublishFails
<1>5. ASSUME NEW p \in Sessions, CountAndCommit(p) PROVE RowInv'
  <2>1. session[p].op \in {"like", "unlike", "comment", "delete"}
    BY <1>5 DEF CountAndCommit
  <2> QED
    BY <1>5, <2>1, CommitsLike, CommitsUnlike, CommitsComment, CommitsDelete
<1>6. ASSUME Receive \/ Handle \/ Ack \/ Requeue \/ MarkRead \/ UNCHANGED vars
      PROVE  RowInv'
  <2>1. UNCHANGED <<rows, nextId, session, begun>>
    BY <1>6 DEF Receive, Handle, Ack, Requeue, MarkRead, vars
  <2>2. Tables' /\ Counts'
    BY <2>1 DEF RowInv, Tables, Counts, CountsMatchRows, LikesOn, CommentsOn, rows
  <2>3. SessionsInv'
    BY <2>1 DEF RowInv, SessionsInv, WorksOn, Apart, rows
  <2> QED
    BY <2>2, <2>3 DEF RowInv
<1> QED
  BY <1>1, <1>2, <1>3, <1>4, <1>5, <1>6 DEF Next
-----------------------------------------------------------------------------
(* The key of the message a session will publish is one the worker knows.  *)
LEMMA KeyTyped ==
  ASSUME RowInv, NEW p \in Sessions, session[p].pc \in {"count", "publish"}
  PROVE  BizKey(p) \in BizKeys
<1>1. session[p] \in Session /\ WorksOn(p)
  BY DEF RowInv, SessionsInv
<1>2. session[p].op \in Operations /\ session[p].id \in Nat \ {0}
  BY <1>1 DEF WorksOn, Session
<1> QED
  BY <1>2 DEF BizKey, BizKeys

(* A commit, or a publication, that ends or goes on.                       *)
LEMMA SessionMessages ==
  ASSUME RowInv, MessageInv, NEW p \in Sessions, NEW y,
         session' = [session EXCEPT ![p] = y],
         y.pc = "publish" => <<y.op, y.id>> \in committed',
         committed \subseteq committed'
  PROVE  \A q \in Sessions : session'[q].pc = "publish" => BizKey(q)' \in committed'
<1>1. session'[p] = y /\ \A q \in Sessions \ {p} : session'[q] = session[q]
  BY DEF RowInv, SessionsInv
<1> QED
  BY <1>1 DEF MessageInv, BizKey

(* HandleMessage adds the row of the message, if it is not there.          *)
LEMMA StoredOnce ==
  ASSUME MessageInv, NEW k \in BizKeys, k \in committed
  PROVE  /\ Stored(k) \subseteq [id : Nat, key : BizKeys, read : BOOLEAN]
         /\ IsFiniteSet(Stored(k))
         /\ notifications \subseteq Stored(k)
         /\ \E n \in Stored(k) : n.key = k
         /\ \A n \in Stored(k) : n.key \in committed
         /\ \A m, n \in Stored(k) : m.key = n.key => m = n
<1>1. CASE \E n \in notifications : n.key = k
  BY <1>1 DEF Stored, MessageInv, NotifiedOfFacts
<1>2. CASE \A n \in notifications : n.key # k
  <2> DEFINE new == [id |-> Cardinality(notifications) + 1, key |-> k,
                     read |-> FALSE]
  <2>1. Stored(k) = notifications \cup {new}
    BY <1>2 DEF Stored
  <2>2. Cardinality(notifications) \in Nat
    BY FS_CardinalityType DEF MessageInv
  <2>3. new \in [id : Nat, key : BizKeys, read : BOOLEAN] /\ new.key = k
    BY <2>2
  <2>4. IsFiniteSet(notifications \cup {new})
    BY FS_AddElement DEF MessageInv
  <2> HIDE DEF new
  <2> QED
    BY <1>2, <2>1, <2>3, <2>4 DEF MessageInv, NotifiedOfFacts
<1> QED
  BY <1>1, <1>2

(* The messages are in order after every step.                             *)
LEMMA StepMessages == IInv /\ [Next]_vars => MessageInv'
<1> SUFFICES ASSUME RowInv, MessageInv, [Next]_vars PROVE MessageInv'
  BY DEF IInv
<1>1. ASSUME NEW p \in Sessions, NEW y,
             session' = [session EXCEPT ![p] = y], y.pc # "publish",
             UNCHANGED <<broker, notifications, committed>>
      PROVE  MessageInv'
  <2>1. \A q \in Sessions : session'[q].pc = "publish" => BizKey(q)' \in committed'
    BY <1>1, SessionMessages
  <2> QED
    BY <1>1, <2>1 DEF MessageInv, NotifiedOfFacts, PublishedNotLost, broker
<1>2. ASSUME NEW p \in Sessions, Begin(p) \/ BeginDelete(p) PROVE MessageInv'
  <2>1. \E y : /\ session' = [session EXCEPT ![p] = y] /\ y.pc = "row"
    <3>1. CASE Begin(p)
      <4>1. PICK op \in Operations \ {"delete"}, s \in Students, c \in Courses :
              session' = [session EXCEPT ![p] =
                [pc |-> "row", op |-> op, student |-> s, course |-> c, id |-> 0]]
        BY <3>1 DEF Begin
      <4> DEFINE y == [pc |-> "row", op |-> op, student |-> s, course |-> c, id |-> 0]
      <4>2. y.pc = "row" /\ session' = [session EXCEPT ![p] = y]
        BY <4>1
      <4> HIDE DEF y
      <4> QED
        BY <4>2
    <3>2. CASE BeginDelete(p)
      <4>1. PICK s \in Students, m \in comments :
              session' = [session EXCEPT ![p] =
                [pc |-> "row", op |-> "delete", student |-> s, course |-> m.course,
                 id |-> m.id]]
        BY <3>2 DEF BeginDelete
      <4> DEFINE y == [pc |-> "row", op |-> "delete", student |-> s,
                       course |-> m.course, id |-> m.id]
      <4>2. y.pc = "row" /\ session' = [session EXCEPT ![p] = y]
        BY <4>1
      <4> HIDE DEF y
      <4> QED
        BY <4>2
    <3> QED
      BY <1>2, <3>1, <3>2
  <2> QED
    BY <1>1, <1>2, <2>1 DEF Begin, BeginDelete
<1>3. ASSUME NEW p \in Sessions, InsertRow(p) \/ LockRow(p) PROVE MessageInv'
  <2>1. session[p] \in Session /\ session \in [Sessions -> Session]
    BY DEF RowInv, SessionsInv
  <2>2. \E i : session' = [session EXCEPT ![p] =
                            [session[p] EXCEPT !.pc = "count", !.id = i]]
    BY <1>3, <2>1 DEF InsertRow, LockRow
  <2>3. \A i : [session[p] EXCEPT !.pc = "count", !.id = i].pc = "count"
    BY <2>1 DEF Session
  <2> QED
    BY <1>1, <1>3, <2>2, <2>3 DEF InsertRow, LockRow
<1>4. ASSUME NEW p \in Sessions, RowRefused(p) \/ Abort(p) \/ PublishFails(p)
      PROVE  MessageInv'
  <2>1. /\ session' = [session EXCEPT ![p] = Idle]
        /\ UNCHANGED <<broker, notifications, committed>>
    BY <1>4 DEF RowRefused, Abort, PublishFails, End
  <2>2. Idle.pc # "publish"
    BY DEF Idle
  <2> QED
    BY <1>1, <2>1, <2>2
<1>5. ASSUME NEW p \in Sessions, CountAndCommit(p) PROVE MessageInv'
  <2> DEFINE y == [session[p] EXCEPT !.pc = "publish"]
  <2>1. session[p] \in Session /\ session \in [Sessions -> Session]
    BY DEF RowInv, SessionsInv
  <2>2. /\ session' = [session EXCEPT ![p] = y]
        /\ committed' = committed \cup {BizKey(p)}
        /\ UNCHANGED <<broker, notifications>>
    BY <1>5, <2>1 DEF CountAndCommit
  <2>3. <<y.op, y.id>> \in committed'
    BY <2>1, <2>2 DEF BizKey, Session
  <2>4. \A q \in Sessions : session'[q].pc = "publish" => BizKey(q)' \in committed'
    BY <2>2, <2>3, SessionMessages
  <2> QED
    BY <2>2, <2>4 DEF MessageInv, NotifiedOfFacts, PublishedNotLost, broker
<1>6. ASSUME NEW p \in Sessions, Publish(p) PROVE MessageInv'
  <2>1. BizKey(p) \in BizKeys /\ BizKey(p) \in committed
    BY <1>6, KeyTyped DEF Publish, MessageInv
  <2>2. \A q \in Sessions : session'[q].pc = "publish" => BizKey(q)' \in committed'
    BY <1>6, SessionMessages DEF Publish, End, Idle
  <2> QED
    BY <1>6, <2>1, <2>2 DEF MessageInv, NotifiedOfFacts, PublishedNotLost, Publish
<1>7. ASSUME UNCHANGED <<session, committed>>
      PROVE  \A q \in Sessions : session'[q].pc = "publish" => BizKey(q)' \in committed'
  BY <1>7 DEF MessageInv, BizKey
<1>8. CASE Receive
  <2>1. PICK k \in queue : /\ delivery' = [key |-> k, handled |-> FALSE]
                           /\ queue' = queue \ {k}
    BY <1>8 DEF Receive
  <2>2. /\ delivery = None
        /\ UNCHANGED <<session, published, notifications, committed>>
    BY <1>8 DEF Receive
  <2>3. k \in BizKeys /\ k \in committed
    BY DEF MessageInv
  <2>4. delivery' \in [key : BizKeys, handled : BOOLEAN] /\ delivery'.key = k
        /\ ~delivery'.handled
    BY <2>1, <2>3
  <2>5. delivery' # None
    BY <2>4, NoneAssumption
  <2>6. PublishedNotLost'
    BY <2>1, <2>2, <2>4, <2>5 DEF MessageInv, PublishedNotLost
  <2> QED
    BY <1>7, <2>1, <2>2, <2>3, <2>4, <2>6 DEF MessageInv, NotifiedOfFacts
<1>9. CASE Handle
  <2>1. /\ delivery # None /\ notifications' = Stored(delivery.key)
        /\ delivery' = [delivery EXCEPT !.handled = TRUE]
        /\ UNCHANGED <<session, queue, published, committed>>
    BY <1>9 DEF Handle
  <2>2. /\ delivery \in [key : BizKeys, handled : BOOLEAN]
        /\ delivery.key \in BizKeys /\ delivery.key \in committed
    BY <2>1 DEF MessageInv
  <2>3. /\ delivery' \in [key : BizKeys, handled : BOOLEAN]
        /\ delivery'.key = delivery.key
    BY <2>1, <2>2
  <2>4. delivery' # None
    BY <2>3, NoneAssumption
  <2>5. /\ notifications' \subseteq [id : Nat, key : BizKeys, read : BOOLEAN]
        /\ IsFiniteSet(notifications')
        /\ notifications \subseteq notifications'
        /\ \E n \in notifications' : n.key = delivery.key
        /\ NotifiedOfFacts'
    BY <2>1, <2>2, StoredOnce DEF NotifiedOfFacts
  <2>6. PublishedNotLost'
    BY <2>1, <2>3, <2>4, <2>5 DEF MessageInv, PublishedNotLost
  <2> QED
    BY <1>7, <2>1, <2>2, <2>3, <2>5, <2>6 DEF MessageInv
<1>10. CASE Ack
  BY <1>7, <1>10 DEF Ack, MessageInv, NotifiedOfFacts, PublishedNotLost
<1>11. CASE Requeue
  BY <1>7, <1>11 DEF Requeue, MessageInv, NotifiedOfFacts, PublishedNotLost
<1>12. CASE MarkRead
  <2>1. PICK n \in notifications :
          notifications' = (notifications \ {n}) \cup {[n EXCEPT !.read = TRUE]}
    BY <1>12 DEF MarkRead
  <2> DEFINE m == [n EXCEPT !.read = TRUE]
  <2>2. UNCHANGED <<session, queue, delivery, published, committed>>
    BY <1>12 DEF MarkRead, broker
  <2>3. n \in [id : Nat, key : BizKeys, read : BOOLEAN]
    BY DEF MessageInv
  <2>4. m \in [id : Nat, key : BizKeys, read : BOOLEAN] /\ m.key = n.key
    BY <2>3
  <2>5. IsFiniteSet((notifications \ {n}) \cup {m})
    BY FS_AddElement, FS_RemoveElement DEF MessageInv
  <2> HIDE DEF m
  <2>6. notifications' = (notifications \ {n}) \cup {m}
    BY <2>1 DEF m
  <2>7. \A k : (\E a \in notifications : a.key = k)
               <=> (\E a \in notifications' : a.key = k)
    BY <2>4, <2>6
  <2>8. NotifiedOfFacts'
    BY <2>2, <2>4, <2>6 DEF MessageInv, NotifiedOfFacts
  <2>9. PublishedNotLost'
    BY <2>2, <2>7 DEF MessageInv, PublishedNotLost
  <2> QED
    BY <1>7, <2>2, <2>4, <2>5, <2>6, <2>7, <2>8, <2>9 DEF MessageInv
<1>13. CASE UNCHANGED vars
  BY <1>7, <1>13 DEF vars, broker, MessageInv, NotifiedOfFacts, PublishedNotLost
<1> QED
  BY <1>2, <1>3, <1>4, <1>5, <1>6, <1>8, <1>9, <1>10, <1>11, <1>12, <1>13 DEF Next
-----------------------------------------------------------------------------
(* The inductive invariant.                                                *)
THEOREM CommunityInvariant == Spec => []IInv
<1>1. IInv /\ [Next]_vars => IInv'
  BY StepRows, StepMessages DEF IInv
<1> QED
  BY InitCommunity, <1>1, PTL DEF Spec

(* The two unique indexes hold although rows are inserted and locked by    *)
(* many sessions at once (likeCourse, deleteOwnComment and the others).    *)
THEOREM CommunityTypes == Spec => []TypeOK
<1>1. IInv => TypeOK
  BY DEF IInv, RowInv, MessageInv, Tables, Counts, SessionsInv, TypeOK
<1> QED
  BY CommunityInvariant, <1>1, PTL

(* The counters of a course are the numbers of its likes and comments,     *)
(* however many students like, unlike, comment and delete at once.         *)
THEOREM CountersExact == Spec => []CountsMatchRows
<1>1. IInv => CountsMatchRows
  BY DEF IInv, RowInv, Counts
<1> QED
  BY CommunityInvariant, <1>1, PTL

(* Every notification is of something committed, and there is one of each, *)
(* however often the worker crashes and the message is delivered again.    *)
THEOREM NotificationsTrue == Spec => []NotifiedOfFacts
<1>1. IInv => NotifiedOfFacts
  BY DEF IInv, MessageInv
<1> QED
  BY CommunityInvariant, <1>1, PTL

(* A message RabbitMQ has taken becomes a notification or is still there:  *)
(* the worker acknowledges only what its handler has stored.               *)
THEOREM MessagesNotLost == Spec => []PublishedNotLost
<1>1. IInv => PublishedNotLost
  BY DEF IInv, MessageInv
<1> QED
  BY CommunityInvariant, <1>1, PTL

(* A redelivered message does not make what was read unread (the insert    *)
(* that ignores a duplicate biz_key, and MarkRead).                        *)
THEOREM ReadIsFinal == Spec => ReadStaysRead
<1>1. [Next]_vars =>
        [\A n \in notifications : n.read => n \in notifications']_vars
  <2> SUFFICES ASSUME Next, NEW n \in notifications, n.read
               PROVE  n \in notifications'
    BY DEF vars
  <2>1. CASE Handle
    BY <2>1 DEF Handle, Stored
  <2>2. CASE MarkRead
    BY <2>2 DEF MarkRead
  <2>3. CASE Receive \/ Ack \/ Requeue
    BY <2>3 DEF Receive, Ack, Requeue
  <2>4. ASSUME NEW p \in Sessions,
               \/ Begin(p) \/ BeginDelete(p) \/ InsertRow(p) \/ LockRow(p)
               \/ RowRefused(p) \/ CountAndCommit(p) \/ Abort(p)
               \/ Publish(p) \/ PublishFails(p)
        PROVE  n \in notifications'
    BY <2>4 DEF Begin, BeginDelete, InsertRow, LockRow, RowRefused, CountAndCommit,
                Abort, Publish, PublishFails
  <2> QED
    BY <2>1, <2>2, <2>3, <2>4 DEF Next
<1> QED
  BY <1>1, PTL DEF Spec, ReadStaysRead
=============================================================================
