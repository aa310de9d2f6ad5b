----------------------------- MODULE GrabQueues -----------------------------
(***************************************************************************)
(* The queues between the server and the worker.                           *)
(*                                                                         *)
(* A grab goes to the shard of its course, a notification to the one queue *)
(* of notifications.  Server and worker declare the exchanges, queues and  *)
(* bindings they use, each by the shard count of its own configuration:    *)
(* when it starts, before each message and before each consumer.  A        *)
(* restart may change the count; what is queued stays where it is.  The    *)
(* worker consumes each queue of its count by one goroutine, acknowledges  *)
(* by hand, and never opens a channel or a connection a second time.       *)
(*                                                                         *)
(* The order within a queue, which a requeue upsets, is left out.          *)
(***************************************************************************)
EXTENDS Integers, Sequences

CONSTANTS
  Messages,
  Grabs,        \* those that ask for a course; the others are notifications
  Course,       \* [Grabs -> the id of the course]
  Unparsable,   \* those of a version whose bodies this worker cannot read
  Counts,       \* what selection_shard_count may be, also zero or less
  MaxDisturbances, \* bound: restarts, lost channels and failures together
  None

ASSUME MessagesAssumption ==
  /\ Grabs \subseteq Messages /\ Unparsable \subseteq Messages
  /\ Course \in [Grabs -> Nat]
ASSUME CountsAssumption == Counts \subseteq Int /\ None \notin Counts
ASSUME BoundAssumption == MaxDisturbances \in Nat

VARIABLES
  bound,   \* broker: the queues that are declared and bound
  place,   \* [Messages -> where it is]
  route,   \* [Messages -> the queue it was put into, or None]
  sent,    \* history: [Messages -> the shard count of the sender, or None]
  handled, \* history: the messages whose handler has returned without error
  server,  \* the count the server runs with, None if it is not connected
  worker,  \* the worker process: see Worker
  disturbances

messageVars == <<place, route, sent, handled>>
vars == <<bound, messageVars, server, worker, disturbances>>

Places == {"unsent", "queued", "held", "done", "acked", "dead", "dropped"}

(* selectionGrabShardCount and what is named by it.  A queue is named by   *)
(* its kind and shard, -1 for the bare name, -2 for the dead letters.      *)
ShardCount(n) == IF n <= 0 THEN 1 ELSE n
GrabQueue(n, shard) == <<"grab", IF ShardCount(n) = 1 THEN -1 ELSE shard>>
NotificationQueue == <<"notification", -1>>
DeadQueue(q) == <<q[1], -2>>

Route(n, m) ==
  IF m \in Grabs THEN GrabQueue(n, Course[m] % ShardCount(n))
                 ELSE NotificationQueue

ASSUME NoneAssumption == \A n \in Counts, m \in Messages : None # Route(n, m)

Shards(n) == [i \in 1..ShardCount(n) |-> GrabQueue(n, i - 1)]

(* What Init declares, in its order; and the queues the worker consumes.   *)
Topology ==
  [n \in Counts |->
     <<DeadQueue(<<"grab", -1>>)>> \o Shards(n)
       \o <<NotificationQueue, DeadQueue(NotificationQueue)>>]
Consumed == [n \in Counts |-> Append(Shards(n), NotificationQueue)]

First(k, s) == {s[i] : i \in 1..k}
All(s) == First(Len(s), s)
Queues == UNION {All(Consumed[n]) : n \in Counts}

Worker == [at : {"down", "starting", "running"}, count : Counts \cup {None},
           next : Nat,    \* the consumer that is started next
           lost : SUBSET Queues]    \* channels closed

Down == [at |-> "down", count |-> None, next |-> 0, lost |-> {}]
Consumers == IF worker.at = "down" THEN {}
             ELSE First(worker.next - 1, Consumed[worker.count]) \ worker.lost
Holds(q) == {m \in Messages : place[m] \in {"held", "done"} /\ route[m] = q}

Init ==
  /\ bound = {}
  /\ place = [m \in Messages |-> "unsent"]
  /\ route = [m \in Messages |-> None]
  /\ sent = [m \in Messages |-> None]
  /\ handled = {}
  /\ server = None
  /\ worker = Down
  /\ disturbances = 0

Disturb ==
  disturbances < MaxDisturbances /\ disturbances' = disturbances + 1

FaultyRequeue(Q) ==  \* consumed with automatic acknowledgement
  UNCHANGED messageVars

(* The broker puts back what the closed channels had not acknowledged.     *)
Requeue(Q) ==
  /\ place' = [m \in Messages |->
                 IF \E q \in Q : m \in Holds(q) THEN "queued" ELSE place[m]]
  /\ UNCHANGED <<route, sent, handled>>
-----------------------------------------------------------------------------
(* mq.Init of the server.  If a declaration fails the process ends.        *)
StartServer(n) ==
  /\ server = None
  /\ server' = n
  /\ bound' = bound \cup All(Topology[n])
  /\ UNCHANGED <<messageVars, worker, disturbances>>

InitFails(n) ==
  /\ server = None \/ worker.at = "down"
  /\ Disturb
  /\ \E k \in 0..Len(Topology[n]) - 1 :
       bound' = bound \cup First(k, Topology[n])
  /\ UNCHANGED <<messageVars, server, worker>>

(* It stops, dies or loses the connection, which it does not open again.   *)
StopServer ==
  /\ server # None
  /\ Disturb
  /\ server' = None
  /\ UNCHANGED <<bound, messageVars, worker>>

(* PublishSelectionGrab, PublishNotification: declare, then publish.  One  *)
(* that fails leaves the message unsent; AsyncSelection has what follows.  *)
Publish(m) ==
  /\ server # None
  /\ place[m] = "unsent"
  /\ LET q == Route(server, m) IN
       /\ bound' = bound \cup {q, DeadQueue(q)}
       /\ place' = [place EXCEPT ![m] = IF q \in bound' THEN "queued" ELSE "dropped"]
       /\ route' = [route EXCEPT ![m] = q]
  /\ sent' = [sent EXCEPT ![m] = server]
  /\ UNCHANGED <<handled, server, worker, disturbances>>
-----------------------------------------------------------------------------
(* mq.Init of the worker; then a consumer for each shard, one by one, and  *)
(* one for the notifications.  An error on the way ends the process.       *)
StartWorker(n) ==
  /\ worker.at = "down"
  /\ worker' = [at |-> "starting", count |-> n, next |-> 1, lost |-> {}]
  /\ bound' = bound \cup All(Topology[n])
  /\ UNCHANGED <<messageVars, server, disturbances>>

FaultyStartConsumer ==  \* is done one consumer too early
  /\ worker.at = "starting"
  /\ LET q == Consumed[worker.count][worker.next] IN
       bound' = bound \cup {q, DeadQueue(q)}
  /\ worker' = [worker EXCEPT
                  !.at = IF worker.next >= ShardCount(worker.count) THEN "running" ELSE @,
                  !.next = @ + 1]
  /\ UNCHANGED <<messageVars, server, disturbances>>

StartConsumer ==
  /\ worker.at = "starting"
  /\ LET q == Consumed[worker.count][worker.next] IN
       bound' = bound \cup {q, DeadQueue(q)}
  /\ worker' = [worker EXCEPT
                  !.at = IF worker.next > ShardCount(worker.count) THEN "running" ELSE @,
                  !.next = @ + 1]
  /\ UNCHANGED <<messageVars, server, disturbances>>

(* It is stopped, dies, or a consumer cannot be started.  The goroutines   *)
(* are not waited for: the process ends with main.                         *)
StopWorker ==
  /\ worker.at # "down"
  /\ Disturb
  /\ worker' = Down
  /\ Requeue(Consumers)
  /\ UNCHANGED <<bound, server>>

(* The broker closes a channel, or all when the connection is lost: the    *)
(* goroutine returns, the process goes on.  (A handler that still runs     *)
(* then has nobody left to acknowledge to, and is gone with the process    *)
(* before another one consumes.)                                           *)
LoseChannels(Q) ==
  /\ worker.at = "running"
  /\ Q # {}
  /\ Disturb
  /\ worker' = [worker EXCEPT !.lost = @ \cup Q]
  /\ Requeue(Q)
  /\ UNCHANGED <<bound, server>>
-----------------------------------------------------------------------------
Move(m, from, to) ==
  /\ place[m] = from
  /\ place' = [place EXCEPT ![m] = to]
  /\ UNCHANGED <<bound, route, sent, server, worker>>

FaultyTake(m) ==  \* acknowledged when delivered
  /\ route[m] \in Consumers
  /\ Holds(route[m]) = {}
  /\ Move(m, "queued", "acked")
  /\ UNCHANGED <<handled, disturbances>>

ConcurrentTake(m) ==  \* a goroutine for each delivery
  /\ route[m] \in Consumers
  /\ Move(m, "queued", "held")
  /\ UNCHANGED <<handled, disturbances>>

(* The next delivery of the goroutine, which works on one at a time.       *)
Take(m) ==
  /\ route[m] \in Consumers
  /\ Holds(route[m]) = {}
  /\ Move(m, "queued", "held")
  /\ UNCHANGED <<handled, disturbances>>

Succeed(m) ==
  /\ m \notin Unparsable
  /\ Move(m, "held", "done")
  /\ handled' = handled \cup {m}
  /\ UNCHANGED disturbances

Ack(m) == Move(m, "done", "acked") /\ UNCHANGED <<handled, disturbances>>

(* Nack with requeue: an error of the handler.                             *)
Retry(m) ==
  /\ m \notin Unparsable
  /\ Disturb
  /\ Move(m, "held", "queued")
  /\ UNCHANGED handled

(* Nack without: the broker passes it on to the dead-letter exchange.      *)
DeadLetter(m) ==
  /\ m \in Unparsable
  /\ Move(m, "held", IF DeadQueue(route[m]) \in bound THEN "dead" ELSE "dropped")
  /\ UNCHANGED <<handled, disturbances>>
-----------------------------------------------------------------------------
Serve(q) ==
  \E m \in Messages :
    /\ route[m] = q
    /\ Take(m) \/ Succeed(m) \/ Ack(m) \/ DeadLetter(m)

Next ==
  \/ \E n \in Counts : StartServer(n) \/ StartWorker(n) \/ InitFails(n)
  \/ StopServer \/ StopWorker
  \/ \E m \in Messages : Publish(m) \/ Retry(m)
  \/ StartConsumer
  \/ \E q \in Consumers : LoseChannels({q})
  \/ LoseChannels(Consumers)
  \/ \E q \in Queues : Serve(q)

Spec == Init /\ [][Next]_vars

(* A start that has begun goes on, and so do the goroutines.  Nobody need  *)
(* start a process: the containers have no restart policy.                 *)
FairSpec ==
  /\ Spec
  /\ WF_vars(StartConsumer)
  /\ \A q \in Queues : WF_vars(Serve(q))
-----------------------------------------------------------------------------
(* In particular, the messages in hand are those of the consumers there    *)
(* are, and each lies in the queue of the shard count it was sent with.    *)
TypeOK ==
  /\ place \in [Messages -> Places]
  /\ \A m \in Messages :
       /\ place[m] = "unsent" <=> route[m] = None
       /\ sent[m] \in Counts \cup {None}
       /\ route[m] # None => sent[m] # None /\ route[m] = Route(sent[m], m)
       /\ place[m] \in {"held", "done"} =>
            route[m] \in Consumers
  /\ handled \subseteq Messages
  /\ server \in Counts \cup {None}
  /\ worker \in Worker
  /\ disturbances \in 0..MaxDisturbances

(* What the broker has taken is not lost: it is in a queue or in hand      *)
(* until the handler has succeeded, or with the dead letters if it cannot  *)
(* be read, whatever was declared by whom, in which order, by which count, *)
(* and at whatever step a process or a channel was lost.                   *)
NothingLost ==
  \A m \in Messages :
    /\ place[m] # "dropped"
    /\ place[m] = "acked" => m \in handled
    /\ place[m] = "dead" <=> m \in Unparsable /\ place[m] \notin {"unsent", "queued", "held"}

(* README, consumer.go: "within one course consumption is serial".  Two    *)
(* handlers work on one course at once only if the messages were sent with *)
(* different shard counts, as happens when it is changed while grabs are   *)
(* queued: then "the same course always enters the same shard" is over.    *)
SerialPerCourse ==
  \A m1, m2 \in Grabs \ Unparsable :
    /\ m1 # m2
    /\ place[m1] \in {"held", "done"} /\ place[m2] \in {"held", "done"}
    /\ Course[m1] = Course[m2]
    => sent[m1] # sent[m2]

Covered(m) ==
  /\ worker.at = "running"
  /\ route[m] \in All(Consumed[worker.count]) \ worker.lost

(* In the end nothing waits for a goroutine that is there: what is still   *)
(* queued when restarts, losses and failures are over is so because the    *)
(* worker is down, has lost the channel, or has a shard count to which the *)
(* queue does not belong.  Nothing but a restart helps, which nobody owes. *)
QueuedIsServed ==
  <>[](\A m \in Messages :
         place[m] \in {"queued", "held", "done"} => ~Covered(m))
=============================================================================
