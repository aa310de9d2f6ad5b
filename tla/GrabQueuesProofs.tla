-------------------------- MODULE GrabQueuesProofs --------------------------
(***************************************************************************)
(* Nothing queued is lost, and one course is served by one handler at a    *)
(* time as long as its messages were sent with one shard count: for all    *)
(* messages, shard counts, restarts and losses.                            *)
(*                                                                         *)
(* The invariant has, beside what the properties say, that the queue and   *)
(* the dead-letter queue of whatever is queued are declared, that a        *)
(* consumer has one message in hand at most, and where the start of the    *)
(* worker has got to.                                                      *)
(***************************************************************************)
EXTENDS GrabQueues, TLAPS

InHand(m) == place[m] \in {"held", "done"}

(* The worker's state and the messages in hand.                            *)
WorkerInv ==
  /\ worker \in Worker
  /\ worker.at # "down" =>
       /\ worker.count \in Counts
       /\ worker.next \in 1..ShardCount(worker.count) + 2
       /\ worker.at = "starting" => worker.next <= ShardCount(worker.count) + 1
  /\ \A m \in Messages : InHand(m) => route[m] \in Consumers
  /\ \A m1, m2 \in Messages :
       InHand(m1) /\ InHand(m2) /\ route[m1] = route[m2] => m1 = m2

MessageInv ==
  /\ place \in [Messages -> Places]
  /\ DOMAIN route = Messages /\ DOMAIN sent = Messages
  /\ \A m \in Messages :
       /\ place[m] = "unsent" <=> route[m] = None
       /\ sent[m] \in Counts \cup {None}
       /\ route[m] # None => sent[m] # None /\ route[m] = Route(sent[m], m)
  /\ handled \subseteq Messages

(* What leads to NothingLost.                                              *)
KeepsInv ==
  \A m \in Messages :
    /\ route[m] # None => {route[m], DeadQueue(route[m])} \subseteq bound
    /\ place[m] # "dropped"
    /\ place[m] \in {"done", "acked"} => m \in handled /\ m \notin Unparsable
    /\ place[m] = "dead" => m \in Unparsable

IInv ==
  /\ MessageInv
  /\ WorkerInv
  /\ KeepsInv
  /\ server \in Counts \cup {None}
  /\ disturbances \in 0..MaxDisturbances
-----------------------------------------------------------------------------
LEMMA ShardCountPositive ==
  ASSUME NEW n \in Counts
  PROVE  ShardCount(n) \in Nat \ {0}
BY CountsAssumption DEF ShardCount

(* What a worker consumes: as many queues as it has shards, and one.       *)
LEMMA ConsumedSequence ==
  ASSUME NEW n \in Counts
  PROVE  /\ Len(Consumed[n]) = ShardCount(n) + 1
         /\ DOMAIN Consumed[n] = 1..ShardCount(n) + 1
<1>1. ShardCount(n) \in Nat BY ShardCountPositive
<1> DEFINE T == {GrabQueue(n, i - 1) : i \in 1..ShardCount(n)} \cup {NotificationQueue}
<1>2. Shards(n) \in [1..ShardCount(n) -> T] BY DEF Shards
<1>3. Shards(n) \in Seq(T) /\ Len(Shards(n)) = ShardCount(n)
  <2> HIDE DEF T
  <2> QED BY <1>1, <1>2, SMTT(30)
<1>4. NotificationQueue \in T OBVIOUS
<1>5. Consumed[n] = Append(Shards(n), NotificationQueue) BY DEF Consumed
<1> HIDE DEF T
<1> QED BY <1>1, <1>3, <1>4, <1>5

(* Consumers are among the queues; one more makes them no fewer.           *)
LEMMA ConsumersAreQueues ==
  ASSUME WorkerInv
  PROVE  Consumers \subseteq Queues
<1>1. CASE worker.at = "down" BY <1>1 DEF Consumers
<1>2. CASE worker.at # "down"
  <2> DEFINE n == worker.count
  <2>1. n \in Counts /\ worker.next \in 1..ShardCount(n) + 2 BY <1>2 DEF WorkerInv
  <2>2. ShardCount(n) \in Nat BY <2>1, ShardCountPositive
  <2>3. Len(Consumed[n]) = ShardCount(n) + 1 BY <2>1, ConsumedSequence
  <2>4. 1..worker.next - 1 \subseteq 1..Len(Consumed[n]) BY <2>1, <2>2, <2>3
  <2>5. First(worker.next - 1, Consumed[n]) \subseteq All(Consumed[n])
    BY <2>4 DEF First, All
  <2> QED BY <1>2, <2>1, <2>5 DEF Consumers, Queues
<1> QED BY <1>1, <1>2
-----------------------------------------------------------------------------
LEMMA InitEstablishes == Init => IInv
BY BoundAssumption
DEF Init, IInv, MessageInv, WorkerInv, KeepsInv, InHand, Down, Worker, Places

(* A declaration adds queues and takes none away.                          *)
LEMMA KeepsWithMoreBound ==
  ASSUME IInv, bound \subseteq bound', UNCHANGED messageVars
  PROVE  KeepsInv' /\ MessageInv'
BY DEF IInv, MessageInv, KeepsInv, messageVars

(* What stays in hand where no message moves and no consumer is lost.      *)
LEMMA HandsUnmoved ==
  ASSUME IInv, Consumers \subseteq Consumers', UNCHANGED messageVars
  PROVE  /\ \A m \in Messages : InHand(m)' => route'[m] \in Consumers'
         /\ \A m1, m2 \in Messages :
              InHand(m1)' /\ InHand(m2)' /\ route'[m1] = route'[m2] => m1 = m2
BY DEF IInv, WorkerInv, InHand, messageVars

(* After the channels of Q are gone nothing is in hand for them.           *)
LEMMA Requeued ==
  ASSUME IInv, NEW Q, Requeue(Q), Consumers \ Q \subseteq Consumers',
         bound' = bound
  PROVE  /\ MessageInv' /\ KeepsInv'
         /\ \A m \in Messages : InHand(m)' => route'[m] \in Consumers'
         /\ \A m1, m2 \in Messages :
              InHand(m1)' /\ InHand(m2)' /\ route'[m1] = route'[m2] => m1 = m2
<1>1. \A m \in Messages :
        \/ place'[m] = place[m] /\ (InHand(m) => route[m] \notin Q)
        \/ place'[m] = "queued" /\ InHand(m)
  BY DEF Requeue, Holds, InHand, IInv, MessageInv
<1>2. place' \in [Messages -> Places] BY DEF Requeue, IInv, MessageInv, Places
<1>3. UNCHANGED <<route, sent, handled>> BY DEF Requeue
<1>4. MessageInv' BY <1>1, <1>2, <1>3 DEF IInv, MessageInv, InHand
<1>5. KeepsInv' BY <1>1, <1>3 DEF IInv, KeepsInv, InHand
<1>6. \A m \in Messages : InHand(m)' => InHand(m) /\ route[m] \in Consumers \ Q
  BY <1>1 DEF IInv, WorkerInv, InHand
<1> QED BY <1>3, <1>4, <1>5, <1>6 DEF IInv, WorkerInv

(* Handlers, acknowledgements: one message moves, its queue does not.      *)
LEMMA Moved ==
  ASSUME IInv, NEW m \in Messages, NEW from, NEW to \in Places \ {"unsent"},
         from # "unsent", Move(m, from, to),
         handled' \subseteq Messages
  PROVE  /\ MessageInv'
         /\ \A x \in Messages \ {m} : place'[x] = place[x]
         /\ place[m] = from /\ place'[m] = to
         /\ Consumers' = Consumers
<1>1. /\ place[m] = from
      /\ place' = [place EXCEPT ![m] = to]
      /\ UNCHANGED <<bound, route, sent, server, worker>>
  BY DEF Move
<1>2. MessageInv' BY <1>1 DEF IInv, MessageInv
<1> QED BY <1>1, <1>2 DEF IInv, MessageInv, Consumers
-----------------------------------------------------------------------------
(* The steps of the processes: messages stay, or go back to their queues.  *)
LEMMA ServerSteps ==
  ASSUME IInv,
         \/ \E n \in Counts : StartServer(n) \/ InitFails(n)
         \/ StopServer
  PROVE  IInv'
<1>1. /\ UNCHANGED <<messageVars, worker>>
      /\ bound \subseteq bound'
      /\ server' \in Counts \cup {None}
      /\ disturbances' \in 0..MaxDisturbances
  BY BoundAssumption DEF IInv, StartServer, InitFails, StopServer, Disturb
<1>2. Consumers' = Consumers BY <1>1 DEF Consumers
<1>3. MessageInv' /\ KeepsInv' BY <1>1, KeepsWithMoreBound
<1>4. WorkerInv'
  <2>1. Consumers \subseteq Consumers' BY <1>2
  <2>2. UNCHANGED messageVars BY <1>1
  <2> QED BY <1>1, <2>1, <2>2, HandsUnmoved DEF IInv, WorkerInv
<1> QED BY <1>1, <1>3, <1>4 DEF IInv

LEMMA StartWorkerStep ==
  ASSUME IInv, NEW n \in Counts, StartWorker(n)
  PROVE  IInv'
<1>1. /\ UNCHANGED messageVars /\ UNCHANGED <<server, disturbances>>
      /\ bound \subseteq bound'
      /\ worker' = [at |-> "starting", count |-> n, next |-> 1, lost |-> {}]
      /\ Consumers = {}
  BY DEF StartWorker, Consumers
<1>2. MessageInv' /\ KeepsInv' BY <1>1, KeepsWithMoreBound
<1>3. Consumers \subseteq Consumers' BY <1>1
<1>4. ShardCount(n) \in Nat \ {0} BY ShardCountPositive
<1>5. WorkerInv'
  BY <1>1, <1>3, <1>4, HandsUnmoved DEF WorkerInv, Worker
<1> QED BY <1>1, <1>2, <1>5 DEF IInv

LEMMA StartConsumerStep ==
  ASSUME IInv, StartConsumer
  PROVE  IInv'
<1> DEFINE n == worker.count
<1>1. /\ worker.at = "starting" /\ worker \in Worker
      /\ n \in Counts /\ worker.next \in 1..ShardCount(n) + 1
  BY DEF StartConsumer, IInv, WorkerInv
<1>2. /\ UNCHANGED messageVars /\ UNCHANGED <<server, disturbances>>
      /\ bound \subseteq bound'
      /\ worker' = [worker EXCEPT
                      !.at = IF worker.next > ShardCount(n) THEN "running" ELSE @,
                      !.next = @ + 1]
  BY DEF StartConsumer
<1>3. ShardCount(n) \in Nat \ {0} BY <1>1, ShardCountPositive
<1>4. /\ worker'.count = n /\ worker'.next = worker.next + 1
      /\ worker'.lost = worker.lost
      /\ worker'.at = IF worker.next > ShardCount(n) THEN "running" ELSE "starting"
  BY <1>1, <1>2 DEF Worker
<1>5. worker' \in Worker
  <2>1. worker.next + 1 \in Nat BY <1>1 DEF Worker
  <2>2. \A new \in {"starting", "running"}, k \in Nat :
          [[worker EXCEPT !.at = new] EXCEPT !.next = k] \in Worker
    <3>1. \A new \in {"starting", "running"} : [worker EXCEPT !.at = new] \in Worker
      BY <1>1 DEF Worker
    <3>2. \A w \in Worker, k \in Nat : [w EXCEPT !.next = k] \in Worker
      BY DEF Worker
    <3> QED BY <3>1, <3>2
  <2>3. (IF worker.next > ShardCount(n) THEN "running" ELSE worker.at)
           \in {"starting", "running"}
    BY <1>1
  <2> QED BY <1>2, <2>1, <2>2, <2>3
<1>6. Consumers \subseteq Consumers'
  BY <1>1, <1>4 DEF Consumers, First
<1>7. MessageInv' /\ KeepsInv' BY <1>2, KeepsWithMoreBound
<1>8. WorkerInv'
  BY <1>1, <1>2, <1>3, <1>4, <1>5, <1>6, HandsUnmoved DEF WorkerInv
<1> QED BY <1>2, <1>7, <1>8 DEF IInv

LEMMA StopWorkerStep ==
  ASSUME IInv, StopWorker
  PROVE  IInv'
<1>1. /\ worker' = Down /\ Requeue(Consumers) /\ bound' = bound
      /\ server' = server /\ disturbances' \in 0..MaxDisturbances
  BY BoundAssumption DEF StopWorker, Disturb, IInv
<1>2. Consumers \ Consumers \subseteq Consumers' OBVIOUS
<1>3. /\ MessageInv' /\ KeepsInv'
      /\ \A m \in Messages : InHand(m)' => route'[m] \in Consumers'
      /\ \A m1, m2 \in Messages :
           InHand(m1)' /\ InHand(m2)' /\ route'[m1] = route'[m2] => m1 = m2
  BY <1>1, <1>2, Requeued
<1>4. WorkerInv' BY <1>1, <1>3 DEF WorkerInv, Worker, Down
<1> QED BY <1>1, <1>3, <1>4 DEF IInv

LEMMA LoseChannelsStep ==
  ASSUME IInv, NEW Q, Q \subseteq Consumers, LoseChannels(Q)
  PROVE  IInv'
<1>1. /\ worker.at = "running" /\ worker \in Worker
      /\ worker' = [worker EXCEPT !.lost = @ \cup Q]
      /\ Requeue(Q) /\ bound' = bound
      /\ server' = server /\ disturbances' \in 0..MaxDisturbances
  BY BoundAssumption DEF LoseChannels, Disturb, IInv, WorkerInv
<1>2. /\ worker'.at = "running" /\ worker'.count = worker.count
      /\ worker'.next = worker.next /\ worker'.lost = worker.lost \cup Q
  BY <1>1 DEF Worker
<1>3. Consumers \ Q \subseteq Consumers' BY <1>1, <1>2 DEF Consumers
<1>4. /\ MessageInv' /\ KeepsInv'
      /\ \A m \in Messages : InHand(m)' => route'[m] \in Consumers'
      /\ \A m1, m2 \in Messages :
           InHand(m1)' /\ InHand(m2)' /\ route'[m1] = route'[m2] => m1 = m2
  BY <1>1, <1>3, Requeued
<1>5. Q \subseteq Queues BY ConsumersAreQueues DEF IInv
<1>6. worker' \in Worker BY <1>1, <1>2, <1>5 DEF Worker
<1>7. WorkerInv' BY <1>1, <1>2, <1>4, <1>6 DEF WorkerInv, IInv
<1> QED BY <1>1, <1>4, <1>7 DEF IInv
-----------------------------------------------------------------------------
(* The steps of a message.                                                 *)
LEMMA PublishStep ==
  ASSUME IInv, NEW m \in Messages, Publish(m)
  PROVE  IInv'
<1> DEFINE q == Route(server, m)
<1>1. /\ server \in Counts /\ place[m] = "unsent"
      /\ bound' = bound \cup {q, DeadQueue(q)}
      /\ route' = [route EXCEPT ![m] = q]
      /\ sent' = [sent EXCEPT ![m] = server]
      /\ UNCHANGED <<handled, server, worker, disturbances>>
  BY DEF Publish, IInv
<1>2. place' = [place EXCEPT ![m] = "queued"]
  BY <1>1 DEF Publish
<1>3. q # None BY <1>1, NoneAssumption
<1>4. server # None BY <1>1, CountsAssumption
<1> HIDE DEF q
<1>5. MessageInv'
  <2>1. place' \in [Messages -> Places] BY <1>2 DEF IInv, MessageInv, Places
  <2>2. DOMAIN route' = Messages /\ DOMAIN sent' = Messages
    BY <1>1 DEF IInv, MessageInv
  <2>3. ASSUME NEW x \in Messages
        PROVE  /\ place'[x] = "unsent" <=> route'[x] = None
               /\ sent'[x] \in Counts \cup {None}
               /\ route'[x] # None => sent'[x] # None /\ route'[x] = Route(sent'[x], x)
    <3>1. CASE x = m
      BY <1>1, <1>2, <1>3, <1>4, <3>1 DEF IInv, MessageInv, q
    <3>2. CASE x # m BY <1>1, <1>2, <3>2 DEF IInv, MessageInv
    <3> QED BY <3>1, <3>2
  <2> QED BY <1>1, <2>1, <2>2, <2>3 DEF MessageInv, IInv
<1>6. KeepsInv' BY <1>1, <1>2 DEF IInv, KeepsInv, MessageInv
<1>7. Consumers' = Consumers BY <1>1 DEF Consumers
<1>8. \A x \in Messages : InHand(x)' => x # m /\ InHand(x) /\ route'[x] = route[x]
  BY <1>1, <1>2 DEF InHand, IInv, MessageInv
<1>9. WorkerInv' BY <1>1, <1>7, <1>8 DEF WorkerInv, IInv
<1> QED BY <1>1, <1>5, <1>6, <1>9 DEF IInv

LEMMA TakeStep ==
  ASSUME IInv, NEW m \in Messages, Take(m)
  PROVE  IInv'
<1>1. /\ Move(m, "queued", "held") /\ handled' = handled
      /\ disturbances' = disturbances
      /\ route[m] \in Consumers /\ Holds(route[m]) = {}
      /\ UNCHANGED <<bound, route, sent, server, worker>>
  BY DEF Take, Move
<1>2. /\ MessageInv'
      /\ \A x \in Messages \ {m} : place'[x] = place[x]
      /\ place[m] = "queued" /\ place'[m] = "held"
      /\ Consumers' = Consumers
  <2>1. handled' \subseteq Messages BY <1>1 DEF IInv, MessageInv
  <2> QED BY <1>1, <2>1, Moved DEF Places
<1>3. KeepsInv' BY <1>1, <1>2 DEF IInv, KeepsInv
<1>4. \A x \in Messages : InHand(x) => route[x] # route[m]
  BY <1>1 DEF Holds, InHand
<1>5. WorkerInv' BY <1>1, <1>2, <1>4 DEF WorkerInv, IInv, InHand
<1> QED BY <1>1, <1>2, <1>3, <1>5 DEF IInv

LEMMA HandlerSteps ==
  ASSUME IInv, NEW m \in Messages,
         Succeed(m) \/ Ack(m) \/ Retry(m) \/ DeadLetter(m)
  PROVE  IInv'
<1>1. /\ UNCHANGED <<bound, route, sent, server, worker>>
      /\ handled \subseteq handled' /\ handled' \subseteq Messages
      /\ disturbances' \in 0..MaxDisturbances
  BY BoundAssumption
  DEF Succeed, Ack, Retry, DeadLetter, Move, Disturb, IInv, MessageInv
<1>2. InHand(m) BY DEF Succeed, Ack, Retry, DeadLetter, Move, InHand
<1>3. PICK to \in {"done", "acked", "queued", "dead"} :
        /\ \E from \in {"held", "done"} : Move(m, from, to)
        /\ to \in {"done", "acked"} => m \in handled' /\ m \notin Unparsable
        /\ to = "dead" => m \in Unparsable
  <2>1. CASE Succeed(m) BY <2>1 DEF Succeed
  <2>2. CASE Ack(m)
    <3>1. place[m] = "done" /\ Move(m, "done", "acked") BY <2>2 DEF Ack, Move
    <3>2. m \in handled /\ m \notin Unparsable BY <3>1 DEF IInv, KeepsInv
    <3> QED BY <1>1, <3>1, <3>2
  <2>3. CASE Retry(m) BY <2>3 DEF Retry
  <2>4. CASE DeadLetter(m)
    <3>1. route[m] # None BY <1>2 DEF IInv, MessageInv, InHand
    <3>2. DeadQueue(route[m]) \in bound BY <3>1 DEF IInv, KeepsInv
    <3> QED BY <2>4, <3>2 DEF DeadLetter
  <2> QED BY <2>1, <2>2, <2>3, <2>4
<1>4. /\ MessageInv'
      /\ \A x \in Messages \ {m} : place'[x] = place[x]
      /\ place'[m] = to
      /\ Consumers' = Consumers
  BY <1>1, <1>3, Moved DEF Places
<1>5. KeepsInv' BY <1>1, <1>3, <1>4 DEF IInv, KeepsInv
<1>6. \A x \in Messages : InHand(x)' => InHand(x) BY <1>2, <1>4 DEF InHand
<1>7. WorkerInv' BY <1>1, <1>4, <1>6 DEF WorkerInv, IInv
<1> QED BY <1>1, <1>4, <1>5, <1>7 DEF IInv
-----------------------------------------------------------------------------
LEMMA NextPreserves == IInv /\ [Next]_vars => IInv'
<1> SUFFICES ASSUME IInv, [Next]_vars PROVE IInv'
  OBVIOUS
<1>1. CASE \/ \E n \in Counts : StartServer(n) \/ InitFails(n)
           \/ StopServer
  BY <1>1, ServerSteps
<1>2. CASE \E n \in Counts : StartWorker(n) BY <1>2, StartWorkerStep
<1>3. CASE StartConsumer BY <1>3, StartConsumerStep
<1>4. CASE StopWorker BY <1>4, StopWorkerStep
<1>5. CASE \E Q \in SUBSET Consumers : LoseChannels(Q)
  BY <1>5, LoseChannelsStep
<1>6. CASE \E m \in Messages : Publish(m) BY <1>6, PublishStep
<1>7. CASE \E m \in Messages : Take(m) BY <1>7, TakeStep
<1>8. CASE \E m \in Messages : Succeed(m) \/ Ack(m) \/ Retry(m) \/ DeadLetter(m)
  BY <1>8, HandlerSteps
<1>9. CASE UNCHANGED vars
  BY <1>9 DEF vars, messageVars, IInv, MessageInv, WorkerInv, KeepsInv, InHand,
              Consumers
<1>10. (\E q \in Consumers : LoseChannels({q})) \/ LoseChannels(Consumers)
         => \E Q \in SUBSET Consumers : LoseChannels(Q)
  OBVIOUS
<1> QED BY <1>1, <1>2, <1>3, <1>4, <1>5, <1>6, <1>7, <1>8, <1>9, <1>10
        DEF Next, Serve
-----------------------------------------------------------------------------
(* Where each message is and what the processes are at.                    *)
THEOREM TypeCorrect == Spec => []TypeOK
<1>1. IInv => TypeOK
  BY DEF IInv, MessageInv, WorkerInv, InHand, TypeOK
<1> QED BY <1>1, InitEstablishes, NextPreserves, PTL DEF Spec

(* What the broker has taken is in a queue or in hand until it is handled, *)
(* or with the dead letters.                                               *)
THEOREM KeepsMessages == Spec => []NothingLost
<1>1. IInv => NothingLost
  BY DEF IInv, MessageInv, KeepsInv, NothingLost, Places
<1> QED BY <1>1, InitEstablishes, NextPreserves, PTL DEF Spec

(* Two handlers work on one course only after a change of the shard count. *)
THEOREM ServesCourseSerially == Spec => []SerialPerCourse
<1>1. IInv => SerialPerCourse
  <2> SUFFICES ASSUME IInv, NEW m1 \in Grabs \ Unparsable, NEW m2 \in Grabs \ Unparsable,
                      InHand(m1), InHand(m2), Course[m1] = Course[m2],
                      sent[m1] = sent[m2]
               PROVE  m1 = m2
    BY DEF SerialPerCourse, InHand
  <2>1. m1 \in Messages /\ m2 \in Messages BY MessagesAssumption
  <2>2. route[m1] # None /\ route[m2] # None
    BY <2>1 DEF IInv, MessageInv, InHand
  <2>3. route[m1] = route[m2] BY <2>1, <2>2 DEF IInv, MessageInv, Route
  <2> QED BY <2>1, <2>3 DEF IInv, WorkerInv
<1> QED BY <1>1, InitEstablishes, NextPreserves, PTL DEF Spec
=============================================================================
