------------------------------- MODULE Broker -------------------------------
(***************************************************************************)
(* RabbitMQ as internal/queue/rabbitmq.go sets it up: a durable fanout     *)
(* exchange into one durable queue per job type, manual acknowledgement,   *)
(* prefetch 1, and a dead-letter queue for messages rejected without       *)
(* requeue. A message is the event {video_id, storage_key}; the key is a   *)
(* function of the id, so a message is its video. A queue is a bag: with   *)
(* several consumers and requeues RabbitMQ promises no order, and no       *)
(* property here depends on one.                                           *)
(***************************************************************************)
EXTENDS VodTypes

CONSTANTS
    Workers,      \* worker processes, one consumer each
    WorkerType    \* the job type (hence the queue) each worker consumes

ASSUME WorkerTypeAssumption == WorkerType \in [Workers -> JobTypes]

VARIABLES
    ready,     \* ready[t][v]: copies of v's event waiting in t's queue
    unacked,   \* unacked[w]: the delivery outstanding on w's channel
    dlq        \* dlq[t][v]: copies of v's event dead-lettered from t's queue

brokerVars == <<ready, unacked, dlq>>

BrokerTypeOK ==
    /\ ready \in [JobTypes -> [Videos -> Nat]]
    /\ unacked \in [Workers -> Videos \cup {NoVideo}]
    /\ dlq \in [JobTypes -> [Videos -> Nat]]

BrokerInit ==
    /\ ready = [t \in JobTypes |-> [v \in Videos |-> 0]]
    /\ unacked = [w \in Workers |-> NoVideo]
    /\ dlq = [t \in JobTypes |-> [v \in Videos |-> 0]]

\* Fanout: one copy into every worker queue.
Publish(v) ==
    /\ ready' = [t \in JobTypes |-> [ready[t] EXCEPT ![v] = @ + 1]]
    /\ UNCHANGED <<unacked, dlq>>

\* Qos(1, 0, false): nothing is delivered while one delivery is outstanding.
Deliver(w, v) ==
    /\ unacked[w] = NoVideo
    /\ ready[WorkerType[w]][v] > 0
    /\ ready' = [ready EXCEPT ![WorkerType[w]][v] = @ - 1]
    /\ unacked' = [unacked EXCEPT ![w] = v]
    /\ UNCHANGED dlq

\* d.Ack(false). Acknowledging on a channel that has closed is an error the
\* callers ignore: the broker has already requeued the message.
Ack(w) ==
    /\ unacked' = [unacked EXCEPT ![w] = NoVideo]
    /\ UNCHANGED <<ready, dlq>>

\* Mutant: the channel consumes with autoAck, so the broker forgets a message
\* it has delivered.
RequeueForgets(w) ==
    /\ unacked' = [unacked EXCEPT ![w] = NoVideo]
    /\ UNCHANGED <<ready, dlq>>

\* d.Nack(false, true), and what the broker does by itself with the
\* outstanding delivery of a consumer whose channel closes.
Requeue(w) ==
    \/ /\ unacked[w] # NoVideo
       /\ ready' = [ready EXCEPT ![WorkerType[w]][unacked[w]] = @ + 1]
       /\ unacked' = [unacked EXCEPT ![w] = NoVideo]
       /\ UNCHANGED dlq
    \/ /\ unacked[w] = NoVideo
       /\ UNCHANGED brokerVars

\* d.Nack(false, false): x-dead-letter-exchange routes the message to the DLQ.
DeadLetter(w) ==
    \/ /\ unacked[w] # NoVideo
       /\ dlq' = [dlq EXCEPT ![WorkerType[w]][unacked[w]] = @ + 1]
       /\ unacked' = [unacked EXCEPT ![w] = NoVideo]
       /\ UNCHANGED ready
    \/ /\ unacked[w] = NoVideo
       /\ UNCHANGED brokerVars

=============================================================================
