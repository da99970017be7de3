---------------------------- MODULE RabbitMQConnector ----------------------------
(***************************************************************************)
(* The RabbitMQ connector (rabbitmq-http-connector/main.go): in each       *)
(* replica one goroutine ranges over the deliveries, takes a slot of a     *)
(* semaphore for each and starts a goroutine that handles it.  The broker  *)
(* is external: it hands every message of the queue to some replica, and   *)
(* gives it to another when that replica's channel is closed on it (a lost *)
(* connection, or an acknowledgement that took too long).  It may also     *)
(* cancel a consumer and leave the channel open.                           *)
(***************************************************************************)
EXTENDS Integers, FiniteSets

CONSTANTS
  Messages,          \* the messages put into the queue
  Replicas,          \* the replicas of the connector
  MaxDeliveries,     \* bound: how often the broker delivers a message
  MaxLosses,         \* bound: how many consumers are lost
  CONCURRENT,        \* the environment variable, or its default of 10
  ResponseTopicSet,  \* whether RESPONSE_TOPIC is set
  ErrorTopicSet      \* whether ERROR_TOPIC is set

(* With a negative CONCURRENT the process panics at its start. *)
ASSUME ConfigAssumption ==
  CONCURRENT \in Nat /\ ResponseTopicSet \in BOOLEAN /\ ErrorTopicSet \in BOOLEAN
ASSUME ReplicasAssumption == Replicas # {}
ASSUME BoundsAssumption == MaxDeliveries \in Nat /\ MaxLosses \in Nat

VARIABLES
  queue,       \* queue[m]: "new", "ready", "unacked" or "acked"
  deliveries,  \* deliveries[m]: how often m has been delivered
  to,          \* to[d]: the replica delivery d went to
  phase,       \* phase[d]: where delivery d is in its replica
  sem,         \* sem[r]: how many elements the channel sem of r holds
  channel,     \* channel[r]: "open", "cancelled" (the consumer is) or "closed"
  losses,      \* how many consumers have been lost
  written      \* history: written[d]: what was written for delivery d, a response
               \* also if there is no topic for it

vars == <<queue, deliveries, to, phase, sem, channel, losses, written>>

Deliveries == Messages \X (1 .. MaxDeliveries)
Message(d) == d[1]
DeliveriesOf(m) == {d \in Deliveries : Message(d) = m}
Working == {"invoke", "body", "error", "response", "ack", "ackError", "release"}

TypeOK ==
  /\ queue \in [Messages -> {"new", "ready", "unacked", "acked"}]
  /\ deliveries \in [Messages -> 0 .. MaxDeliveries]
  /\ to \in [Deliveries -> Replicas]
  /\ phase \in [Deliveries -> Working \union {"none", "buffered", "waiting", "done", "dropped"}]
  /\ sem \in [Replicas -> 0 .. CONCURRENT]
  /\ channel \in [Replicas -> {"open", "cancelled", "closed"}]
  /\ losses \in 0 .. MaxLosses
  /\ written \in [Deliveries -> SUBSET {"response", "error"}]

Init ==
  /\ queue = [m \in Messages |-> "new"]
  /\ deliveries = [m \in Messages |-> 0]
  /\ to = [d \in Deliveries |-> CHOOSE r \in Replicas : TRUE]
  /\ phase = [d \in Deliveries |-> "none"]
  /\ sem = [r \in Replicas |-> 0]
  /\ channel = [r \in Replicas |-> "open"]
  /\ losses = 0
  /\ written = [d \in Deliveries |-> {}]

--------------------------------------------------------------------------------
(* The broker *)

Enqueue(m) ==
  /\ queue[m] = "new"
  /\ queue' = [queue EXCEPT ![m] = "ready"]
  /\ UNCHANGED <<deliveries, to, phase, sem, channel, losses, written>>

(* There is no prefetch limit: every ready message is delivered at once.    *)
Deliver(m, r) ==
  /\ queue[m] = "ready" /\ channel[r] = "open"
  /\ deliveries[m] < MaxDeliveries
  /\ LET d == <<m, deliveries[m] + 1>> IN
       /\ to' = [to EXCEPT ![d] = r]
       /\ phase' = [phase EXCEPT ![d] = "buffered"]
  /\ deliveries' = [deliveries EXCEPT ![m] = @ + 1]
  /\ queue' = [queue EXCEPT ![m] = "unacked"]
  /\ UNCHANGED <<sem, channel, losses, written>>

(* The channel of r is closed: what is not acknowledged on it is ready for  *)
(* another consumer, and what the loop has not received yet is dropped.     *)
CloseChannel(r) ==
  /\ channel[r] # "closed" /\ losses < MaxLosses
  /\ channel' = [channel EXCEPT ![r] = "closed"]
  /\ losses' = losses + 1
  /\ queue' = [m \in Messages |->
                 IF queue[m] = "unacked" /\ to[<<m, deliveries[m]>>] = r THEN "ready"
                 ELSE queue[m]]
  /\ phase' = [d \in Deliveries |->
                 IF phase[d] = "buffered" /\ to[d] = r THEN "dropped" ELSE phase[d]]
  /\ UNCHANGED <<deliveries, to, sem, written>>

CancelConsumer(r) ==
  /\ channel[r] = "open" /\ losses < MaxLosses
  /\ channel' = [channel EXCEPT ![r] = "cancelled"]
  /\ losses' = losses + 1
  /\ UNCHANGED <<queue, deliveries, to, phase, sem, written>>

--------------------------------------------------------------------------------
(* The loop over the deliveries *)

(* The loop receives one delivery and gets no other before it has a slot.   *)
Receive(d) ==
  /\ phase[d] = "buffered"
  /\ \A e \in Deliveries : ~(to[e] = to[d] /\ phase[e] = "waiting")
  /\ phase' = [phase EXCEPT ![d] = "waiting"]
  /\ UNCHANGED <<queue, deliveries, to, sem, channel, losses, written>>

\* Mutant of TakeSlot: the slot is taken inside the goroutine.
TakeSlotInGoroutine(d) ==
  /\ phase[d] = "waiting"
  /\ phase' = [phase EXCEPT ![d] = "invoke"]
  /\ sem' = [sem EXCEPT ![to[d]] = IF @ < CONCURRENT THEN @ + 1 ELSE @]
  /\ UNCHANGED <<queue, deliveries, to, channel, losses, written>>
TakeSlot(d) ==
  /\ phase[d] = "waiting"
  /\ sem[to[d]] < CONCURRENT
  /\ phase' = [phase EXCEPT ![d] = "invoke"]
  /\ sem' = [sem EXCEPT ![to[d]] = @ + 1]
  /\ UNCHANGED <<queue, deliveries, to, channel, losses, written>>

--------------------------------------------------------------------------------
(* The goroutine of a delivery *)

Go(d, from, to_) ==
  /\ phase[d] = from
  /\ phase' = [phase EXCEPT ![d] = to_]
  /\ UNCHANGED <<deliveries, to, channel, losses>>

(* HandleHTTPRequest returns its verdict (see Invocation). *)
Respond(d) == Go(d, "invoke", "body") /\ UNCHANGED <<queue, sem, written>>
Fail(d) == Go(d, "invoke", "error") /\ UNCHANGED <<queue, sem, written>>

ReadBody(d) ==
  /\ Go(d, "body", "response") \/ Go(d, "body", "error")
  /\ UNCHANGED <<queue, sem, written>>

\* Mutant of errorHandler: what is in the code's else branches runs as well.
errorHandlerFallsThrough(d) ==
  /\ Go(d, "error", "response") \/ Go(d, "ackError", "release")
  /\ \/ ErrorTopicSet /\ written' = [written EXCEPT ![d] = @ \union {"error"}]
     \/ UNCHANGED written
  /\ UNCHANGED <<queue, sem>>
(* The error of the call, or of a failed acknowledgement, is written if     *)
(* there is a topic for it and the write succeeds.                          *)
errorHandler(d) ==
  /\ Go(d, "error", "release") \/ Go(d, "ackError", "release")
  /\ \/ ErrorTopicSet /\ written' = [written EXCEPT ![d] = @ \union {"error"}]
     \/ UNCHANGED written
  /\ UNCHANGED <<queue, sem>>

\* Mutant of responseHandler: a failed write is not told from a success.
responseHandlerAlwaysTrue(d) ==
  /\ Go(d, "response", "ack")
  /\ \/ ResponseTopicSet /\ written' = [written EXCEPT ![d] = @ \union {"response"}]
     \/ UNCHANGED written
  /\ UNCHANGED <<queue, sem>>
(* Only a response that is written, or has no topic, is acknowledged.       *)
responseHandler(d) ==
  /\ \/ /\ Go(d, "response", "ack")
        /\ written' = [written EXCEPT ![d] = @ \union {"response"}]
     \/ ResponseTopicSet /\ Go(d, "response", "release") /\ UNCHANGED written
  /\ UNCHANGED <<queue, sem>>

(* d.Ack fails on a closed channel, and its error goes to errorHandler.     *)
Ack(d) ==
  /\ \/ /\ channel[to[d]] # "closed"
        /\ Go(d, "ack", "release")
        /\ queue' = [queue EXCEPT ![Message(d)] = "acked"]
     \/ channel[to[d]] = "closed" /\ Go(d, "ack", "ackError") /\ UNCHANGED queue
  /\ UNCHANGED <<sem, written>>

\* Mutant of ReleaseSlot: only an acknowledged delivery gives its slot back.
ReleaseSlotIfAcked(d) ==
  /\ Go(d, "release", "done")
  /\ sem' = [sem EXCEPT ![to[d]] = IF queue[Message(d)] = "acked" THEN @ - 1 ELSE @]
  /\ UNCHANGED <<queue, written>>
ReleaseSlot(d) ==
  /\ Go(d, "release", "done")
  /\ sem' = [sem EXCEPT ![to[d]] = @ - 1]
  /\ UNCHANGED <<queue, written>>

Handler(d) ==
  \/ Respond(d) \/ Fail(d) \/ ReadBody(d) \/ errorHandler(d) \/ responseHandler(d)
  \/ Ack(d) \/ ReleaseSlot(d)

Broker ==
  \/ \E m \in Messages : Enqueue(m) \/ \E r \in Replicas : Deliver(m, r)
  \/ \E r \in Replicas : CloseChannel(r) \/ CancelConsumer(r)

Next == Broker \/ \E d \in Deliveries : Receive(d) \/ TakeSlot(d) \/ Handler(d)

Spec == Init /\ [][Next]_vars

(* The broker delivers, and the goroutines run.  Of two deliveries that can *)
(* be received or given a slot, each is in turn.                            *)
FairSpec ==
  /\ Spec
  /\ \A m \in Messages : WF_vars(\E r \in Replicas : Deliver(m, r))
  /\ \A d \in Deliveries : SF_vars(Receive(d)) /\ WF_vars(TakeSlot(d)) /\ WF_vars(Handler(d))

--------------------------------------------------------------------------------
(* Properties *)

Handlers(r) == {d \in Deliveries : to[d] = r /\ phase[d] \in Working}

(* A replica never handles more than CONCURRENT messages at a time (README: *)
(* "The maximum concurrent message to process at the same time"), and a slot*)
(* is taken exactly as long as a goroutine works, whatever way it ends.     *)
SlotsCountHandlers ==
  \A r \in Replicas :
    sem[r] = Cardinality(Handlers(r)) /\ Cardinality(Handlers(r)) <= CONCURRENT

Answered == {d \in Deliveries : "response" \in written[d]}

Promise == INSTANCE AtLeastOnce WITH
  source <- [m \in Messages |-> CASE queue[m] = "new" -> "absent"
                                  [] queue[m] = "acked" -> "removed"
                                  [] OTHER -> "kept"],
  delivered <- deliveries,
  concluded <- [m \in Messages |-> Cardinality(Answered \intersect DeliveriesOf(m))]

(* The connector keeps the promise of AtLeastOnce: a message leaves the     *)
(* queue only if the response of some delivery was written (or read, without*)
(* a topic for it), so no failed call, failed write, closed channel or late *)
(* acknowledgement loses one.                                               *)
RefinesAtLeastOnce == Promise!Spec

(* Unless a channel is closed, a delivery ends in a response or in an error *)
(* but never in both, and no message is handled by two goroutines.          *)
ExactWithoutClosing ==
  (\A r \in Replicas : channel[r] # "closed") =>
    /\ \A d \in Deliveries : Cardinality(written[d]) <= 1
    /\ \A d, e \in Deliveries :
         Message(d) = Message(e) /\ phase[d] # "none" /\ phase[e] # "none" => d = e

(* A message in the queue is handled to the end by some replica, also when  *)
(* the replica it was sent to loses its channel, as long as one replica has *)
(* a consumer.  A process that has lost its consumer runs on, but consumes  *)
(* no more: when all have, messages stay in the queue.                      *)
EveryMessageIsHandled ==
  \A m \in Messages :
    (queue[m] = "ready") ~>
      ((\E d \in Deliveries : Message(d) = m /\ phase[d] = "done")
       \/ \A r \in Replicas : channel[r] # "open")

================================================================================
