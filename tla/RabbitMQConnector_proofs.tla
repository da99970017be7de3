------------------------ MODULE RabbitMQConnector_proofs ------------------------
(***************************************************************************)
(* Proofs about the RabbitMQ connector, for any messages, replicas, number *)
(* of deliveries and CONCURRENT: slots count the goroutines at work, a     *)
(* message is exact while no channel is closed, and at least once always.  *)
(***************************************************************************)
EXTENDS RabbitMQConnector, FiniteSetTheorems, TLAPS

(* Only what the broker has delivered is with a replica.                    *)
WereDelivered ==
  /\ \A m \in Messages : queue[m] = "new" => deliveries[m] = 0
  /\ \A d \in Deliveries : phase[d] # "none" => d[2] <= deliveries[Message(d)]

(* What is written by the time a delivery has come to its phase.            *)
WrittenByPhase ==
  \A d \in Deliveries :
    /\ phase[d] \notin {"ack", "ackError", "release", "done"} => written[d] = {}
    /\ phase[d] \in {"ack", "ackError"} => written[d] = {"response"}

(* While no channel is closed a message is delivered once, and its          *)
(* acknowledgement does not fail.                                           *)
NoneClosed == \A r \in Replicas : channel[r] # "closed"
DeliveredOnce ==
  NoneClosed =>
    \A m \in Messages : deliveries[m] \in {0, 1} /\ (queue[m] = "ready" => deliveries[m] = 0)
WrittenOnce ==
  NoneClosed =>
    \A d \in Deliveries : phase[d] # "ackError" /\ written[d] \in {{}, {"response"}, {"error"}}

(* Each goroutine at work has its slot.                                     *)
Slots == \A r \in Replicas : IsFiniteSet(Handlers(r)) /\ sem[r] = Cardinality(Handlers(r))

IInv == TypeOK /\ WereDelivered /\ WrittenByPhase /\ DeliveredOnce /\ WrittenOnce /\ Slots

LEMMA InitInv == Init => IInv
<1> SUFFICES ASSUME Init PROVE IInv
  OBVIOUS
<1>1. TypeOK
  BY ConfigAssumption, ReplicasAssumption, BoundsAssumption DEF Init, TypeOK
<1>2. WereDelivered /\ WrittenByPhase /\ DeliveredOnce /\ WrittenOnce
  BY DEF Init, WereDelivered, WrittenByPhase, DeliveredOnce, WrittenOnce
<1>3. \A r \in Replicas : Handlers(r) = {}
  BY DEF Init, Handlers, Working
<1>4. Slots
  BY <1>3, FS_EmptySet DEF Init, Slots
<1> QED
  BY <1>1, <1>2, <1>4 DEF IInv

--------------------------------------------------------------------------------
(* Facts about deliveries *)

LEMMA IsDelivery ==
  ASSUME NEW d \in Deliveries
  PROVE  Message(d) \in Messages /\ d[2] \in 1 .. MaxDeliveries /\ d[2] \in Nat \ {0} /\ d = <<Message(d), d[2]>>
BY BoundsAssumption DEF Deliveries, Message

LEMMA NewDelivery ==
  ASSUME TypeOK, WereDelivered, NEW m \in Messages, deliveries[m] < MaxDeliveries
  PROVE  /\ <<m, deliveries[m] + 1>> \in Deliveries /\ phase[<<m, deliveries[m] + 1>>] = "none"
         /\ deliveries[m] \in Nat
<1>1. deliveries[m] \in Nat /\ deliveries[m] + 1 \in 1 .. MaxDeliveries
  BY BoundsAssumption DEF TypeOK
<1>2. <<m, deliveries[m] + 1>> \in Deliveries
  BY <1>1 DEF Deliveries
<1> QED
  BY <1>1, <1>2 DEF WereDelivered, Message

LEMMA GoFacts ==
  ASSUME TypeOK, NEW d \in Deliveries, NEW from, NEW to_, Go(d, from, to_)
  PROVE  /\ \A e \in Deliveries : phase'[e] = IF e = d THEN to_ ELSE phase[e]
         /\ phase[d] = from
         /\ deliveries' = deliveries /\ to' = to /\ channel' = channel /\ losses' = losses
BY DEF Go, TypeOK

(* The goroutines at work, when one starts, one ends, or none does.         *)
LEMMA SameHandlers ==
  ASSUME \A d \in Deliveries : /\ phase'[d] \in Working <=> phase[d] \in Working
                               /\ phase[d] \in Working => to'[d] = to[d],
         NEW r \in Replicas
  PROVE  Handlers(r)' = Handlers(r)
BY DEF Handlers

LEMMA OneStarts ==
  ASSUME NEW d \in Deliveries, TypeOK, Slots, phase[d] = "waiting", to' = to,
         \A e \in Deliveries : phase'[e] = IF e = d THEN "invoke" ELSE phase[e],
         sem' = [sem EXCEPT ![to[d]] = @ + 1]
  PROVE  Slots'
<1> SUFFICES ASSUME NEW r \in Replicas
             PROVE  IsFiniteSet(Handlers(r)') /\ sem'[r] = Cardinality(Handlers(r)')
  BY DEF Slots
<1>1. CASE r = to[d]
  <2>1. Handlers(r)' = Handlers(r) \union {d} /\ d \notin Handlers(r)
    BY <1>1 DEF Handlers, Working
  <2>2. sem'[r] = sem[r] + 1
    BY <1>1 DEF TypeOK
  <2> QED
    BY <2>1, <2>2, FS_AddElement DEF Slots
<1>2. CASE r # to[d]
  BY <1>2 DEF Handlers, Working, Slots, TypeOK
<1> QED
  BY <1>1, <1>2

LEMMA OneEnds ==
  ASSUME NEW d \in Deliveries, TypeOK, Slots, phase[d] = "release", to' = to,
         \A e \in Deliveries : phase'[e] = IF e = d THEN "done" ELSE phase[e],
         sem' = [sem EXCEPT ![to[d]] = @ - 1]
  PROVE  Slots' /\ sem[to[d]] > 0
<1>1. to[d] \in Replicas /\ d \in Handlers(to[d])
  BY DEF Handlers, Working, TypeOK
<1>2. sem[to[d]] \in Nat /\ Cardinality(Handlers(to[d])) # 0
  BY <1>1, FS_CardinalityType, FS_EmptySet DEF Slots
<1>3. sem[to[d]] > 0
  BY <1>1, <1>2 DEF Slots
<1>4. ASSUME NEW r \in Replicas
      PROVE  IsFiniteSet(Handlers(r)') /\ sem'[r] = Cardinality(Handlers(r)')
  <2>1. CASE r = to[d]
    <3>1. Handlers(r)' = Handlers(r) \ {d} /\ d \in Handlers(r)
      BY <2>1 DEF Handlers, Working
    <3>2. sem'[r] = sem[r] - 1
      BY <2>1 DEF TypeOK
    <3> QED
      BY <3>1, <3>2, FS_RemoveElement DEF Slots
  <2>2. CASE r # to[d]
    BY <2>2 DEF Handlers, Working, Slots, TypeOK
  <2> QED
    BY <2>1, <2>2
<1> QED
  BY <1>3, <1>4 DEF Slots

--------------------------------------------------------------------------------
(* Every step keeps the types. *)

LEMMA TypeStep == IInv /\ [Next]_vars => TypeOK'
<1> SUFFICES ASSUME IInv, [Next]_vars PROVE TypeOK'
  OBVIOUS
<1>0. TypeOK
  BY DEF IInv
<1>1. ASSUME NEW m \in Messages, Enqueue(m) PROVE TypeOK'
  BY <1>0, <1>1 DEF Enqueue, TypeOK
<1>2. ASSUME NEW m \in Messages, NEW r \in Replicas, Deliver(m, r) PROVE TypeOK'
  <2>1. deliveries' \in [Messages -> 0 .. MaxDeliveries]
    BY <1>0, <1>2, BoundsAssumption DEF Deliver, TypeOK
  <2>2. to' \in [Deliveries -> Replicas] /\ queue' \in [Messages -> {"new", "ready", "unacked", "acked"}]
    BY <1>0, <1>2 DEF Deliver, TypeOK
  <2>3. phase' \in [Deliveries -> Working \union {"none", "buffered", "waiting", "done", "dropped"}]
    BY <1>0, <1>2 DEF Deliver, TypeOK
  <2> QED
    BY <1>0, <1>2, <2>1, <2>2, <2>3 DEF Deliver, TypeOK
<1>3. ASSUME NEW r \in Replicas, CloseChannel(r) PROVE TypeOK'
  <2>1. losses' \in 0 .. MaxLosses
    BY <1>0, <1>3, BoundsAssumption DEF CloseChannel, TypeOK
  <2> QED
    BY <1>0, <1>3, <2>1 DEF CloseChannel, TypeOK
<1>4. ASSUME NEW r \in Replicas, CancelConsumer(r) PROVE TypeOK'
  <2>1. losses' \in 0 .. MaxLosses
    BY <1>0, <1>4, BoundsAssumption DEF CancelConsumer, TypeOK
  <2> QED
    BY <1>0, <1>4, <2>1 DEF CancelConsumer, TypeOK
<1>5. ASSUME NEW d \in Deliveries, Receive(d) PROVE TypeOK'
  <2>1. /\ phase' = [phase EXCEPT ![d] = "waiting"]
        /\ UNCHANGED <<queue, deliveries, to, sem, channel, losses, written>>
    BY <1>5 DEF Receive
  <2> QED
    BY <1>0, <2>1 DEF TypeOK
<1>6. ASSUME NEW d \in Deliveries, TakeSlot(d) PROVE TypeOK'
  <2>1. sem' \in [Replicas -> 0 .. CONCURRENT]
    BY <1>0, <1>6, ConfigAssumption DEF TakeSlot, TypeOK
  <2> QED
    BY <1>0, <1>6, <2>1 DEF TakeSlot, TypeOK, Working
<1>7. ASSUME NEW d \in Deliveries, Respond(d) \/ Fail(d) \/ ReadBody(d) PROVE TypeOK'
  BY <1>0, <1>7 DEF Respond, Fail, ReadBody, Go, TypeOK, Working
<1>8. ASSUME NEW d \in Deliveries, errorHandler(d) \/ responseHandler(d) PROVE TypeOK'
  <2>1. phase' \in [Deliveries -> Working \union {"none", "buffered", "waiting", "done", "dropped"}]
    BY <1>0, <1>8 DEF errorHandler, responseHandler, Go, TypeOK, Working
  <2>2. written' \in [Deliveries -> SUBSET {"response", "error"}]
    BY <1>0, <1>8 DEF errorHandler, responseHandler, TypeOK
  <2>3. UNCHANGED <<queue, deliveries, to, sem, channel, losses>>
    BY <1>8 DEF errorHandler, responseHandler, Go
  <2> QED
    BY <1>0, <2>1, <2>2, <2>3 DEF TypeOK
<1>9. ASSUME NEW d \in Deliveries, Ack(d) PROVE TypeOK'
  BY <1>0, <1>9 DEF Ack, Go, TypeOK, Working
<1>10. ASSUME NEW d \in Deliveries, ReleaseSlot(d) PROVE TypeOK'
  <2>1. sem[to[d]] > 0
    BY <1>0, <1>10, GoFacts, OneEnds DEF ReleaseSlot, IInv
  <2>2. sem' \in [Replicas -> 0 .. CONCURRENT]
    BY <1>0, <1>10, <2>1, ConfigAssumption DEF ReleaseSlot, TypeOK
  <2> QED
    BY <1>0, <1>10, <2>2 DEF ReleaseSlot, Go, TypeOK
<1>11. CASE UNCHANGED vars
  BY <1>0, <1>11 DEF vars, TypeOK
<1> QED
  <2>1. CASE Broker
    BY <1>1, <1>2, <1>3, <1>4, <2>1 DEF Broker
  <2>2. ASSUME NEW d \in Deliveries, Handler(d) PROVE TypeOK'
    BY <1>7, <1>8, <1>9, <1>10, <2>2 DEF Handler
  <2> QED
    BY <1>5, <1>6, <1>11, <2>1, <2>2 DEF Next

--------------------------------------------------------------------------------
(* Every step keeps the invariant. *)

LEMMA NextInv == IInv /\ [Next]_vars => IInv'
<1> SUFFICES ASSUME IInv, [Next]_vars PROVE IInv'
  OBVIOUS
<1>0. TypeOK /\ TypeOK'
  BY TypeStep DEF IInv
<1> DEFINE Rest == WereDelivered /\ WrittenByPhase /\ DeliveredOnce /\ WrittenOnce /\ Slots
<1>01. Rest
  BY DEF IInv
<1>02. ASSUME sem' = sem,
              \A d \in Deliveries : /\ phase'[d] \in Working <=> phase[d] \in Working
                                    /\ phase[d] \in Working => to'[d] = to[d]
       PROVE  Slots'
  BY <1>01, <1>02, SameHandlers DEF Slots
<1>03. \A d \in Deliveries : Message(d) \in Messages /\ d[2] \in Nat \ {0}
  BY IsDelivery
<1>1. ASSUME NEW m \in Messages, Enqueue(m) PROVE Rest'
  <2>1. /\ \A n \in Messages : queue'[n] = IF n = m THEN "ready" ELSE queue[n]
        /\ queue[m] = "new"
        /\ deliveries' = deliveries /\ to' = to /\ phase' = phase /\ sem' = sem
        /\ channel' = channel /\ written' = written
    BY <1>0, <1>1 DEF Enqueue, TypeOK
  <2>2. WereDelivered' /\ DeliveredOnce'
    BY <1>01, <2>1 DEF WereDelivered, DeliveredOnce, NoneClosed
  <2>3. WrittenByPhase' /\ WrittenOnce'
    BY <1>01, <2>1 DEF WrittenByPhase, WrittenOnce, NoneClosed
  <2> QED
    BY <1>02, <2>1, <2>2, <2>3
<1>2. ASSUME NEW m \in Messages, NEW r \in Replicas, Deliver(m, r) PROVE Rest'
  <2> DEFINE new == <<m, deliveries[m] + 1>>
  <2>1. new \in Deliveries /\ phase[new] = "none" /\ deliveries[m] \in Nat /\ queue[m] = "ready"
    BY <1>0, <1>01, <1>2, NewDelivery DEF Deliver
  <2>2. Message(new) = m /\ new[2] = deliveries[m] + 1
    BY DEF Message
  <2>3. /\ to' = [to EXCEPT ![new] = r] /\ phase' = [phase EXCEPT ![new] = "buffered"]
        /\ deliveries' = [deliveries EXCEPT ![m] = @ + 1]
        /\ queue' = [queue EXCEPT ![m] = "unacked"]
        /\ sem' = sem /\ channel' = channel /\ written' = written
    BY <1>2 DEF Deliver
  <2> HIDE DEF new
  <2>4. /\ \A d \in Deliveries : /\ phase'[d] = IF d = new THEN "buffered" ELSE phase[d]
                                 /\ d # new => to'[d] = to[d]
        /\ \A n \in Messages : /\ deliveries'[n] = IF n = m THEN deliveries[m] + 1 ELSE deliveries[n]
                               /\ deliveries[n] \in Nat
                               /\ queue'[n] = IF n = m THEN "unacked" ELSE queue[n]
    BY <1>0, <2>1, <2>3 DEF TypeOK
  <2>5. WereDelivered'
    BY <1>01, <1>03, <2>1, <2>2, <2>4 DEF WereDelivered
  <2>6. WrittenByPhase' /\ WrittenOnce'
    BY <1>01, <2>1, <2>3, <2>4 DEF WrittenByPhase, WrittenOnce, NoneClosed
  <2>7. DeliveredOnce'
    BY <1>01, <2>1, <2>3, <2>4 DEF DeliveredOnce, NoneClosed
  <2>8. Slots'
    BY <1>02, <2>1, <2>3, <2>4 DEF Working
  <2> QED
    BY <2>5, <2>6, <2>7, <2>8
<1>3. ASSUME NEW r \in Replicas, CloseChannel(r) PROVE Rest'
  <2>1. /\ \A d \in Deliveries : phase'[d] = phase[d] \/ (phase[d] = "buffered" /\ phase'[d] = "dropped")
        /\ \A m \in Messages : queue'[m] = queue[m] \/ (queue[m] = "unacked" /\ queue'[m] = "ready")
        /\ deliveries' = deliveries /\ to' = to /\ sem' = sem /\ written' = written
    BY <1>3 DEF CloseChannel
  <2>2. ~NoneClosed'
    BY <1>0, <1>3 DEF CloseChannel, TypeOK, NoneClosed
  <2>3. WereDelivered' /\ WrittenByPhase'
    BY <1>01, <2>1 DEF WereDelivered, WrittenByPhase
  <2>4. Slots'
    BY <1>02, <2>1 DEF Working
  <2> QED
    BY <2>2, <2>3, <2>4 DEF DeliveredOnce, WrittenOnce
<1>4. ASSUME NEW r \in Replicas, CancelConsumer(r) PROVE Rest'
  <2>1. /\ queue' = queue /\ deliveries' = deliveries /\ to' = to /\ phase' = phase
        /\ sem' = sem /\ written' = written
    BY <1>4 DEF CancelConsumer
  <2>2. NoneClosed' => NoneClosed
    BY <1>0, <1>4 DEF CancelConsumer, TypeOK, NoneClosed
  <2> QED
    BY <1>01, <1>02, <2>1, <2>2
       DEF WereDelivered, WrittenByPhase, DeliveredOnce, WrittenOnce
<1>5. ASSUME NEW d \in Deliveries, Receive(d) PROVE Rest'
  <2>1. /\ \A e \in Deliveries : phase'[e] = IF e = d THEN "waiting" ELSE phase[e]
        /\ phase[d] = "buffered"
        /\ queue' = queue /\ deliveries' = deliveries /\ to' = to /\ sem' = sem
        /\ channel' = channel /\ written' = written
    <3>1. /\ phase' = [phase EXCEPT ![d] = "waiting"] /\ phase[d] = "buffered"
          /\ UNCHANGED <<queue, deliveries, to, sem, channel, losses, written>>
      BY <1>5 DEF Receive
    <3> QED
      BY <1>0, <3>1 DEF TypeOK
  <2>2. Slots'
    BY <1>02, <2>1 DEF Working
  <2> QED
    BY <1>01, <2>1, <2>2 DEF WereDelivered, WrittenByPhase, DeliveredOnce, WrittenOnce, NoneClosed
<1>6. ASSUME NEW d \in Deliveries, TakeSlot(d) PROVE Rest'
  <2>1. /\ \A e \in Deliveries : phase'[e] = IF e = d THEN "invoke" ELSE phase[e]
        /\ phase[d] = "waiting" /\ sem' = [sem EXCEPT ![to[d]] = @ + 1]
        /\ queue' = queue /\ deliveries' = deliveries /\ to' = to
        /\ channel' = channel /\ written' = written
    BY <1>0, <1>6 DEF TakeSlot, TypeOK
  <2>2. Slots'
    BY <1>0, <1>01, <2>1, OneStarts
  <2> QED
    BY <1>01, <2>1, <2>2 DEF WereDelivered, WrittenByPhase, DeliveredOnce, WrittenOnce, NoneClosed
<1>7. ASSUME NEW d \in Deliveries, NEW from \in {"invoke", "body"}, NEW to_ \in {"body", "response", "error"},
             Go(d, from, to_), UNCHANGED <<queue, sem, written>>
      PROVE  Rest'
  <2>1. /\ \A e \in Deliveries : phase'[e] = IF e = d THEN to_ ELSE phase[e]
        /\ phase[d] = from
        /\ queue' = queue /\ deliveries' = deliveries /\ to' = to /\ sem' = sem
        /\ channel' = channel /\ written' = written
    BY <1>0, <1>7, GoFacts
  <2>2. Slots'
    BY <1>02, <2>1 DEF Working
  <2> QED
    BY <1>01, <2>1, <2>2 DEF WereDelivered, WrittenByPhase, DeliveredOnce, WrittenOnce, NoneClosed
<1>8. ASSUME NEW d \in Deliveries, Respond(d) \/ Fail(d) \/ ReadBody(d) PROVE Rest'
  BY <1>7, <1>8 DEF Respond, Fail, ReadBody
<1>9. ASSUME NEW d \in Deliveries, errorHandler(d) PROVE Rest'
  <2>1. PICK from \in {"error", "ackError"} : Go(d, from, "release")
    BY <1>9 DEF errorHandler
  <2>2. /\ \A e \in Deliveries : phase'[e] = IF e = d THEN "release" ELSE phase[e]
        /\ phase[d] = from
        /\ queue' = queue /\ deliveries' = deliveries /\ to' = to /\ sem' = sem
        /\ channel' = channel
        /\ \A e \in Deliveries : e # d => written'[e] = written[e]
        /\ written'[d] \in {written[d], written[d] \union {"error"}}
    BY <1>0, <1>9, <2>1, GoFacts DEF errorHandler, TypeOK
  <2>3. WereDelivered' /\ DeliveredOnce' /\ WrittenByPhase'
    BY <1>01, <2>2 DEF WereDelivered, DeliveredOnce, NoneClosed, WrittenByPhase
  <2>4. WrittenOnce'
    <3> SUFFICES ASSUME NoneClosed, NEW e \in Deliveries
                 PROVE  phase'[e] # "ackError" /\ written'[e] \in {{}, {"response"}, {"error"}}
      BY <2>2 DEF WrittenOnce, NoneClosed
    <3>1. from = "error" /\ written[d] = {}
      BY <1>01, <2>2 DEF WrittenOnce, WrittenByPhase
    <3> QED
      BY <1>01, <2>2, <3>1 DEF WrittenOnce
  <2>5. Slots'
    BY <1>02, <2>2 DEF Working
  <2> QED
    BY <2>3, <2>4, <2>5
<1>10. ASSUME NEW d \in Deliveries, responseHandler(d) PROVE Rest'
  <2>1. PICK to_ \in {"ack", "release"} :
          /\ Go(d, "response", to_)
          /\ written' = IF to_ = "ack" THEN [written EXCEPT ![d] = @ \union {"response"}] ELSE written
    BY <1>10 DEF responseHandler
  <2>2. /\ \A e \in Deliveries : phase'[e] = IF e = d THEN to_ ELSE phase[e]
        /\ phase[d] = "response"
        /\ queue' = queue /\ deliveries' = deliveries /\ to' = to /\ sem' = sem
        /\ channel' = channel
        /\ \A e \in Deliveries : e # d => written'[e] = written[e]
        /\ written'[d] = IF to_ = "ack" THEN written[d] \union {"response"} ELSE written[d]
    BY <1>0, <1>10, <2>1, GoFacts DEF responseHandler, TypeOK
  <2>3. written[d] = {}
    BY <1>01, <2>2 DEF WrittenByPhase
  <2>4. written'[d] = IF to_ = "ack" THEN {"response"} ELSE {}
    BY <2>2, <2>3
  <2>5. WereDelivered' /\ DeliveredOnce' /\ WrittenByPhase' /\ WrittenOnce'
    BY <1>01, <2>2, <2>4 DEF WereDelivered, DeliveredOnce, NoneClosed, WrittenByPhase, WrittenOnce
  <2>6. Slots'
    BY <1>02, <2>2 DEF Working
  <2> QED
    BY <2>5, <2>6
<1>11. ASSUME NEW d \in Deliveries, Ack(d) PROVE Rest'
  <2>1. PICK to_ \in {"release", "ackError"} :
          /\ Go(d, "ack", to_)
          /\ to_ = "ackError" => channel[to[d]] = "closed" /\ queue' = queue
          /\ to_ = "release" => queue' = [queue EXCEPT ![Message(d)] = "acked"]
    BY <1>11 DEF Ack
  <2>2. /\ \A e \in Deliveries : phase'[e] = IF e = d THEN to_ ELSE phase[e]
        /\ phase[d] = "ack"
        /\ deliveries' = deliveries /\ to' = to /\ sem' = sem /\ channel' = channel /\ written' = written
        /\ \A m \in Messages : queue'[m] = queue[m] \/ queue'[m] = "acked"
        /\ to_ = "ackError" => ~NoneClosed
    BY <1>0, <1>11, <2>1, GoFacts DEF Ack, TypeOK, NoneClosed
  <2>3. WereDelivered' /\ DeliveredOnce'
    BY <1>01, <2>2 DEF WereDelivered, DeliveredOnce, NoneClosed
  <2>4. WrittenByPhase' /\ WrittenOnce'
    BY <1>01, <2>2 DEF NoneClosed, WrittenByPhase, WrittenOnce
  <2>5. Slots'
    BY <1>02, <2>2 DEF Working
  <2> QED
    BY <2>3, <2>4, <2>5
<1>12. ASSUME NEW d \in Deliveries, ReleaseSlot(d) PROVE Rest'
  <2>1. /\ \A e \in Deliveries : phase'[e] = IF e = d THEN "done" ELSE phase[e]
        /\ phase[d] = "release" /\ sem' = [sem EXCEPT ![to[d]] = @ - 1]
        /\ queue' = queue /\ deliveries' = deliveries /\ to' = to
        /\ channel' = channel /\ written' = written
    BY <1>0, <1>12, GoFacts DEF ReleaseSlot
  <2>2. Slots'
    BY <1>0, <1>01, <2>1, OneEnds
  <2> QED
    BY <1>01, <2>1, <2>2 DEF WereDelivered, WrittenByPhase, DeliveredOnce, WrittenOnce, NoneClosed
<1>13. ASSUME UNCHANGED vars PROVE Rest'
  BY <1>01, <1>02, <1>13 DEF vars, WereDelivered, WrittenByPhase, DeliveredOnce, WrittenOnce, NoneClosed
<1> QED
  <2>1. ASSUME Broker PROVE Rest'
    BY <1>1, <1>2, <1>3, <1>4, <2>1 DEF Broker
  <2>2. ASSUME NEW d \in Deliveries, Handler(d) PROVE Rest'
    BY <1>8, <1>9, <1>10, <1>11, <1>12, <2>2 DEF Handler
  <2>3. Rest'
    BY <1>5, <1>6, <1>13, <2>1, <2>2 DEF Next
  <2> QED
    BY <1>0, <2>3 DEF IInv

--------------------------------------------------------------------------------
(* The theorems *)

(* The variables of the RabbitMQ connector keep their types.                *)
THEOREM TypeCorrect == Spec => []TypeOK
<1> QED
  BY InitInv, NextInv, PTL DEF Spec, IInv

(* Each goroutine at work holds one slot, and no more than CONCURRENT work. *)
THEOREM SlotsAreExact == Spec => []SlotsCountHandlers
<1>1. IInv => SlotsCountHandlers
  <2> SUFFICES ASSUME IInv, NEW r \in Replicas
               PROVE  sem[r] = Cardinality(Handlers(r)) /\ Cardinality(Handlers(r)) <= CONCURRENT
    BY DEF SlotsCountHandlers
  <2>1. sem[r] = Cardinality(Handlers(r))
    BY DEF IInv, Slots
  <2>2. sem[r] <= CONCURRENT
    BY ConfigAssumption DEF IInv, TypeOK
  <2> QED
    BY <2>1, <2>2
<1> QED
  BY <1>1, InitInv, NextInv, PTL DEF Spec

(* While no channel is closed, a message is handled by one goroutine and    *)
(* has one outcome.                                                         *)
THEOREM ExactWhileOpen == Spec => []ExactWithoutClosing
<1>1. IInv => ExactWithoutClosing
  <2> SUFFICES ASSUME IInv, NoneClosed PROVE
        /\ \A d \in Deliveries : Cardinality(written[d]) <= 1
        /\ \A d, e \in Deliveries :
             Message(d) = Message(e) /\ phase[d] # "none" /\ phase[e] # "none" => d = e
    BY DEF ExactWithoutClosing, NoneClosed
  <2>1. \A d \in Deliveries : Cardinality(written[d]) <= 1
    <3>1. \A d \in Deliveries : written[d] \in {{}, {"response"}, {"error"}}
      BY DEF IInv, WrittenOnce
    <3>2. Cardinality({}) = 0 /\ Cardinality({"response"}) = 1 /\ Cardinality({"error"}) = 1
      BY FS_EmptySet, FS_Singleton
    <3> QED
      BY <3>1, <3>2
  <2>2. ASSUME NEW d \in Deliveries, phase[d] # "none" PROVE d = <<Message(d), 1>>
    <3>1. d = <<Message(d), d[2]>> /\ d[2] \in Nat \ {0} /\ Message(d) \in Messages
      BY IsDelivery
    <3>2. d[2] <= deliveries[Message(d)] /\ deliveries[Message(d)] \in {0, 1}
      BY <2>2, <3>1 DEF IInv, WereDelivered, DeliveredOnce
    <3>3. d[2] = 1
      BY <3>1, <3>2
    <3> QED
      BY <3>1, <3>3
  <2>3. ASSUME NEW d \in Deliveries, NEW e \in Deliveries, Message(d) = Message(e),
               phase[d] # "none", phase[e] # "none"
        PROVE  d = e
    BY <2>2, <2>3
  <2> QED
    BY <2>1, <2>3
<1> QED
  BY <1>1, InitInv, NextInv, PTL DEF Spec

--------------------------------------------------------------------------------
(* The connector implements AtLeastOnce. *)

(* Of n deliveries of a message, a set that lacks one has fewer than n, and *)
(* one more with it.                                                        *)
LEMMA OneMore ==
  ASSUME NEW m, NEW n \in Nat, NEW S \in SUBSET ({m} \X (1 .. n)), NEW d \in {m} \X (1 .. n), d \notin S
  PROVE  /\ Cardinality(S) \in Nat /\ Cardinality(S) < n
         /\ Cardinality(S \union {d}) = Cardinality(S) + 1
<1>1. IsFiniteSet({m}) /\ Cardinality({m}) = 1
  BY FS_Singleton
<1>2. IsFiniteSet(1 .. n) /\ Cardinality(1 .. n) = n
  BY FS_Interval
<1>3. IsFiniteSet({m} \X (1 .. n)) /\ Cardinality({m} \X (1 .. n)) = n
  BY <1>1, <1>2, FS_Product
<1>4. IsFiniteSet(S) /\ IsFiniteSet(S \union {d}) /\ Cardinality(S \union {d}) <= n
  BY <1>3, FS_Subset
<1>5. Cardinality(S \union {d}) = Cardinality(S) + 1
  BY <1>4, FS_AddElement
<1> QED
  BY <1>4, <1>5, FS_CardinalityType

LEMMA SomeCount ==
  ASSUME NEW m, NEW n \in Nat, NEW S \in SUBSET ({m} \X (1 .. n)), NEW d \in S
  PROVE  Cardinality(S) > 0
<1>1. IsFiniteSet(1 .. n)
  BY FS_Interval
<1>2. IsFiniteSet({m})
  BY FS_Singleton
<1>3. IsFiniteSet({m} \X (1 .. n))
  BY <1>1, <1>2, FS_Product
<1>4. IsFiniteSet(S)
  BY <1>3, FS_Subset
<1> QED
  BY <1>4, FS_CardinalityType, FS_EmptySet

Source(m) == CASE queue[m] = "new" -> "absent"
               [] queue[m] = "acked" -> "removed"
               [] OTHER -> "kept"
AnsweredOf(m) == Answered \intersect DeliveriesOf(m)
Concluded(m) == Cardinality(AnsweredOf(m))

LEMMA InitMaps == Init => Promise!Init
<1> SUFFICES ASSUME Init PROVE Promise!Init
  OBVIOUS
<1>1. \A m \in Messages : AnsweredOf(m) = {}
  BY DEF Init, Answered, AnsweredOf
<1>2. [m \in Messages |-> Concluded(m)] = [m \in Messages |-> 0]
  BY <1>1, FS_EmptySet DEF Concluded
<1>3. [m \in Messages |-> Source(m)] \in [Messages -> {"absent", "kept"}]
  BY DEF Init, Source
<1> QED
  BY <1>2, <1>3 DEF Init, Promise!Init, Source, Concluded, AnsweredOf

LEMMA AnsweredWasDelivered ==
  ASSUME IInv, NEW m \in Messages
  PROVE  deliveries[m] \in Nat /\ AnsweredOf(m) \in SUBSET ({m} \X (1 .. deliveries[m]))
<1>1. deliveries[m] \in Nat
  BY BoundsAssumption DEF IInv, TypeOK
<1>2. ASSUME NEW e \in AnsweredOf(m) PROVE e \in {m} \X (1 .. deliveries[m])
  <2>1. e \in Deliveries /\ Message(e) = m /\ e = <<Message(e), e[2]>> /\ e[2] \in Nat \ {0}
    BY IsDelivery DEF AnsweredOf, DeliveriesOf
  <2>2. phase[e] # "none"
    BY <2>1 DEF AnsweredOf, Answered, IInv, WrittenByPhase
  <2>3. e[2] <= deliveries[m]
    BY <2>1, <2>2 DEF IInv, WereDelivered
  <2>4. e[2] \in 1 .. deliveries[m]
    BY <1>1, <2>1, <2>3
  <2> QED
    BY <2>1, <2>4
<1> QED
  BY <1>1, <1>2

LEMMA NextMaps == IInv /\ [Next]_vars => [Promise!Next]_(Promise!vars)
<1> SUFFICES ASSUME IInv, [Next]_vars PROVE [Promise!Next]_(Promise!vars)
  OBVIOUS
<1>0. TypeOK /\ WereDelivered /\ WrittenByPhase
  BY DEF IInv
<1> DEFINE source == [m \in Messages |-> Source(m)]
           concluded == [m \in Messages |-> Concluded(m)]
<1>01. UNCHANGED <<source, deliveries, concluded>> => UNCHANGED Promise!vars
  BY DEF Promise!vars, Source, Concluded, AnsweredOf
<1>02. ASSUME \A d \in Deliveries : "response" \in written'[d] <=> "response" \in written[d]
       PROVE  concluded' = concluded
  <2>1. \A m \in Messages : AnsweredOf(m)' = AnsweredOf(m)
    BY <1>02 DEF AnsweredOf, Answered, DeliveriesOf
  <2> QED
    BY <2>1 DEF Concluded
<1>03. ASSUME queue' = queue PROVE source' = source
  BY <1>03 DEF Source
<1>1. ASSUME NEW m \in Messages, Enqueue(m) PROVE [Promise!Next]_(Promise!vars)
  <2>1. source[m] = "absent" /\ source' = [source EXCEPT ![m] = "kept"]
    BY <1>0, <1>1 DEF Enqueue, Source, TypeOK
  <2>2. concluded' = concluded /\ deliveries' = deliveries
    BY <1>1, <1>02 DEF Enqueue
  <2>3. Promise!Put(m)
    BY <2>1, <2>2 DEF Promise!Put, Source, Concluded, AnsweredOf
  <2> QED
    BY <2>3 DEF Promise!Next
<1>2. ASSUME NEW m \in Messages, NEW r \in Replicas, Deliver(m, r)
      PROVE  [Promise!Next]_(Promise!vars)
  <2>1. source[m] # "absent"
    BY <1>2 DEF Deliver, Source
  <2>2. source' = source
    BY <1>0, <1>2 DEF Deliver, Source, TypeOK
  <2>3. concluded' = concluded
    BY <1>2, <1>02 DEF Deliver
  <2>4. deliveries' = [n \in Messages |-> IF n \in {m} THEN deliveries[n] + 1 ELSE deliveries[n]]
    BY <1>0, <1>2 DEF Deliver, TypeOK
  <2>5. Promise!Deliver({m})
    BY <2>1, <2>2, <2>3, <2>4 DEF Promise!Deliver, Source, Concluded, AnsweredOf
  <2> QED
    BY <2>5 DEF Promise!Next
<1>3. ASSUME NEW r \in Replicas, CloseChannel(r) \/ CancelConsumer(r) PROVE UNCHANGED Promise!vars
  <2>1. source' = source
    BY <1>3 DEF CloseChannel, CancelConsumer, Source
  <2>2. deliveries' = deliveries /\ written' = written
    BY <1>3 DEF CloseChannel, CancelConsumer
  <2> QED
    BY <1>01, <1>02, <2>1, <2>2
<1>4. ASSUME NEW d \in Deliveries,
             Receive(d) \/ TakeSlot(d) \/ Respond(d) \/ Fail(d) \/ ReadBody(d) \/ ReleaseSlot(d)
      PROVE  UNCHANGED Promise!vars
  <2>1. deliveries' = deliveries /\ written' = written /\ queue' = queue
    BY <1>4 DEF Receive, TakeSlot, Respond, Fail, ReadBody, ReleaseSlot, Go
  <2> QED
    BY <1>01, <1>02, <1>03, <2>1
<1>5. ASSUME NEW d \in Deliveries, errorHandler(d) PROVE UNCHANGED Promise!vars
  <2>1. \A e \in Deliveries : "response" \in written'[e] <=> "response" \in written[e]
    BY <1>0, <1>5 DEF errorHandler, TypeOK
  <2>2. deliveries' = deliveries /\ queue' = queue
    BY <1>5 DEF errorHandler, Go
  <2> QED
    BY <1>01, <1>02, <1>03, <2>1, <2>2
<1>6. ASSUME NEW d \in Deliveries, responseHandler(d) PROVE [Promise!Next]_(Promise!vars)
  <2>1. deliveries' = deliveries /\ queue' = queue
    BY <1>6 DEF responseHandler, Go
  <2>2. CASE written' = written
    BY <1>01, <1>02, <1>03, <2>1, <2>2
  <2>3. CASE Go(d, "response", "ack") /\ written' = [written EXCEPT ![d] = @ \union {"response"}]
    <3>0. PICK m \in Messages : m = Message(d)
      BY IsDelivery
    <3>1. phase[d] = "response" /\ written[d] = {}
      BY <1>0, <2>3 DEF Go, WrittenByPhase
    <3>2. d \notin AnsweredOf(m)
      BY <3>1 DEF AnsweredOf, Answered
    <3>3. d \in {m} \X (1 .. deliveries[m])
      <4>1. d = <<m, d[2]>> /\ d[2] \in Nat \ {0}
        BY <3>0, IsDelivery
      <4>2. d[2] <= deliveries[m]
        BY <1>0, <3>0, <3>1 DEF WereDelivered
      <4> QED
        BY <4>1, <4>2, AnsweredWasDelivered
    <3>4. Concluded(m) < deliveries[m] /\ Cardinality(AnsweredOf(m) \union {d}) = Concluded(m) + 1
      BY <3>2, <3>3, AnsweredWasDelivered, OneMore DEF Concluded
    <3>5. \A e \in Deliveries : "response" \in written'[e] <=> e = d \/ "response" \in written[e]
      BY <1>0, <2>3 DEF TypeOK
    <3>6. AnsweredOf(m)' = AnsweredOf(m) \union {d}
      BY <3>0, <3>5 DEF AnsweredOf, Answered, DeliveriesOf
    <3>7. \A n \in Messages : n # m => AnsweredOf(n)' = AnsweredOf(n)
      BY <3>0, <3>5 DEF AnsweredOf, Answered, DeliveriesOf
    <3>8. concluded[m] < deliveries[m] /\ concluded' = [concluded EXCEPT ![m] = @ + 1]
      BY <3>4, <3>6, <3>7 DEF Concluded
    <3>9. Promise!Conclude(m)
      BY <1>03, <2>1, <3>8 DEF Promise!Conclude, Source, Concluded, AnsweredOf
    <3> QED
      BY <3>9 DEF Promise!Next
  <2> QED
    BY <1>6, <2>2, <2>3 DEF responseHandler
<1>7. ASSUME NEW d \in Deliveries, Ack(d) PROVE [Promise!Next]_(Promise!vars)
  <2>0. PICK m \in Messages : m = Message(d)
    BY IsDelivery
  <2>1. deliveries' = deliveries /\ concluded' = concluded
    BY <1>7, <1>02 DEF Ack, Go
  <2>2. CASE queue' = queue
    BY <1>01, <1>03, <2>1, <2>2
  <2>3. CASE queue' = [queue EXCEPT ![m] = "acked"] /\ queue[m] = "acked"
    <3>1. queue' = queue
      BY <1>0, <2>3 DEF TypeOK
    <3> QED
      BY <2>2, <3>1
  <2>4. CASE queue' = [queue EXCEPT ![m] = "acked"] /\ queue[m] # "acked"
    <3>1. phase[d] = "ack" /\ d \in AnsweredOf(m)
      BY <1>0, <1>7, <2>0 DEF Ack, Go, WrittenByPhase, AnsweredOf, Answered, DeliveriesOf
    <3>2. concluded[m] > 0
      BY <3>1, AnsweredWasDelivered, SomeCount DEF Concluded
    <3>3. queue[m] # "new"
      <4>1. d[2] \in Nat \ {0} /\ d[2] <= deliveries[m]
        BY <1>0, <2>0, <3>1, IsDelivery DEF WereDelivered
      <4> QED
        BY <1>0, <4>1 DEF WereDelivered
    <3>4. source[m] = "kept" /\ source' = [source EXCEPT ![m] = "removed"]
      BY <1>0, <2>4, <3>3 DEF Source, TypeOK
    <3>5. Promise!Remove(m)
      BY <2>1, <3>2, <3>4 DEF Promise!Remove, Source, Concluded, AnsweredOf
    <3> QED
      BY <3>5 DEF Promise!Next
  <2> QED
    BY <1>7, <2>0, <2>2, <2>3, <2>4 DEF Ack
<1>8. CASE UNCHANGED vars
  BY <1>8, <1>01, <1>02, <1>03 DEF vars
<1> QED
  <2>1. CASE Broker
    BY <1>1, <1>2, <1>3, <2>1 DEF Broker
  <2>2. ASSUME NEW d \in Deliveries, Handler(d) PROVE [Promise!Next]_(Promise!vars)
    BY <1>4, <1>5, <1>6, <1>7, <2>2 DEF Handler
  <2> QED
    BY <1>4, <1>8, <2>1, <2>2 DEF Next

(* A message leaves the queue only when one of its deliveries was answered, *)
(* and a message has no more answers than deliveries.                       *)
THEOREM ImplementsAtLeastOnce == Spec => RefinesAtLeastOnce
<1> QED
  BY InitMaps, NextMaps, InitInv, NextInv, PTL DEF Spec, RefinesAtLeastOnce, Promise!Spec

================================================================================
