------------------------ MODULE JetStreamConnector_proofs ------------------------
(***************************************************************************)
(* Proofs about the JetStream connector, for any number of messages,       *)
(* deliveries and processes and any CONCURRENT: the semaphore counts the   *)
(* goroutines, what is acknowledged has concluded, and it comes again only *)
(* when its consumer was deleted.                                          *)
(***************************************************************************)
EXTENDS JetStreamConnector, FiniteSetTheorems, TLAPS

(* What the library holds waits for the callback, each delivery once.       *)
Held ==
  /\ \A i \in 1 .. Len(inbox) : phase[inbox[i]] = "waiting" /\ inbox[i] # callback
  /\ \A i, j \in 1 .. Len(inbox) : i # j => inbox[i] # inbox[j]
  /\ callback # Nobody => phase[callback] = "waiting"

WereDelivered == \A d \in Deliveries : phase[d] # "none" => d[2] <= deliveries[Message(d)]

(* A delivery concludes on its way to the acknowledgement.                  *)
ConcludedByPhase ==
  \A d \in Deliveries :
    /\ phase[d] \in {"none", "waiting", "invoke", "body", "response"} => d \notin concluded
    /\ phase[d] \in {"error", "ack"} => d \in concluded

(* Until it is deleted, the consumer remembers every acknowledgement.       *)
Remembered == ~deleted => everAcked \subseteq acked /\ (~exists => everAcked = {})

(* Each goroutine at work has its slot.                                     *)
Slots == IsFiniteSet(Handlers) /\ slots = Cardinality(Handlers)

IInv == TypeOK /\ Held /\ WereDelivered /\ ConcludedByPhase /\ Remembered /\ Slots

LEMMA ConcurrencyIsPositive == Concurrency \in Nat \ {0}
  BY ConfigAssumption DEF Concurrency

LEMMA NobodyIsNoDelivery == Nobody \notin Deliveries
  BY DEF Nobody, Deliveries

LEMMA InitInv == Init => IInv
<1> SUFFICES ASSUME Init PROVE IInv
  OBVIOUS
<1>1. TypeOK
  <2>1. 0 \in 0 .. Concurrency /\ 0 \in 0 .. MaxDeliveries /\ 0 \in 0 .. MaxRestarts
    BY BoundsAssumption, ConcurrencyIsPositive
  <2>2. <<>> \in Seq(Deliveries)
    OBVIOUS
  <2> QED
    BY <2>1, <2>2 DEF Init, TypeOK
<1>2. Held /\ WereDelivered /\ ConcludedByPhase /\ Remembered
  BY DEF Init, Held, WereDelivered, ConcludedByPhase, Remembered
<1>3. Handlers = {}
  BY DEF Init, Handlers, Working
<1>4. Slots
  BY <1>3, FS_EmptySet DEF Init, Slots
<1> QED
  BY <1>1, <1>2, <1>4 DEF IInv

--------------------------------------------------------------------------------
(* Facts about sequences and deliveries *)

LEMMA AppendFacts ==
  ASSUME NEW S, NEW s \in Seq(S), NEW e \in S
  PROVE  /\ Append(s, e) \in Seq(S) /\ Len(s) \in Nat /\ Len(Append(s, e)) = Len(s) + 1
         /\ \A i \in 1 .. Len(s) : Append(s, e)[i] = s[i]
         /\ Append(s, e)[Len(s) + 1] = e
OBVIOUS

LEMMA TailFacts ==
  ASSUME NEW S, NEW s \in Seq(S), s # <<>>
  PROVE  /\ Tail(s) \in Seq(S) /\ Len(s) \in Nat \ {0} /\ Len(Tail(s)) = Len(s) - 1
         /\ Head(s) = s[1] /\ s[1] \in S
         /\ \A i \in 1 .. Len(s) - 1 : Tail(s)[i] = s[i + 1]
OBVIOUS

LEMMA IsDelivery ==
  ASSUME NEW d \in Deliveries
  PROVE  /\ Message(d) \in Messages /\ d[2] \in 1 .. MaxDeliveries /\ d[2] \in Nat \ {0}
         /\ d = <<Message(d), d[2]>> /\ d # Nobody
BY BoundsAssumption, NobodyIsNoDelivery DEF Deliveries, Message

LEMMA NewDelivery ==
  ASSUME TypeOK, WereDelivered, NEW m \in Messages, deliveries[m] < MaxDeliveries
  PROVE  /\ <<m, deliveries[m] + 1>> \in Deliveries /\ phase[<<m, deliveries[m] + 1>>] = "none"
         /\ deliveries[m] \in Nat
<1>1. deliveries[m] \in Nat /\ deliveries[m] + 1 \in 1 .. MaxDeliveries
  BY BoundsAssumption DEF TypeOK
<1>2. <<m, deliveries[m] + 1>> \in Deliveries
  BY <1>1 DEF Deliveries
<1> QED
  BY <1>1, <1>2 DEF WereDelivered, Message

(* What Go changes, and that it disturbs nothing that waits.                *)
LEMMA GoFacts ==
  ASSUME TypeOK, Held, NEW d \in Deliveries, NEW from \in Working, NEW to, Go(d, from, to)
  PROVE  /\ \A e \in Deliveries : phase'[e] = IF e = d THEN to ELSE phase[e]
         /\ phase[d] = from
         /\ exists' = exists /\ owned' = owned /\ deliveries' = deliveries /\ inbox' = inbox
         /\ callback' = callback /\ main' = main /\ restarts' = restarts
         /\ Held'
<1>1. \A e \in Deliveries : phase'[e] = IF e = d THEN to ELSE phase[e]
  BY DEF Go, TypeOK
<1>2. phase[d] = from /\ from # "waiting"
  BY DEF Go, Working
<1>3. /\ exists' = exists /\ owned' = owned /\ deliveries' = deliveries /\ inbox' = inbox
      /\ callback' = callback /\ main' = main /\ restarts' = restarts
  BY DEF Go
<1>4. \A i \in 1 .. Len(inbox) : inbox[i] \in Deliveries
  BY DEF TypeOK
<1>5. Held'
  BY <1>1, <1>2, <1>3, <1>4 DEF Held, TypeOK
<1> QED
  BY <1>1, <1>2, <1>3, <1>5

LEMMA OneEnds ==
  ASSUME NEW d \in Deliveries, Slots, phase[d] = "release",
         \A e \in Deliveries : phase'[e] = IF e = d THEN "done" ELSE phase[e]
  PROVE  slots > 0 /\ IsFiniteSet(Handlers') /\ Cardinality(Handlers') = slots - 1
<1>1. d \in Handlers /\ Handlers' = Handlers \ {d}
  BY DEF Handlers, Working
<1>2. slots \in Nat /\ slots # 0
  BY <1>1, FS_CardinalityType, FS_EmptySet DEF Slots
<1> QED
  BY <1>1, <1>2, FS_RemoveElement DEF Slots

LEMMA OneStarts ==
  ASSUME NEW d \in Deliveries, Slots, phase[d] = "waiting",
         \A e \in Deliveries : phase'[e] = IF e = d THEN "invoke" ELSE phase[e]
  PROVE  IsFiniteSet(Handlers') /\ Cardinality(Handlers') = slots + 1
<1>1. d \notin Handlers /\ Handlers' = Handlers \union {d}
  BY DEF Handlers, Working
<1> QED
  BY <1>1, FS_AddElement DEF Slots

--------------------------------------------------------------------------------
(* Every step keeps the types. *)

LEMMA TypeStep == IInv /\ [Next]_vars => TypeOK'
<1> SUFFICES ASSUME IInv, [Next]_vars PROVE TypeOK'
  OBVIOUS
<1>0. TypeOK /\ Concurrency' = Concurrency
  BY DEF IInv, Concurrency
<1> USE DEF server, history
<1> DEFINE Phases == Working \union {"none", "waiting", "done", "lost"}
<1>1. CASE Subscribe
  BY <1>0, <1>1 DEF Subscribe, TypeOK
<1>2. ASSUME NEW m \in Messages, Deliver(m) PROVE TypeOK'
  <2> DEFINE new == <<m, deliveries[m] + 1>>
  <2>1. new \in Deliveries
    BY <1>2, NewDelivery DEF Deliver, IInv
  <2>2. deliveries' \in [Messages -> 0 .. MaxDeliveries]
    BY <1>0, <1>2, BoundsAssumption DEF Deliver, TypeOK
  <2>3. inbox' = Append(inbox, new) /\ phase' = [phase EXCEPT ![new] = "waiting"]
    BY <1>2 DEF Deliver
  <2> HIDE DEF new
  <2>4. inbox' \in Seq(Deliveries) /\ phase' \in [Deliveries -> Phases]
    BY <1>0, <2>1, <2>3, AppendFacts DEF TypeOK
  <2> QED
    BY <1>0, <1>2, <2>2, <2>4 DEF Deliver, TypeOK
<1>3. CASE Call
  <2>1. inbox' \in Seq(Deliveries) /\ callback' \in Deliveries
    BY <1>0, <1>3, TailFacts DEF Call, TypeOK
  <2> QED
    BY <1>0, <1>3, <2>1 DEF Call, TypeOK
<1>4. CASE TakeSlot
  <2>1. slots' \in 0 .. Concurrency
    BY <1>0, <1>4, ConcurrencyIsPositive DEF TakeSlot, TypeOK
  <2>2. phase' \in [Deliveries -> Phases]
    BY <1>0, <1>4 DEF TakeSlot, TypeOK, Working
  <2> QED
    BY <1>0, <1>4, <2>1, <2>2 DEF TakeSlot, TypeOK
<1>5. CASE SendOnClosed \/ CloseSem \/ Interrupt \/ Unsubscribe
  BY <1>0, <1>5 DEF SendOnClosed, CloseSem, Interrupt, Unsubscribe, TypeOK
<1>6. CASE End
  <2>1. slots' \in 0 .. Concurrency
    BY <1>6, ConcurrencyIsPositive DEF End
  <2>2. phase' \in [Deliveries -> Phases]
    BY <1>0, <1>6 DEF End, TypeOK
  <2>3. inbox' \in Seq(Deliveries)
    BY <1>6 DEF End
  <2> QED
    BY <1>0, <1>6, <2>1, <2>2, <2>3 DEF End, TypeOK
<1>7. CASE Restart
  BY <1>0, <1>7, BoundsAssumption DEF Restart, TypeOK
<1>8. ASSUME NEW d \in Deliveries, Respond(d) \/ Fail(d) \/ ReadBody(d) \/ errorHandler(d) \/ responseHandler(d)
      PROVE  TypeOK'
  <2>1. phase' \in [Deliveries -> Phases]
    BY <1>0, <1>8 DEF Respond, Fail, ReadBody, errorHandler, responseHandler, Go, TypeOK, Working
  <2>2. concluded' \subseteq Deliveries
    BY <1>0, <1>8 DEF Respond, Fail, ReadBody, errorHandler, responseHandler, TypeOK
  <2>3. UNCHANGED <<exists, owned, acked, deliveries, inbox, callback, slots, main, restarts, everAcked, deleted>>
    BY <1>8 DEF Respond, Fail, ReadBody, errorHandler, responseHandler, Go
  <2> QED
    BY <1>0, <2>1, <2>2, <2>3 DEF TypeOK
<1>9. ASSUME NEW d \in Deliveries, acknowledgeMsg(d) PROVE TypeOK'
  <2>1. phase' \in [Deliveries -> Phases]
    BY <1>0, <1>9 DEF acknowledgeMsg, Go, TypeOK, Working
  <2>2. acked' \subseteq Messages /\ everAcked' \subseteq Messages
    BY <1>0, <1>9, IsDelivery DEF acknowledgeMsg, TypeOK
  <2>3. UNCHANGED <<exists, owned, deliveries, inbox, callback, slots, main, restarts, concluded, deleted>>
    BY <1>9 DEF acknowledgeMsg, Go
  <2> QED
    BY <1>0, <2>1, <2>2, <2>3 DEF TypeOK
<1>10. ASSUME NEW d \in Deliveries, ReleaseSlot(d) PROVE TypeOK'
  <2>1. phase' \in [Deliveries -> Phases]
    BY <1>0, <1>10 DEF ReleaseSlot, Go, TypeOK
  <2>2. slots' \in 0 .. Concurrency
    BY <1>0, <1>10, ConcurrencyIsPositive DEF ReleaseSlot, TypeOK
  <2>3. UNCHANGED <<exists, owned, deliveries, inbox, callback, main, restarts, acked, history>>
    BY <1>10 DEF ReleaseSlot, Go
  <2> QED
    BY <1>0, <2>1, <2>2, <2>3 DEF TypeOK
<1>11. CASE UNCHANGED vars
  BY <1>0, <1>11 DEF vars, TypeOK
<1> QED
  <2>1. CASE Process \/ Interrupt \/ End \/ Restart
    BY <1>1, <1>3, <1>4, <1>5, <1>6, <1>7, <2>1 DEF Process
  <2>2. ASSUME NEW d \in Deliveries, Handler(d) PROVE TypeOK'
    BY <1>8, <1>9, <1>10, <2>2 DEF Handler
  <2> QED
    BY <1>2, <1>11, <2>1, <2>2 DEF Next

--------------------------------------------------------------------------------
(* Every step keeps the invariant. *)

LEMMA NextInv == IInv /\ [Next]_vars => IInv'
<1> SUFFICES ASSUME IInv, [Next]_vars PROVE IInv'
  OBVIOUS
<1>0. TypeOK /\ TypeOK'
  BY TypeStep DEF IInv
<1> DEFINE Rest == Held /\ WereDelivered /\ ConcludedByPhase /\ Remembered /\ Slots
<1>01. Rest
  BY DEF IInv
<1>02. ASSUME slots' = slots, \A d \in Deliveries : phase'[d] \in Working <=> phase[d] \in Working
       PROVE  Slots'
  <2>1. Handlers' = Handlers
    BY <1>02 DEF Handlers
  <2> QED
    BY <1>01, <1>02, <2>1 DEF Slots
<1>03. ASSUME UNCHANGED <<inbox, callback, phase, deliveries, concluded, slots>>, Remembered'
       PROVE  Rest'
  BY <1>01, <1>02, <1>03 DEF Held, WereDelivered, ConcludedByPhase
<1>04. ASSUME UNCHANGED <<exists, acked, everAcked, deleted>> PROVE Remembered'
  BY <1>01, <1>04 DEF Remembered
<1>05. \A i \in 1 .. Len(inbox) : inbox[i] \in Deliveries
  BY <1>0 DEF TypeOK
<1> USE DEF server, history
<1>1. ASSUME Subscribe PROVE Rest'
  <2>1. Remembered'
    BY <1>01, <1>1 DEF Subscribe, Remembered
  <2> QED
    BY <1>1, <1>03, <2>1 DEF Subscribe
<1>2. ASSUME NEW m \in Messages, Deliver(m) PROVE Rest'
  <2> DEFINE new == <<m, deliveries[m] + 1>>
  <2>1. new \in Deliveries /\ phase[new] = "none" /\ deliveries[m] \in Nat
    BY <1>0, <1>01, <1>2, NewDelivery DEF Deliver
  <2>2. Message(new) = m /\ new[2] = deliveries[m] + 1
    BY DEF Message
  <2>3. /\ inbox' = Append(inbox, new) /\ phase' = [phase EXCEPT ![new] = "waiting"]
        /\ deliveries' = [deliveries EXCEPT ![m] = @ + 1]
        /\ callback' = callback /\ slots' = slots /\ concluded' = concluded
        /\ UNCHANGED <<exists, acked, everAcked, deleted>>
    BY <1>2 DEF Deliver
  <2> HIDE DEF new
  <2>4. /\ \A d \in Deliveries : phase'[d] = IF d = new THEN "waiting" ELSE phase[d]
        /\ \A n \in Messages : /\ deliveries'[n] = IF n = m THEN deliveries[m] + 1 ELSE deliveries[n]
                               /\ deliveries[n] \in Nat
    BY <1>0, <2>1, <2>3 DEF TypeOK
  <2>5. Held'
    <3>1. /\ Len(inbox) \in Nat /\ Len(inbox') = Len(inbox) + 1
          /\ \A i \in 1 .. Len(inbox) : inbox'[i] = inbox[i]
          /\ inbox'[Len(inbox) + 1] = new
      BY <1>0, <2>1, <2>3, AppendFacts DEF TypeOK
    <3>2. \A i \in 1 .. Len(inbox) : inbox[i] # new
      BY <1>01, <2>1 DEF Held
    <3>3. callback # new
      BY <1>01, <2>1, IsDelivery DEF Held
    <3>4. callback # Nobody => callback \in Deliveries
      BY <1>0 DEF TypeOK
    <3>5. \A i \in 1 .. Len(inbox') : i \in 1 .. Len(inbox) \/ i = Len(inbox) + 1
      BY <3>1
    <3>6. \A i \in 1 .. Len(inbox') : phase'[inbox'[i]] = "waiting" /\ inbox'[i] # callback'
      BY <1>01, <1>05, <2>1, <2>3, <2>4, <3>1, <3>2, <3>3, <3>5 DEF Held
    <3>7. \A i, j \in 1 .. Len(inbox') : i # j => inbox'[i] # inbox'[j]
      BY <1>01, <3>1, <3>2, <3>5 DEF Held
    <3>8. callback' # Nobody => phase'[callback'] = "waiting"
      BY <1>01, <2>3, <2>4, <3>4 DEF Held
    <3> QED
      BY <3>6, <3>7, <3>8 DEF Held
  <2>6. WereDelivered'
    BY <1>01, <2>1, <2>2, <2>4, IsDelivery DEF WereDelivered
  <2>7. ConcludedByPhase'
    BY <1>01, <2>1, <2>3, <2>4 DEF ConcludedByPhase
  <2>8. Slots'
    BY <1>02, <2>1, <2>3, <2>4 DEF Working
  <2> QED
    BY <1>04, <2>3, <2>5, <2>6, <2>7, <2>8
<1>3. ASSUME Call PROVE Rest'
  <2>1. /\ callback = Nobody /\ callback' = Head(inbox) /\ inbox' = Tail(inbox) /\ inbox # <<>>
        /\ UNCHANGED <<server, phase, slots, history>>
    BY <1>3 DEF Call
  <2>2. /\ Len(inbox) \in Nat \ {0} /\ Len(inbox') = Len(inbox) - 1 /\ callback' = inbox[1]
        /\ \A i \in 1 .. Len(inbox) - 1 : inbox'[i] = inbox[i + 1]
    BY <1>0, <2>1, TailFacts DEF TypeOK
  <2>3. \A i \in 1 .. Len(inbox') : i + 1 \in 1 .. Len(inbox) /\ i + 1 # 1 /\ inbox'[i] = inbox[i + 1]
    BY <2>2
  <2>4. 1 \in 1 .. Len(inbox)
    BY <2>2
  <2>5. \A i \in 1 .. Len(inbox') : phase'[inbox'[i]] = "waiting" /\ inbox'[i] # callback'
    BY <1>01, <2>1, <2>2, <2>3, <2>4 DEF Held
  <2>6. \A i, j \in 1 .. Len(inbox') : i # j => i + 1 # j + 1
    BY <2>2
  <2>7. \A i, j \in 1 .. Len(inbox') : i # j => inbox'[i] # inbox'[j]
    BY <1>01, <2>3, <2>6 DEF Held
  <2>8. phase'[callback'] = "waiting"
    BY <1>01, <2>1, <2>2, <2>4 DEF Held
  <2>9. Held'
    BY <2>5, <2>7, <2>8 DEF Held
  <2> QED
    BY <1>01, <1>02, <1>04, <2>1, <2>9 DEF WereDelivered, ConcludedByPhase
<1>4. ASSUME TakeSlot PROVE Rest'
  <2>1. /\ callback # Nobody /\ callback' = Nobody /\ callback \in Deliveries
        /\ phase[callback] = "waiting"
    BY <1>0, <1>01, <1>4 DEF TakeSlot, TypeOK, Held
  <2>2. /\ \A d \in Deliveries : phase'[d] = IF d = callback THEN "invoke" ELSE phase[d]
        /\ slots' = slots + 1 /\ inbox' = inbox /\ deliveries' = deliveries /\ concluded' = concluded
        /\ UNCHANGED <<exists, acked, everAcked, deleted>>
    BY <1>0, <1>4 DEF TakeSlot, TypeOK
  <2>3. Held'
    BY <1>01, <1>05, <2>1, <2>2, NobodyIsNoDelivery DEF Held
  <2>4. WereDelivered' /\ ConcludedByPhase'
    BY <1>01, <2>1, <2>2 DEF WereDelivered, ConcludedByPhase
  <2>5. Slots'
    BY <1>01, <2>1, <2>2, OneStarts DEF Slots
  <2> QED
    BY <1>04, <2>2, <2>3, <2>4, <2>5
<1>5. ASSUME SendOnClosed \/ CloseSem \/ Interrupt \/ Restart PROVE Rest'
  BY <1>03, <1>04, <1>5 DEF SendOnClosed, CloseSem, Interrupt, Restart
<1>6. ASSUME Unsubscribe PROVE Rest'
  <2>1. Remembered'
    BY <1>0, <1>01, <1>6 DEF Unsubscribe, Remembered, TypeOK
  <2> QED
    BY <1>6, <1>03, <2>1 DEF Unsubscribe
<1>7. ASSUME End PROVE Rest'
  <2>1. /\ inbox' = <<>> /\ callback' = Nobody /\ slots' = 0 /\ deliveries' = deliveries
        /\ \A d \in Deliveries : IF phase[d] \in Working \union {"waiting"} THEN phase'[d] = "lost"
                                 ELSE phase'[d] = phase[d]
        /\ UNCHANGED <<exists, acked, everAcked, concluded, deleted>>
    BY <1>7 DEF End
  <2>2. Held'
    BY <2>1 DEF Held
  <2>3. WereDelivered' /\ ConcludedByPhase'
    BY <1>01, <2>1 DEF WereDelivered, ConcludedByPhase, Working
  <2>4. Handlers' = {}
    BY <2>1 DEF Handlers, Working
  <2>5. Slots'
    BY <2>1, <2>4, FS_EmptySet DEF Slots
  <2> QED
    BY <1>04, <2>1, <2>2, <2>3, <2>5
<1>8. ASSUME NEW d \in Deliveries, NEW from \in Working \ {"release"}, NEW to \in Working \ {"invoke"}, Go(d, from, to),
             slots' = slots, Remembered',
             concluded' \in {concluded, concluded \union {d}},
             to \in {"body", "response"} => from \in {"invoke", "body"} /\ concluded' = concluded,
             to \in {"error", "ack"} => from = "error" \/ d \in concluded'
      PROVE  Rest'
  <2>1. /\ \A e \in Deliveries : phase'[e] = IF e = d THEN to ELSE phase[e]
        /\ phase[d] = from /\ deliveries' = deliveries /\ Held'
    BY <1>0, <1>01, <1>8, GoFacts
  <2>2. from # "none"
    BY DEF Working
  <2>3. WereDelivered'
    BY <1>01, <2>1, <2>2 DEF WereDelivered
  <2>4. ConcludedByPhase'
    BY <1>01, <1>8, <2>1 DEF ConcludedByPhase, Working
  <2>5. Slots'
    BY <1>02, <1>8, <2>1
  <2> QED
    BY <1>8, <2>1, <2>3, <2>4, <2>5
<1>9. ASSUME NEW d \in Deliveries, Respond(d) \/ Fail(d) \/ ReadBody(d) \/ errorHandler(d) \/ responseHandler(d)
      PROVE  Rest'
  <2>1. Remembered' /\ slots' = slots
    BY <1>04, <1>9 DEF Respond, Fail, ReadBody, errorHandler, responseHandler, Go
  <2> QED
    BY <1>8, <1>9, <2>1 DEF Respond, Fail, ReadBody, errorHandler, responseHandler, Working
<1>10. ASSUME NEW d \in Deliveries, acknowledgeMsg(d) PROVE Rest'
  <2>1. Go(d, "ack", "release") /\ slots' = slots /\ concluded' = concluded
    BY <1>10 DEF acknowledgeMsg
  <2>2. Remembered'
    BY <1>01, <1>10 DEF acknowledgeMsg, Go, Remembered
  <2> QED
    BY <1>8, <2>1, <2>2 DEF Working
<1>11. ASSUME NEW d \in Deliveries, ReleaseSlot(d) PROVE Rest'
  <2>1. Go(d, "release", "done") /\ concluded' = concluded /\ slots' = (IF slots > 0 THEN slots - 1 ELSE 0)
    BY <1>11 DEF ReleaseSlot
  <2>2. /\ \A e \in Deliveries : phase'[e] = IF e = d THEN "done" ELSE phase[e]
        /\ phase[d] = "release" /\ deliveries' = deliveries /\ Held'
    BY <1>0, <1>01, <2>1, GoFacts DEF Working
  <2>3. Remembered'
    BY <1>04, <1>11 DEF ReleaseSlot, Go
  <2>4. WereDelivered' /\ ConcludedByPhase'
    BY <1>01, <2>1, <2>2 DEF WereDelivered, ConcludedByPhase
  <2>5. Slots'
    BY <1>01, <2>1, <2>2, OneEnds DEF Slots
  <2> QED
    BY <2>2, <2>3, <2>4, <2>5
<1>12. ASSUME UNCHANGED vars PROVE Rest'
  BY <1>03, <1>04, <1>12 DEF vars
<1> QED
  <2>1. ASSUME Process \/ Interrupt \/ End \/ Restart PROVE Rest'
    BY <1>1, <1>3, <1>4, <1>5, <1>6, <1>7, <2>1 DEF Process
  <2>2. ASSUME NEW d \in Deliveries, Handler(d) PROVE Rest'
    BY <1>9, <1>10, <1>11, <2>2 DEF Handler
  <2>3. Rest'
    BY <1>2, <1>12, <2>1, <2>2 DEF Next
  <2> QED
    BY <1>0, <2>3 DEF IInv

--------------------------------------------------------------------------------
(* The theorems *)

(* The variables of the JetStream connector keep their types.               *)
THEOREM TypeCorrect == Spec => []TypeOK
<1> QED
  BY InitInv, NextInv, PTL DEF Spec, IInv

(* The semaphore holds one element per goroutine, and never more than the   *)
(* concurrency.                                                             *)
THEOREM SlotsAreExact == Spec => []SlotsCountHandlers
<1>1. IInv => SlotsCountHandlers
  <2> SUFFICES ASSUME IInv PROVE slots = Cardinality(Handlers) /\ Cardinality(Handlers) <= Concurrency
    BY DEF SlotsCountHandlers
  <2>1. slots = Cardinality(Handlers)
    BY DEF IInv, Slots
  <2>2. slots <= Concurrency
    BY ConcurrencyIsPositive DEF IInv, TypeOK
  <2> QED
    BY <2>1, <2>2
<1> QED
  BY <1>1, InitInv, NextInv, PTL DEF Spec

(* What was acknowledged is not delivered again, unless Unsubscribe has     *)
(* deleted the consumer.                                                    *)
THEOREM AcknowledgedStays == Spec => AckedIsNeverRedelivered
<1>1. IInv /\ [Next]_vars => [~deleted => \A m \in everAcked : deliveries'[m] = deliveries[m]]_vars
  <2> SUFFICES ASSUME IInv, [Next]_vars, ~deleted, NEW m \in everAcked
               PROVE  deliveries'[m] = deliveries[m]
    OBVIOUS
  <2>1. m \in acked /\ m \in Messages
    BY DEF IInv, Remembered, TypeOK
  <2>2. ASSUME NEW n \in Messages, Deliver(n) PROVE deliveries'[m] = deliveries[m]
    BY <2>1, <2>2 DEF Deliver, IInv, TypeOK
  <2>3. CASE Process \/ Interrupt \/ End \/ Restart
    BY <2>3 DEF Process, Subscribe, Call, TakeSlot, SendOnClosed, Unsubscribe, CloseSem, Interrupt,
       End, Restart, server
  <2>4. ASSUME NEW d \in Deliveries, Handler(d) PROVE deliveries'[m] = deliveries[m]
    BY <2>4 DEF Handler, Respond, Fail, ReadBody, errorHandler, responseHandler, acknowledgeMsg, ReleaseSlot, Go
  <2>5. CASE UNCHANGED vars
    BY <2>5 DEF vars, server
  <2> QED
    BY <2>2, <2>3, <2>4, <2>5 DEF Next
<1> QED
  BY <1>1, InitInv, NextInv, PTL DEF Spec, AckedIsNeverRedelivered

--------------------------------------------------------------------------------
(* The connector implements AtLeastOnce. *)

(* Of n deliveries of a message, a set that lacks one has fewer than n, and *)
(* one more with it.                                                        *)
LEMMA OneMore ==
  ASSUME NEW m, NEW n \in Nat, NEW S \in SUBSET ({m} \X (1 .. n)), NEW d \in {m} \X (1 .. n), d \notin S
  PROVE  /\ Cardinality(S) \in Nat /\ Cardinality(S) < n
         /\ Cardinality(S \union {d}) = Cardinality(S) + 1
<1>1. IsFiniteSet({m}) /\ Cardinality({m}) = 1
  BY FS_Singleton
<1>2. IsFiniteSet(1 .. n) /\ Cardinality(1 .. n) = n
  BY FS_Interval
<1>3. IsFiniteSet({m} \X (1 .. n)) /\ Cardinality({m} \X (1 .. n)) = n
  BY <1>1, <1>2, FS_Product
<1>4. IsFiniteSet(S) /\ IsFiniteSet(S \union {d}) /\ Cardinality(S \union {d}) <= n
  BY <1>3, FS_Subset
<1>5. Cardinality(S \union {d}) = Cardinality(S) + 1
  BY <1>4, FS_AddElement
<1> QED
  BY <1>4, <1>5, FS_CardinalityType

LEMMA SomeCount ==
  ASSUME NEW m, NEW n \in Nat, NEW S \in SUBSET ({m} \X (1 .. n)), NEW d \in S
  PROVE  Cardinality(S) > 0
<1>1. IsFiniteSet(1 .. n)
  BY FS_Interval
<1>2. IsFiniteSet({m})
  BY FS_Singleton
<1>3. IsFiniteSet({m} \X (1 .. n))
  BY <1>1, <1>2, FS_Product
<1>4. IsFiniteSet(S)
  BY <1>3, FS_Subset
<1> QED
  BY <1>4, FS_CardinalityType, FS_EmptySet

Source(m) == IF m \in everAcked THEN "removed" ELSE "kept"
ConcludedOf(m) == concluded \intersect DeliveriesOf(m)
Concluded(m) == Cardinality(ConcludedOf(m))

LEMMA InitMaps == Init => Promise!Init
<1> SUFFICES ASSUME Init PROVE Promise!Init
  OBVIOUS
<1>1. \A m \in Messages : ConcludedOf(m) = {}
  BY DEF Init, ConcludedOf
<1>2. [m \in Messages |-> Concluded(m)] = [m \in Messages |-> 0]
  BY <1>1, FS_EmptySet DEF Concluded
<1>3. [m \in Messages |-> Source(m)] \in [Messages -> {"absent", "kept"}]
  BY DEF Init, Source
<1> QED
  BY <1>2, <1>3 DEF Init, Promise!Init, Source, Concluded, ConcludedOf

LEMMA ConcludedWasDelivered ==
  ASSUME IInv, NEW m \in Messages
  PROVE  deliveries[m] \in Nat /\ ConcludedOf(m) \in SUBSET ({m} \X (1 .. deliveries[m]))
<1>1. deliveries[m] \in Nat
  BY BoundsAssumption DEF IInv, TypeOK
<1>2. ASSUME NEW e \in ConcludedOf(m) PROVE e \in {m} \X (1 .. deliveries[m])
  <2>1. e \in Deliveries /\ Message(e) = m /\ e = <<Message(e), e[2]>> /\ e[2] \in Nat \ {0}
    BY IsDelivery DEF ConcludedOf, DeliveriesOf
  <2>2. phase[e] # "none"
    BY <2>1 DEF ConcludedOf, IInv, ConcludedByPhase
  <2>3. e[2] <= deliveries[m]
    BY <2>1, <2>2 DEF IInv, WereDelivered
  <2>4. e[2] \in 1 .. deliveries[m]
    BY <1>1, <2>1, <2>3
  <2> QED
    BY <2>1, <2>4
<1> QED
  BY <1>1, <1>2

LEMMA NextMaps == IInv /\ [Next]_vars => [Promise!Next]_(Promise!vars)
<1> SUFFICES ASSUME IInv, [Next]_vars PROVE [Promise!Next]_(Promise!vars)
  OBVIOUS
<1>0. TypeOK /\ WereDelivered /\ ConcludedByPhase
  BY DEF IInv
<1> DEFINE source == [m \in Messages |-> Source(m)]
           counts == [m \in Messages |-> Concluded(m)]
<1>01. UNCHANGED <<source, deliveries, counts>> => UNCHANGED Promise!vars
  BY DEF Promise!vars, Source, Concluded, ConcludedOf
<1>02. ASSUME concluded' = concluded PROVE counts' = counts
  BY <1>02 DEF Concluded, ConcludedOf, DeliveriesOf
<1>03. ASSUME everAcked' = everAcked PROVE source' = source
  BY <1>03 DEF Source
<1> USE DEF server, history
<1>1. CASE Process \/ Interrupt \/ End \/ Restart
  <2>1. deliveries' = deliveries /\ everAcked' = everAcked /\ concluded' = concluded
    BY <1>1 DEF Process, Subscribe, Call, TakeSlot, SendOnClosed, Unsubscribe, CloseSem, Interrupt,
       End, Restart
  <2> QED
    BY <1>01, <1>02, <1>03, <2>1
<1>2. ASSUME NEW m \in Messages, Deliver(m) PROVE [Promise!Next]_(Promise!vars)
  <2>1. source[m] # "absent"
    BY DEF Source
  <2>2. source' = source /\ counts' = counts
    BY <1>2, <1>02, <1>03 DEF Deliver
  <2>3. deliveries' = [n \in Messages |-> IF n \in {m} THEN deliveries[n] + 1 ELSE deliveries[n]]
    BY <1>0, <1>2 DEF Deliver, TypeOK
  <2>4. Promise!Deliver({m})
    BY <2>1, <2>2, <2>3 DEF Promise!Deliver, Source, Concluded, ConcludedOf
  <2> QED
    BY <2>4 DEF Promise!Next
<1>3. ASSUME NEW d \in Deliveries, Respond(d) \/ ReadBody(d) \/ errorHandler(d) \/ ReleaseSlot(d)
      PROVE  UNCHANGED Promise!vars
  <2>1. deliveries' = deliveries /\ everAcked' = everAcked /\ concluded' = concluded
    BY <1>3 DEF Respond, ReadBody, errorHandler, ReleaseSlot, Go
  <2> QED
    BY <1>01, <1>02, <1>03, <2>1
<1>4. ASSUME NEW d \in Deliveries, Fail(d) \/ responseHandler(d) PROVE [Promise!Next]_(Promise!vars)
  <2>1. deliveries' = deliveries /\ everAcked' = everAcked
    BY <1>4 DEF Fail, responseHandler, Go
  <2>2. CASE concluded' = concluded
    BY <1>01, <1>02, <1>03, <2>1, <2>2
  <2>3. CASE concluded' = concluded \union {d}
    <3>0. PICK m \in Messages : m = Message(d)
      BY IsDelivery
    <3>1. phase[d] \in {"invoke", "body", "response"}
      BY <1>4 DEF Fail, responseHandler, Go
    <3>2. d \notin ConcludedOf(m)
      BY <1>0, <3>1 DEF ConcludedOf, ConcludedByPhase
    <3>3. d \in {m} \X (1 .. deliveries[m])
      <4>1. d = <<m, d[2]>> /\ d[2] \in Nat \ {0}
        BY <3>0, IsDelivery
      <4>2. d[2] <= deliveries[m]
        BY <1>0, <3>0, <3>1 DEF WereDelivered
      <4> QED
        BY <4>1, <4>2, ConcludedWasDelivered
    <3>4. Concluded(m) < deliveries[m] /\ Cardinality(ConcludedOf(m) \union {d}) = Concluded(m) + 1
      BY <3>2, <3>3, ConcludedWasDelivered, OneMore DEF Concluded
    <3>5. ConcludedOf(m)' = ConcludedOf(m) \union {d}
      BY <2>3, <3>0 DEF ConcludedOf, DeliveriesOf
    <3>6. \A n \in Messages : n # m => ConcludedOf(n)' = ConcludedOf(n)
      BY <2>3, <3>0 DEF ConcludedOf, DeliveriesOf
    <3>7. counts[m] < deliveries[m] /\ counts' = [counts EXCEPT ![m] = @ + 1]
      BY <3>4, <3>5, <3>6 DEF Concluded
    <3>8. Promise!Conclude(m)
      BY <1>03, <2>1, <3>7 DEF Promise!Conclude, Source, Concluded, ConcludedOf
    <3> QED
      BY <3>8 DEF Promise!Next
  <2> QED
    BY <1>4, <2>2, <2>3 DEF Fail, responseHandler
<1>5. ASSUME NEW d \in Deliveries, acknowledgeMsg(d) PROVE [Promise!Next]_(Promise!vars)
  <2>0. PICK m \in Messages : m = Message(d)
    BY IsDelivery
  <2>1. deliveries' = deliveries /\ counts' = counts
    BY <1>5, <1>02 DEF acknowledgeMsg, Go
  <2>2. CASE everAcked' = everAcked
    BY <1>01, <1>03, <2>1, <2>2
  <2>3. CASE everAcked' = everAcked \union {m} /\ m \notin everAcked
    <3>1. phase[d] = "ack" /\ d \in ConcludedOf(m)
      BY <1>0, <1>5, <2>0 DEF acknowledgeMsg, Go, ConcludedByPhase, ConcludedOf, DeliveriesOf
    <3>2. counts[m] > 0
      BY <3>1, ConcludedWasDelivered, SomeCount DEF Concluded
    <3>3. source[m] = "kept" /\ source' = [source EXCEPT ![m] = "removed"]
      BY <2>3 DEF Source
    <3>4. Promise!Remove(m)
      BY <2>1, <3>2, <3>3 DEF Promise!Remove, Source, Concluded, ConcludedOf
    <3> QED
      BY <3>4 DEF Promise!Next
  <2> QED
    BY <1>5, <2>0, <2>2, <2>3 DEF acknowledgeMsg
<1>6. CASE UNCHANGED vars
  BY <1>6, <1>01, <1>02, <1>03 DEF vars
<1> QED
  <2>1. ASSUME NEW d \in Deliveries, Handler(d) PROVE [Promise!Next]_(Promise!vars)
    BY <1>3, <1>4, <1>5, <2>1 DEF Handler
  <2> QED
    BY <1>1, <1>2, <1>6, <2>1 DEF Next

(* A message is acknowledged only when one of its deliveries has concluded, *)
(* and a message has no more conclusions than deliveries.                   *)
THEOREM ImplementsAtLeastOnce == Spec => RefinesAtLeastOnce
<1> QED
  BY InitMaps, NextMaps, InitInv, NextInv, PTL DEF Spec, RefinesAtLeastOnce, Promise!Spec

================================================================================
