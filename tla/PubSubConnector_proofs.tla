------------------------- MODULE PubSubConnector_proofs -------------------------
(***************************************************************************)
(* Proofs about the Pub/Sub connector, for any messages, attributes,       *)
(* redeliveries and crashes: the callbacks exclude each other, what is     *)
(* acknowledged was answered, a crash loses the response of at most one    *)
(* acknowledged message, and a message goes out with its own attribute     *)
(* last.                                                                   *)
(***************************************************************************)
EXTENDS PubSubConnector, FiniteSetTheorems, TLAPS

(* Exactly the deliveries that have taken place have a callback, and only   *)
(* messages that were put are delivered.                                    *)
DeliveredByStep ==
  /\ \A d \in Deliveries : step[d] = "none" <=> deliveries[Message(d)] < d[2]
  /\ \A m \in Messages : queue[m] = "absent" => deliveries[m] = 0

(* Where a callback must be when its answer has been read.                  *)
AcceptedByStep ==
  \A d \in Deliveries :
    /\ d \in accepted => step[d] \in {"ack", "publishResponse", "wait", "done", "lost"}
    /\ step[d] \in {"ack", "publishResponse"} => d \in accepted

(* An acknowledgement, under way or arrived, is of a delivery whose answer  *)
(* was read and whose response is not forgotten.                            *)
Secured(d) ==
  /\ d \in accepted
  /\ connectordata.ResponseTopic => publication[d] # "none" \/ step[d] \in {"publishResponse", "lost"}
AcksAreSecured ==
  /\ \A d \in acks : Secured(d)
  /\ \A m \in Messages : queue[m] = "acked" => \E d \in DeliveriesOf(m) : Secured(d)

(* The callback that holds the mutex finds its own attribute last.          *)
OwnHeaderIsLast ==
  \A d \in Deliveries :
    Message(d) \in WithAttribute /\ step[d] \in Locked =>
      headers # <<>> /\ headers[Len(headers)] = Message(d)

(* The answers that were lost before they could be published.  Each crash   *)
(* adds at most the one of the callback that holds the mutex.               *)
Lost == {d \in accepted : step[d] = "lost" /\ publication[d] = "none"}
OneLossPerCrash == IsFiniteSet(Lost) /\ Cardinality(Lost) <= crashes

Rest == /\ DeliveredByStep /\ AcceptedByStep /\ AcksAreSecured /\ OneLossPerCrash
        /\ OwnHeaderIsLast /\ OwnAttributeIsLast
IInv == TypeOK /\ Rest

--------------------------------------------------------------------------------
(* Facts about deliveries *)

LEMMA IsDelivery ==
  /\ \A d \in Deliveries : /\ d # None /\ Message(d) \in Messages /\ d = <<Message(d), d[2]>>
                           /\ d[2] \in Nat \ {0} /\ d[2] <= MaxDeliveries
  /\ \A m \in Messages : \A d \in DeliveriesOf(m) : d \in Deliveries /\ Message(d) = m
BY BoundsAssumption DEF Deliveries, DeliveriesOf, Message, None

LEMMA InitInv == Init => IInv
<1> SUFFICES ASSUME Init PROVE IInv
  OBVIOUS
<1>1. 0 \in 0 .. MaxDeliveries /\ 0 \in 0 .. MaxCrashes /\ <<>> \in Seq(WithAttribute)
  BY BoundsAssumption
<1>2. TypeOK
  BY <1>1, IsDelivery DEF Init, TypeOK, Locked, InProcess
<1>3. DeliveredByStep
  BY IsDelivery DEF Init, DeliveredByStep
<1>4. AcceptedByStep /\ AcksAreSecured /\ OwnHeaderIsLast /\ OwnAttributeIsLast
  BY DEF Init, AcceptedByStep, AcksAreSecured, OwnHeaderIsLast, OwnAttributeIsLast, Locked
<1>5. OneLossPerCrash
  <2>1. Lost = {} /\ crashes = 0
    BY DEF Init, Lost
  <2> QED
    BY <2>1, FS_EmptySet DEF OneLossPerCrash
<1> QED
  BY <1>2, <1>3, <1>4, <1>5 DEF IInv, Rest

(* What all steps but a crash have in common: nothing more is lost.         *)
LEMMA NothingIsLost ==
  ASSUME IInv, crashes' = crashes,
         \A d \in accepted' : step'[d] = "lost" => d \in accepted /\ step[d] = "lost",
         \A d \in accepted : publication'[d] = "none" => publication[d] = "none"
  PROVE  OneLossPerCrash'
<1>1. IsFiniteSet(Lost) /\ Cardinality(Lost) <= crashes /\ crashes \in Nat
  BY BoundsAssumption DEF IInv, Rest, OneLossPerCrash, TypeOK
<1>2. Lost' \in SUBSET Lost
  BY DEF Lost
<1>3. IsFiniteSet(Lost') /\ Cardinality(Lost') <= Cardinality(Lost)
  BY <1>1, <1>2, FS_Subset
<1>4. Cardinality(Lost) \in Nat /\ Cardinality(Lost') \in Nat
  BY <1>1, <1>3, FS_CardinalityType
<1> QED
  BY <1>1, <1>3, <1>4 DEF OneLossPerCrash

--------------------------------------------------------------------------------
(* The subscription *)

LEMMA SubscriptionStep ==
  ASSUME IInv, NEW m \in Messages, Put(m) \/ LeaseEnds(m)
  PROVE  IInv'
<1>1. /\ \A n \in Messages : queue'[n] = IF n = m THEN "ready" ELSE queue[n]
      /\ queue[m] \in {"absent", "leased"}
      /\ queue' \in [Messages -> {"absent", "ready", "leased", "acked"}]
      /\ UNCHANGED <<connectordata, deliveries, acks, step, mu, headers, crashes,
                     accepted, request, publication, attribute>>
  BY DEF IInv, TypeOK, Put, LeaseEnds, history
<1>2. TypeOK'
  BY <1>1 DEF IInv, TypeOK
<1>3. DeliveredByStep' /\ AcksAreSecured'
  BY <1>1 DEF IInv, Rest, DeliveredByStep, AcksAreSecured, Secured, DeliveriesOf
<1>4. AcceptedByStep' /\ OwnHeaderIsLast' /\ OwnAttributeIsLast'
  BY <1>1 DEF IInv, Rest, AcceptedByStep, OwnHeaderIsLast, OwnAttributeIsLast
<1>5. OneLossPerCrash'
  BY <1>1, NothingIsLost
<1> QED
  BY <1>2, <1>3, <1>4, <1>5 DEF IInv, Rest

LEMMA ReceiveStep ==
  ASSUME IInv, NEW m \in Messages, Receive(m)
  PROVE  IInv'
<1> DEFINE new == <<m, deliveries[m] + 1>>
<1>1. deliveries[m] \in Nat /\ deliveries[m] < MaxDeliveries /\ queue[m] = "ready"
  BY BoundsAssumption DEF IInv, TypeOK, Receive
<1>2. new \in Deliveries /\ Message(new) = m /\ new[2] = deliveries[m] + 1
  BY <1>1, BoundsAssumption DEF Deliveries, Message
<1>3. step[new] = "none"
  BY <1>1, <1>2 DEF IInv, Rest, DeliveredByStep
<1> HIDE DEF new
<1>4. /\ \A n \in Messages : /\ queue'[n] = IF n = m THEN "leased" ELSE queue[n]
                             /\ deliveries'[n] = IF n = m THEN deliveries[n] + 1 ELSE deliveries[n]
      /\ \A d \in Deliveries : step'[d] = IF d = new THEN "lock" ELSE step[d]
      /\ queue' \in [Messages -> {"absent", "ready", "leased", "acked"}]
      /\ deliveries' \in [Messages -> 0 .. MaxDeliveries]
      /\ step' \in [Deliveries -> InProcess \union {"none", "done", "lost"}]
      /\ UNCHANGED <<connectordata, acks, mu, headers, crashes, accepted, request, publication, attribute>>
  BY <1>1, <1>2, BoundsAssumption DEF IInv, TypeOK, Receive, history, new, InProcess
<1>5. TypeOK'
  <2>1. ASSUME NEW d \in Deliveries PROVE mu' = d <=> step'[d] \in Locked
    <3>1. mu = d <=> step[d] \in Locked
      BY DEF IInv, TypeOK
    <3> QED
      BY <1>3, <1>4, <3>1 DEF Locked
  <2> QED
    BY <1>4, <2>1 DEF IInv, TypeOK
<1>6. DeliveredByStep'
  <2>1. ASSUME NEW d \in Deliveries PROVE step'[d] = "none" <=> deliveries'[Message(d)] < d[2]
    <3>1. Message(d) \in Messages /\ d = <<Message(d), d[2]>> /\ d[2] \in Nat /\ deliveries[Message(d)] \in Nat
      BY IsDelivery, BoundsAssumption DEF IInv, TypeOK
    <3>2. CASE d = new
      BY <1>1, <1>2, <1>4, <3>2
    <3>3. CASE d # new
      <4>1. Message(d) = m => d[2] # deliveries[m] + 1
        BY <3>1, <3>3 DEF new
      <4> QED
        BY <1>1, <1>4, <3>1, <3>3, <4>1 DEF IInv, Rest, DeliveredByStep
    <3> QED
      BY <3>2, <3>3
  <2> QED
    BY <1>4, <2>1 DEF IInv, Rest, DeliveredByStep
<1>7. AcceptedByStep'
  BY <1>3, <1>4 DEF IInv, Rest, AcceptedByStep
<1>8. AcksAreSecured'
  <2>1. \A d \in Deliveries : Secured(d) => Secured(d)'
    BY <1>3, <1>4 DEF Secured
  <2>2. acks \subseteq Deliveries
    BY DEF IInv, TypeOK
  <2> QED
    BY <1>1, <1>4, <2>1, <2>2, IsDelivery DEF IInv, Rest, AcksAreSecured, DeliveriesOf
<1>9. OwnHeaderIsLast' /\ OwnAttributeIsLast'
  BY <1>3, <1>4 DEF IInv, Rest, OwnHeaderIsLast, OwnAttributeIsLast, Locked
<1>10. OneLossPerCrash'
  <2>1. accepted \subseteq Deliveries
    BY DEF IInv, TypeOK
  <2> QED
    BY <1>4, <2>1, NothingIsLost
<1> QED
  BY <1>5, <1>6, <1>7, <1>8, <1>9, <1>10 DEF IInv, Rest

LEMMA AckArrivesStep ==
  ASSUME IInv, NEW d \in Deliveries, AckArrives(d)
  PROVE  IInv'
<1>1. /\ \A n \in Messages : queue'[n] = IF n = Message(d) THEN "acked" ELSE queue[n]
      /\ queue' \in [Messages -> {"absent", "ready", "leased", "acked"}]
      /\ d \in acks /\ acks' = acks \ {d}
      /\ UNCHANGED <<connectordata, deliveries, step, mu, headers, crashes,
                     accepted, request, publication, attribute>>
  BY DEF IInv, TypeOK, AckArrives, history
<1>2. TypeOK'
  BY <1>1 DEF IInv, TypeOK
<1>3. DeliveredByStep'
  BY <1>1 DEF IInv, Rest, DeliveredByStep
<1>4. AcksAreSecured'
  <2>1. \A e \in Deliveries : Secured(e)' = Secured(e)
    BY <1>1 DEF Secured
  <2>2. d \in DeliveriesOf(Message(d)) /\ Secured(d) /\ acks \subseteq Deliveries
    BY <1>1 DEF IInv, Rest, AcksAreSecured, DeliveriesOf, Message, TypeOK
  <2> QED
    BY <1>1, <2>1, <2>2, IsDelivery DEF IInv, Rest, AcksAreSecured, DeliveriesOf
<1>5. AcceptedByStep' /\ OwnHeaderIsLast' /\ OwnAttributeIsLast'
  BY <1>1 DEF IInv, Rest, AcceptedByStep, OwnHeaderIsLast, OwnAttributeIsLast
<1>6. OneLossPerCrash'
  BY <1>1, NothingIsLost
<1> QED
  BY <1>2, <1>3, <1>4, <1>5, <1>6 DEF IInv, Rest

(* The result of a publication moves nothing else.                          *)
LEMMA PublicationResultStep ==
  ASSUME IInv, NEW d \in Deliveries, PublicationResult(d)
  PROVE  IInv'
<1>1. /\ publication' \in [Deliveries -> {"none", "sent", "published", "failed"}]
      /\ \A e \in Deliveries : publication'[e] = "none" <=> publication[e] = "none"
      /\ UNCHANGED <<connectordata, queue, deliveries, acks, step, mu, headers, crashes,
                     accepted, request, attribute>>
  BY DEF IInv, TypeOK, PublicationResult, subscription, history
<1>2. TypeOK'
  BY <1>1 DEF IInv, TypeOK
<1>3. DeliveredByStep' /\ AcceptedByStep' /\ OwnHeaderIsLast'
  BY <1>1 DEF IInv, Rest, DeliveredByStep, AcceptedByStep, OwnHeaderIsLast
<1>4. AcksAreSecured'
  <2>1. \A e \in Deliveries : Secured(e) => Secured(e)'
    BY <1>1 DEF Secured
  <2> QED
    BY <1>1, <2>1, IsDelivery DEF IInv, TypeOK, Rest, AcksAreSecured, DeliveriesOf
<1>5. OwnAttributeIsLast'
  BY <1>1 DEF IInv, Rest, OwnAttributeIsLast
<1>6. OneLossPerCrash'
  <2>1. accepted \subseteq Deliveries
    BY DEF IInv, TypeOK
  <2> QED
    BY <1>1, <2>1, NothingIsLost
<1> QED
  BY <1>2, <1>3, <1>4, <1>5, <1>6 DEF IInv, Rest

LEMMA CrashStep ==
  ASSUME IInv, Crash
  PROVE  IInv'
<1>1. /\ \A d \in Deliveries : step'[d] = IF step[d] \in InProcess THEN "lost" ELSE step[d]
      /\ step' \in [Deliveries -> InProcess \union {"none", "done", "lost"}]
      /\ acks' = {} /\ mu' = None /\ headers' = <<>> /\ crashes' \in 0 .. MaxCrashes
      /\ crashes' = crashes + 1
      /\ UNCHANGED <<connectordata, queue, deliveries, accepted, request, publication, attribute>>
  BY BoundsAssumption DEF IInv, TypeOK, Crash, history, subscription, InProcess
<1>2. \A d \in Deliveries : step'[d] \notin Locked
  BY <1>1 DEF IInv, TypeOK, Locked, InProcess
<1>3. TypeOK'
  <2>1. \A d \in Deliveries : (mu' = d) = (step'[d] \in Locked)
    BY <1>1, <1>2, IsDelivery
  <2> QED
    BY <1>1, <2>1 DEF IInv, TypeOK
<1>4. DeliveredByStep' /\ AcceptedByStep'
  BY <1>1 DEF IInv, Rest, DeliveredByStep, AcceptedByStep, InProcess, Locked
<1>5. AcksAreSecured'
  <2>1. \A d \in Deliveries : Secured(d) => Secured(d)'
    BY <1>1 DEF Secured
  <2> QED
    BY <1>1, <2>1, IsDelivery DEF IInv, Rest, AcksAreSecured, DeliveriesOf
<1>6. OwnHeaderIsLast' /\ OwnAttributeIsLast'
  BY <1>1, <1>2 DEF IInv, Rest, OwnHeaderIsLast, OwnAttributeIsLast
<1>7. OneLossPerCrash'
  <2>1. IsFiniteSet(Lost) /\ Cardinality(Lost) <= crashes /\ crashes \in Nat
    BY BoundsAssumption DEF IInv, Rest, OneLossPerCrash, TypeOK
  <2>2. ASSUME NEW d \in accepted, step[d] \in InProcess PROVE d = mu
    <3>1. d \in Deliveries /\ step[d] \in Locked
      BY <2>2 DEF IInv, Rest, AcceptedByStep, TypeOK, InProcess, Locked
    <3> QED
      BY <3>1 DEF IInv, TypeOK
  <2>3. Lost' \in SUBSET (Lost \union {mu})
    <3>1. accepted \subseteq Deliveries
      BY DEF IInv, TypeOK
    <3>2. ASSUME NEW d \in Lost' PROVE d \in Lost \union {mu}
      <4>1. d \in accepted /\ d \in Deliveries /\ step'[d] = "lost" /\ publication[d] = "none"
        BY <1>1, <3>1, <3>2 DEF Lost
      <4> QED
        BY <1>1, <2>2, <4>1 DEF Lost
    <3> QED
      BY <3>2
  <2>4. /\ IsFiniteSet(Lost \union {mu})
        /\ Cardinality(Lost \union {mu}) = IF mu \in Lost THEN Cardinality(Lost) ELSE Cardinality(Lost) + 1
    BY <2>1, FS_AddElement
  <2>5. IsFiniteSet(Lost') /\ Cardinality(Lost') <= Cardinality(Lost \union {mu})
    BY <2>3, <2>4, FS_Subset
  <2>6. Cardinality(Lost) \in Nat /\ Cardinality(Lost') \in Nat
    BY <2>1, <2>5, FS_CardinalityType
  <2>7. Cardinality(Lost') <= crashes'
    BY <1>1, <2>1, <2>4, <2>5, <2>6
  <2> QED
    BY <2>5, <2>7 DEF OneLossPerCrash
<1> QED
  BY <1>3, <1>4, <1>5, <1>6, <1>7 DEF IInv, Rest

--------------------------------------------------------------------------------
(* The callback *)

(* How a callback may move: it takes the mutex, keeps it, or gives it back. *)
MutexMove(d, from, to) ==
  \/ from = "lock" /\ to = "invoke" /\ mu = None /\ mu' = d
  \/ from \in Locked /\ to \in Locked /\ mu' = mu
  \/ from \in Locked /\ to = "done" /\ mu' = None

LEMMA GoStep ==
  ASSUME IInv, NEW d \in Deliveries, NEW from, NEW to, Go(d, from, to), MutexMove(d, from, to)
  PROVE  /\ \A e \in Deliveries : step'[e] = IF e = d THEN to ELSE step[e]
         /\ step[d] = from
         /\ step' \in [Deliveries -> InProcess \union {"none", "done", "lost"}]
         /\ mu' \in Deliveries \union {None}
         /\ \A e \in Deliveries : (mu' = e) = (step'[e] \in Locked)
         /\ \A e \in Deliveries : e # d /\ step'[e] \in Locked => step[e] \in Locked
         /\ DeliveredByStep'
         /\ UNCHANGED <<connectordata, queue, deliveries, crashes>>
<1>1. /\ from \in InProcess /\ from # "none" /\ to \in InProcess \union {"done"} /\ to # "none"
      /\ mu' \in Deliveries \union {None}
  BY DEF MutexMove, IInv, TypeOK, Locked, InProcess
<1>2. /\ \A e \in Deliveries : step'[e] = IF e = d THEN to ELSE step[e]
      /\ step' \in [Deliveries -> InProcess \union {"none", "done", "lost"}]
      /\ step[d] = from
      /\ UNCHANGED <<connectordata, queue, deliveries, crashes>>
  BY <1>1 DEF Go, IInv, TypeOK, subscription
<1>3. \A e \in Deliveries : mu = e <=> step[e] \in Locked
  BY DEF IInv, TypeOK
<1>4. ASSUME NEW e \in Deliveries PROVE mu' = e <=> step'[e] \in Locked
  <2>1. e # None /\ d # None
    BY IsDelivery
  <2>2. CASE from = "lock" /\ to = "invoke" /\ mu = None /\ mu' = d
    BY <1>2, <1>3, <2>1, <2>2 DEF Locked
  <2>3. CASE from \in Locked /\ to \in Locked /\ mu' = mu
    BY <1>2, <1>3, <2>3
  <2>4. CASE from \in Locked /\ to = "done" /\ mu' = None
    <3>1. mu = d /\ "done" \notin Locked
      BY <1>2, <1>3, <2>4 DEF Locked
    <3> QED
      BY <1>2, <1>3, <2>1, <2>4, <3>1
  <2> QED
    BY <2>2, <2>3, <2>4 DEF MutexMove
<1>5. DeliveredByStep'
  BY <1>1, <1>2 DEF IInv, Rest, DeliveredByStep
<1> QED
  BY <1>1, <1>2, <1>4, <1>5

LEMMA FailedStep ==
  ASSUME IInv, NEW d \in Deliveries, NEW from \in Locked, Failed(d, from)
  PROVE  \E to \in {"publishError", "done"} : Go(d, from, to) /\ MutexMove(d, from, to)
BY DEF Failed, Return, MutexMove, Locked

LEMMA LockStep ==
  ASSUME IInv, NEW d \in Deliveries, Lock(d)
  PROVE  IInv'
<1>1. Go(d, "lock", "invoke") /\ MutexMove(d, "lock", "invoke")
  BY DEF Lock, MutexMove
<1> DEFINE Moved == /\ \A e \in Deliveries : step'[e] = IF e = d THEN "invoke" ELSE step[e]
                    /\ step[d] = "lock"
                    /\ UNCHANGED <<connectordata, queue, deliveries, crashes>>
<1>2. Moved /\ DeliveredByStep'
  BY <1>1, GoStep
<1>3. UNCHANGED <<acks, accepted, request, publication, attribute>>
  BY DEF Lock, history
<1>4. /\ headers' \in Seq(WithAttribute)
      /\ Message(d) \in WithAttribute => headers' # <<>> /\ headers'[Len(headers')] = Message(d)
  <2>1. headers \in Seq(WithAttribute)
    BY DEF IInv, TypeOK
  <2>2. CASE Message(d) \in WithAttribute
    <3>1. headers' = Append(headers, Message(d))
      BY <2>2 DEF Lock
    <3>2. headers' \in Seq(WithAttribute) /\ Len(headers') = Len(headers) + 1
      BY <2>1, <2>2, <3>1
    <3>3. headers'[Len(headers) + 1] = Message(d)
      BY <2>1, <2>2, <3>1
    <3> QED
      BY <2>1, <3>2, <3>3
  <2>3. CASE Message(d) \notin WithAttribute
    BY <2>1, <2>3 DEF Lock
  <2> QED
    BY <2>2, <2>3
<1>5. TypeOK'
  <2>1. /\ step' \in [Deliveries -> InProcess \union {"none", "done", "lost"}]
        /\ mu' \in Deliveries \union {None}
        /\ \A e \in Deliveries : (mu' = e) = (step'[e] \in Locked)
    BY <1>1, GoStep
  <2> QED
    BY <1>2, <1>3, <1>4, <2>1 DEF IInv, TypeOK
<1>6. AcceptedByStep'
  BY <1>2, <1>3 DEF IInv, Rest, AcceptedByStep
<1>7. AcksAreSecured'
  <2>1. \A e \in Deliveries : Secured(e) => Secured(e)'
    BY <1>2, <1>3 DEF Secured
  <2> QED
    BY <1>2, <1>3, <2>1, IsDelivery DEF IInv, TypeOK, Rest, AcksAreSecured, DeliveriesOf
<1>8. OwnHeaderIsLast'
  <2>1. \A e \in Deliveries : step[e] \notin Locked
    <3>1. mu = None /\ \A e \in Deliveries : mu = e <=> step[e] \in Locked
      BY DEF Lock, IInv, TypeOK
    <3> QED
      BY <3>1, IsDelivery
  <2> QED
    BY <1>2, <1>4, <2>1 DEF OwnHeaderIsLast
<1>9. OwnAttributeIsLast'
  BY <1>3 DEF IInv, Rest, OwnAttributeIsLast
<1>10. OneLossPerCrash'
  <2>1. accepted \subseteq Deliveries
    BY DEF IInv, TypeOK
  <2> QED
    BY <1>2, <1>3, <2>1, NothingIsLost
<1> QED
  BY <1>2, <1>5, <1>6, <1>7, <1>8, <1>9, <1>10 DEF IInv, Rest

(* The moves of a callback that holds the mutex, and what they leave alone. *)
LEMMA HolderStep ==
  ASSUME IInv, NEW d \in Deliveries, NEW from \in Locked, NEW to \in Locked \union {"done"},
         Go(d, from, to), MutexMove(d, from, to), UNCHANGED headers
  PROVE  /\ \A e \in Deliveries : step'[e] = IF e = d THEN to ELSE step[e]
         /\ step[d] = from
         /\ UNCHANGED <<connectordata, queue, deliveries, crashes>>
         /\ DeliveredByStep' /\ OwnHeaderIsLast'
         /\ Message(d) \in WithAttribute => headers # <<>> /\ headers[Len(headers)] = Message(d)
<1>1. /\ \A e \in Deliveries : step'[e] = IF e = d THEN to ELSE step[e]
      /\ step[d] = from
      /\ UNCHANGED <<connectordata, queue, deliveries, crashes>>
      /\ DeliveredByStep'
      /\ \A e \in Deliveries : e # d /\ step'[e] \in Locked => step[e] \in Locked
  BY GoStep
<1>2. Message(d) \in WithAttribute => headers # <<>> /\ headers[Len(headers)] = Message(d)
  BY <1>1 DEF IInv, Rest, OwnHeaderIsLast
<1>3. OwnHeaderIsLast'
  BY <1>1, <1>2 DEF IInv, Rest, OwnHeaderIsLast
<1> QED
  BY <1>1, <1>2, <1>3

LEMMA HolderType ==
  ASSUME IInv, NEW d \in Deliveries, NEW from \in Locked, NEW to \in Locked \union {"done"},
         Go(d, from, to), MutexMove(d, from, to), UNCHANGED headers,
         acks' \subseteq Deliveries, accepted' \subseteq Deliveries,
         publication' \in [Deliveries -> {"none", "sent", "published", "failed"}],
         request' \in [Deliveries -> Seq(WithAttribute)],
         attribute' \in [Deliveries -> SUBSET WithAttribute]
  PROVE  TypeOK'
<1>1. /\ step' \in [Deliveries -> InProcess \union {"none", "done", "lost"}]
      /\ mu' \in Deliveries \union {None}
      /\ \A e \in Deliveries : (mu' = e) = (step'[e] \in Locked)
      /\ UNCHANGED <<connectordata, queue, deliveries, crashes>>
  BY GoStep
<1> QED
  BY <1>1 DEF IInv, TypeOK

LEMMA InvokeStep ==
  ASSUME IInv, NEW d \in Deliveries, Invoke(d)
  PROVE  IInv'
<1>1. PICK to \in {"read", "publishError", "done"} : Go(d, "invoke", to) /\ MutexMove(d, "invoke", to)
  <2>1. CASE Go(d, "invoke", "read") /\ UNCHANGED mu
    BY <2>1 DEF MutexMove, Locked
  <2>2. CASE Failed(d, "invoke")
    BY <2>2, FailedStep DEF Locked
  <2> QED
    BY <2>1, <2>2 DEF Invoke
<1>2. /\ request' = [request EXCEPT ![d] = headers]
      /\ UNCHANGED <<acks, headers, accepted, publication, attribute>>
  BY DEF Invoke
<1>3. "invoke" \in Locked /\ to \in Locked \union {"done"}
  BY DEF Locked
<1>4. /\ \A e \in Deliveries : step'[e] = IF e = d THEN to ELSE step[e]
      /\ step[d] = "invoke"
      /\ UNCHANGED <<connectordata, queue, deliveries, crashes>>
      /\ DeliveredByStep' /\ OwnHeaderIsLast'
      /\ Message(d) \in WithAttribute => headers # <<>> /\ headers[Len(headers)] = Message(d)
  BY <1>1, <1>2, <1>3, HolderStep
<1>5. /\ request' \in [Deliveries -> Seq(WithAttribute)]
      /\ \A e \in Deliveries : request'[e] = IF e = d THEN headers ELSE request[e]
  BY <1>2 DEF IInv, TypeOK
<1>6. TypeOK'
  <2>1. /\ acks' \subseteq Deliveries /\ accepted' \subseteq Deliveries
        /\ publication' \in [Deliveries -> {"none", "sent", "published", "failed"}]
        /\ attribute' \in [Deliveries -> SUBSET WithAttribute]
    BY <1>2 DEF IInv, TypeOK
  <2> QED
    BY <1>1, <1>2, <1>3, <1>5, <2>1, HolderType
<1>7. AcceptedByStep'
  BY <1>2, <1>4 DEF IInv, Rest, AcceptedByStep
<1>8. AcksAreSecured'
  <2>1. \A e \in Deliveries : Secured(e) => Secured(e)'
    BY <1>2, <1>4 DEF Secured
  <2> QED
    BY <1>2, <1>4, <2>1, IsDelivery DEF IInv, TypeOK, Rest, AcksAreSecured, DeliveriesOf
<1>9. OwnAttributeIsLast'
  BY <1>2, <1>4, <1>5 DEF IInv, Rest, OwnAttributeIsLast
<1>10. OneLossPerCrash'
  <2>1. accepted' \subseteq Deliveries
    BY <1>2 DEF IInv, TypeOK
  <2>2. step'[d] # "lost"
    BY <1>4
  <2>3. \A e \in accepted' : step'[e] = "lost" => e \in accepted /\ step[e] = "lost"
    BY <1>2, <1>4, <2>1, <2>2
  <2> QED
    BY <1>2, <1>4, <2>3, NothingIsLost
<1> QED
  BY <1>4, <1>6, <1>7, <1>8, <1>9, <1>10 DEF IInv, Rest

LEMMA ReadBodyStep ==
  ASSUME IInv, NEW d \in Deliveries, ReadBody(d)
  PROVE  IInv'
<1>1. PICK to \in {"ack", "publishError", "done"} :
        /\ Go(d, "read", to) /\ MutexMove(d, "read", to)
        /\ accepted' = IF to = "ack" THEN accepted \union {d} ELSE accepted
  <2>1. CASE Go(d, "read", "ack") /\ UNCHANGED mu /\ accepted' = accepted \union {d}
    BY <2>1 DEF MutexMove, Locked
  <2>2. CASE Failed(d, "read") /\ UNCHANGED accepted
    <3>1. \E to \in {"publishError", "done"} : Go(d, "read", to) /\ MutexMove(d, "read", to)
      BY <2>2, FailedStep DEF Locked
    <3> QED
      BY <2>2, <3>1
  <2> QED
    BY <2>1, <2>2 DEF ReadBody
<1>2. UNCHANGED <<acks, headers, request, publication, attribute>>
  BY DEF ReadBody
<1>3. "read" \in Locked /\ to \in Locked \union {"done"}
  BY DEF Locked
<1>4. /\ \A e \in Deliveries : step'[e] = IF e = d THEN to ELSE step[e]
      /\ step[d] = "read"
      /\ UNCHANGED <<connectordata, queue, deliveries, crashes>>
      /\ DeliveredByStep' /\ OwnHeaderIsLast'
  BY <1>1, <1>2, <1>3, HolderStep
<1>5. d \notin accepted
  BY <1>4 DEF IInv, Rest, AcceptedByStep
<1>6. TypeOK'
  <2>1. /\ acks' \subseteq Deliveries /\ accepted' \subseteq Deliveries
        /\ publication' \in [Deliveries -> {"none", "sent", "published", "failed"}]
        /\ request' \in [Deliveries -> Seq(WithAttribute)]
        /\ attribute' \in [Deliveries -> SUBSET WithAttribute]
    BY <1>1, <1>2 DEF IInv, TypeOK
  <2> QED
    BY <1>1, <1>2, <1>3, <2>1, HolderType
<1>7. AcceptedByStep'
  BY <1>1, <1>4, <1>5 DEF IInv, Rest, AcceptedByStep
<1>8. AcksAreSecured'
  <2>1. \A e \in Deliveries : Secured(e) => Secured(e)'
    BY <1>1, <1>2, <1>4, <1>5 DEF Secured
  <2> QED
    BY <1>2, <1>4, <2>1, IsDelivery DEF IInv, TypeOK, Rest, AcksAreSecured, DeliveriesOf
<1>9. OwnAttributeIsLast'
  BY <1>2 DEF IInv, Rest, OwnAttributeIsLast
<1>10. OneLossPerCrash'
  <2>1. accepted' \subseteq Deliveries
    BY <1>1 DEF IInv, TypeOK
  <2>2. step'[d] # "lost"
    BY <1>4
  <2>3. \A e \in accepted' : step'[e] = "lost" => e \in accepted /\ step[e] = "lost"
    BY <1>1, <1>4, <2>1, <2>2
  <2> QED
    BY <1>2, <1>4, <2>3, NothingIsLost
<1> QED
  BY <1>4, <1>6, <1>7, <1>8, <1>9, <1>10 DEF IInv, Rest

LEMMA AckStep ==
  ASSUME IInv, NEW d \in Deliveries, Ack(d)
  PROVE  IInv'
<1>1. PICK to \in {"publishResponse", "done"} :
        /\ Go(d, "ack", to) /\ MutexMove(d, "ack", to)
        /\ to = "publishResponse" <=> connectordata.ResponseTopic
  BY DEF Ack, Return, MutexMove, Locked
<1>2. acks' = acks \union {d} /\ UNCHANGED <<headers, accepted, request, publication, attribute>>
  BY DEF Ack, history
<1>3. "ack" \in Locked /\ to \in Locked \union {"done"}
  BY DEF Locked
<1>4. /\ \A e \in Deliveries : step'[e] = IF e = d THEN to ELSE step[e]
      /\ step[d] = "ack"
      /\ UNCHANGED <<connectordata, queue, deliveries, crashes>>
      /\ DeliveredByStep' /\ OwnHeaderIsLast'
  BY <1>1, <1>2, <1>3, HolderStep
<1>5. d \in accepted
  BY <1>4 DEF IInv, Rest, AcceptedByStep
<1>6. TypeOK'
  <2>1. /\ acks' \subseteq Deliveries /\ accepted' \subseteq Deliveries
        /\ publication' \in [Deliveries -> {"none", "sent", "published", "failed"}]
        /\ request' \in [Deliveries -> Seq(WithAttribute)]
        /\ attribute' \in [Deliveries -> SUBSET WithAttribute]
    BY <1>2 DEF IInv, TypeOK
  <2> QED
    BY <1>1, <1>2, <1>3, <2>1, HolderType
<1>7. AcceptedByStep'
  BY <1>2, <1>4, <1>5 DEF IInv, Rest, AcceptedByStep
<1>8. AcksAreSecured'
  <2>1. \A e \in Deliveries : e # d /\ Secured(e) => Secured(e)'
    BY <1>2, <1>4 DEF Secured
  <2>2. Secured(d)'
    BY <1>1, <1>2, <1>4, <1>5 DEF Secured
  <2> QED
    BY <1>2, <1>4, <2>1, <2>2, IsDelivery DEF IInv, TypeOK, Rest, AcksAreSecured, DeliveriesOf
<1>9. OwnAttributeIsLast'
  BY <1>2 DEF IInv, Rest, OwnAttributeIsLast
<1>10. OneLossPerCrash'
  <2>1. accepted' \subseteq Deliveries
    BY <1>2 DEF IInv, TypeOK
  <2>2. step'[d] # "lost"
    BY <1>4
  <2>3. \A e \in accepted' : step'[e] = "lost" => e \in accepted /\ step[e] = "lost"
    BY <1>2, <1>4, <2>1, <2>2
  <2> QED
    BY <1>2, <1>4, <2>3, NothingIsLost
<1> QED
  BY <1>4, <1>6, <1>7, <1>8, <1>9, <1>10 DEF IInv, Rest

LEMMA PublishStep ==
  ASSUME IInv, NEW d \in Deliveries, responseOrErrorHandler(d)
  PROVE  IInv'
<1>1. CASE Crash
  BY <1>1, CrashStep
<1>2. CASE ~Crash
  <2> DEFINE from == step[d]
  <2>1. /\ from \in {"publishResponse", "publishError"} /\ Go(d, from, "wait") /\ mu' = mu
        /\ publication' = [publication EXCEPT ![d] = "sent"]
        /\ attribute' = [attribute EXCEPT ![d] = convHeadersToAttr(headers)]
        /\ UNCHANGED <<acks, headers, accepted, request>>
    BY <1>2 DEF responseOrErrorHandler
  <2>2. from \in Locked /\ "wait" \in Locked \union {"done"} /\ MutexMove(d, from, "wait")
    BY <2>1 DEF Locked, MutexMove
  <2> HIDE DEF from
  <2>3. /\ \A e \in Deliveries : step'[e] = IF e = d THEN "wait" ELSE step[e]
        /\ step[d] = from
        /\ UNCHANGED <<connectordata, queue, deliveries, crashes>>
        /\ DeliveredByStep' /\ OwnHeaderIsLast'
        /\ Message(d) \in WithAttribute => headers # <<>> /\ headers[Len(headers)] = Message(d)
    BY <2>1, <2>2, HolderStep
  <2>4. /\ convHeadersToAttr(headers) \subseteq WithAttribute
        /\ Message(d) \in WithAttribute => convHeadersToAttr(headers) = {Message(d)}
    <3>1. headers \in Seq(WithAttribute)
      BY DEF IInv, TypeOK
    <3>2. headers # <<>> => headers[Len(headers)] \in WithAttribute
      BY <3>1
    <3> QED
      BY <2>3, <3>2 DEF convHeadersToAttr
  <2>5. /\ attribute' \in [Deliveries -> SUBSET WithAttribute]
        /\ \A e \in Deliveries : attribute'[e] = IF e = d THEN convHeadersToAttr(headers) ELSE attribute[e]
    BY <2>1, <2>4 DEF IInv, TypeOK
  <2>6. /\ publication' \in [Deliveries -> {"none", "sent", "published", "failed"}]
         /\ \A e \in Deliveries : publication'[e] = IF e = d THEN "sent" ELSE publication[e]
    BY <2>1 DEF IInv, TypeOK
  <2>7. TypeOK'
    <3>1. /\ acks' \subseteq Deliveries /\ accepted' \subseteq Deliveries
          /\ request' \in [Deliveries -> Seq(WithAttribute)]
      BY <2>1 DEF IInv, TypeOK
    <3> QED
      BY <2>1, <2>2, <2>5, <2>6, <3>1, HolderType
  <2>8. AcceptedByStep'
    BY <2>1, <2>3 DEF IInv, Rest, AcceptedByStep
  <2>9. AcksAreSecured'
    <3>1. \A e \in Deliveries : Secured(e) => Secured(e)'
      BY <2>1, <2>3, <2>6 DEF Secured
    <3> QED
      BY <2>1, <2>3, <3>1, IsDelivery DEF IInv, TypeOK, Rest, AcksAreSecured, DeliveriesOf
  <2>10. OwnAttributeIsLast'
    BY <2>1, <2>3, <2>4, <2>5, <2>6 DEF IInv, Rest, OwnAttributeIsLast
  <2>11. OneLossPerCrash'
    <3>1. accepted \subseteq Deliveries
      BY DEF IInv, TypeOK
    <3> QED
      BY <2>1, <2>3, <2>6, <3>1, NothingIsLost
  <2> QED
    BY <2>3, <2>7, <2>8, <2>9, <2>10, <2>11 DEF IInv, Rest
<1> QED
  BY <1>1, <1>2

--------------------------------------------------------------------------------
(* The theorems *)

LEMMA NextInv == IInv /\ [Next]_vars => IInv'
<1> SUFFICES ASSUME IInv, [Next]_vars PROVE IInv'
  OBVIOUS
<1>1. ASSUME NEW m \in Messages, Put(m) \/ Receive(m) \/ LeaseEnds(m) PROVE IInv'
  BY <1>1, SubscriptionStep, ReceiveStep
<1>2. ASSUME NEW d \in Deliveries, AckArrives(d) \/ Callback(d) \/ PublicationResult(d) PROVE IInv'
  BY <1>2, AckArrivesStep, PublicationResultStep, LockStep, InvokeStep, ReadBodyStep, AckStep,
     PublishStep DEF Callback
<1>3. CASE Crash
  BY <1>3, CrashStep
<1>4. CASE UNCHANGED vars
  BY <1>4 DEF vars, subscription, history, IInv, TypeOK, Rest, DeliveredByStep, AcceptedByStep,
              AcksAreSecured, Secured, OneLossPerCrash, Lost, OwnHeaderIsLast,
              OwnAttributeIsLast
<1> QED
  BY <1>1, <1>2, <1>3, <1>4 DEF Next

(* Type correctness; with it, the mutex is held by the one callback between *)
(* its Lock and its return.                                                 *)
THEOREM TypeCorrect == Spec => []TypeOK
<1>1. IInv => TypeOK
  BY DEF IInv
<1> QED
  BY InitInv, NextInv, <1>1, PTL DEF Spec

(* However many messages are in the process, a crash between the            *)
(* acknowledgement and the publication costs the response of at most one    *)
(* acknowledged message: every other one was handed to the publisher, or is *)
(* about to be.                                                             *)
THEOREM CrashCostsOneResponse == Spec => []CrashLosesOneResponse
<1>1. IInv => CrashLosesOneResponse
  <2> SUFFICES ASSUME IInv, connectordata.ResponseTopic
               PROVE  Cardinality({m \in Messages : NeverPublished(m)}) <= crashes
    BY DEF CrashLosesOneResponse
  <2> DEFINE N == {m \in Messages : NeverPublished(m)}
             T == {Message(d) : d \in Lost}
             f == [d \in Lost |-> Message(d)]
  <2>1. IsFiniteSet(Lost) /\ Cardinality(Lost) <= crashes /\ crashes \in Nat
    BY BoundsAssumption DEF IInv, Rest, OneLossPerCrash, TypeOK
  <2>2. N \in SUBSET T
    <3>1. ASSUME NEW m \in N PROVE \E d \in Lost : m = Message(d)
      <4>1. PICK d \in DeliveriesOf(m) : Secured(d)
        BY <3>1 DEF IInv, Rest, AcksAreSecured, NeverPublished
      <4>2. d \in Lost
        BY <3>1, <4>1 DEF Secured, NeverPublished, Lost
      <4> QED
        BY <4>1, <4>2, IsDelivery
    <3> QED
      BY <3>1
  <2>3. f \in Surjection(Lost, T)
    BY DEF Surjection
  <2> HIDE DEF f, T
  <2>4. IsFiniteSet(T) /\ Cardinality(T) <= Cardinality(Lost)
    BY <2>1, <2>3, FS_Surjection
  <2>5. IsFiniteSet(N) /\ Cardinality(N) <= Cardinality(T)
    BY <2>2, <2>4, FS_Subset
  <2>6. Cardinality(N) \in Nat /\ Cardinality(T) \in Nat /\ Cardinality(Lost) \in Nat
    BY <2>1, <2>4, <2>5, FS_CardinalityType
  <2> QED
    BY <2>1, <2>4, <2>5, <2>6
<1> QED
  BY InitInv, NextInv, <1>1, PTL DEF Spec

(* In spite of the shared headers, a message goes out, and its response is  *)
(* published, with its own attribute as the last.                           *)
THEOREM AttributeIsOwn == Spec => []OwnAttributeIsLast
<1>1. IInv => OwnAttributeIsLast
  BY DEF IInv, Rest
<1> QED
  BY InitInv, NextInv, <1>1, PTL DEF Spec

--------------------------------------------------------------------------------
(* The refinement of AtLeastOnce *)

Source(m) == CASE queue[m] = "absent" -> "absent"
               [] queue[m] = "acked" -> "removed"
               [] OTHER -> "kept"
Concluded(m) == Cardinality(accepted \intersect DeliveriesOf(m))

LEMMA OneMore ==
  ASSUME NEW m, NEW n \in Nat, NEW S \in SUBSET ({m} \X (1 .. n)), NEW d \in {m} \X (1 .. n), d \notin S
  PROVE  Cardinality(S) < n /\ Cardinality(S \union {d}) = Cardinality(S) + 1
<1>1. IsFiniteSet({m}) /\ Cardinality({m}) = 1
  BY FS_Singleton
<1>2. IsFiniteSet(1 .. n) /\ Cardinality(1 .. n) = n
  BY FS_Interval
<1>3. IsFiniteSet({m} \X (1 .. n)) /\ Cardinality({m} \X (1 .. n)) = n
  BY <1>1, <1>2, FS_Product
<1>4. IsFiniteSet(S) /\ Cardinality(S \union {d}) <= n
  BY <1>3, FS_Subset
<1>5. Cardinality(S \union {d}) = Cardinality(S) + 1
  BY <1>4, FS_AddElement
<1> QED
  BY <1>4, <1>5, FS_CardinalityType

LEMMA SomeCount ==
  ASSUME NEW m, NEW S \in SUBSET ({m} \X (1 .. MaxDeliveries)), NEW d \in S
  PROVE  Cardinality(S) > 0
<1>1. IsFiniteSet(1 .. MaxDeliveries)
  <2>1. MaxDeliveries \in Int
    BY BoundsAssumption
  <2> QED
    BY <2>1, FS_Interval
<1>2. IsFiniteSet(S)
  <2>1. IsFiniteSet({m})
    BY FS_Singleton
  <2>2. IsFiniteSet({m} \X (1 .. MaxDeliveries))
    BY <1>1, <2>1, FS_Product
  <2> QED
    BY <2>2, FS_Subset
<1> QED
  BY <1>2, FS_EmptySet, FS_CardinalityType

LEMMA InitMaps == Init => Promise!Init
<1> SUFFICES ASSUME Init PROVE Promise!Init
  OBVIOUS
<1>1. \A m \in Messages : accepted \intersect DeliveriesOf(m) = {}
  BY DEF Init
<1>2. [m \in Messages |-> Concluded(m)] = [m \in Messages |-> 0]
  BY <1>1, FS_EmptySet DEF Concluded
<1>3. [m \in Messages |-> Source(m)] \in [Messages -> {"absent", "kept"}]
  BY DEF Init, Source
<1> QED
  BY <1>2, <1>3 DEF Init, Promise!Init, Source, Concluded

LEMMA NextMaps == IInv /\ [Next]_vars => [Promise!Next]_(Promise!vars)
<1> SUFFICES ASSUME IInv, [Next]_vars PROVE [Promise!Next]_(Promise!vars)
  OBVIOUS
<1>0. TypeOK /\ DeliveredByStep /\ AcceptedByStep /\ AcksAreSecured
  BY DEF IInv, Rest
<1> DEFINE source == [m \in Messages |-> Source(m)]
           concluded == [m \in Messages |-> Concluded(m)]
<1>01. UNCHANGED <<source, deliveries, concluded>> => UNCHANGED Promise!vars
  BY DEF Promise!vars, Source, Concluded
<1>02. ASSUME accepted' = accepted PROVE concluded' = concluded
  BY <1>02 DEF Concluded, DeliveriesOf
<1>03. ASSUME queue' = queue PROVE source' = source
  BY <1>03 DEF Source
<1> USE DEF subscription, history
<1>1. ASSUME NEW m \in Messages, Put(m) PROVE [Promise!Next]_(Promise!vars)
  <2>1. source[m] = "absent" /\ source' = [source EXCEPT ![m] = "kept"]
    BY <1>0, <1>1 DEF Put, Source, TypeOK
  <2>2. concluded' = concluded /\ deliveries' = deliveries
    BY <1>1, <1>02 DEF Put
  <2>3. Promise!Put(m)
    BY <2>1, <2>2 DEF Promise!Put, Source, Concluded
  <2> QED
    BY <2>3 DEF Promise!Next
<1>2. ASSUME NEW m \in Messages, LeaseEnds(m) PROVE UNCHANGED Promise!vars
  <2>1. source' = source
    BY <1>0, <1>2 DEF LeaseEnds, Source, TypeOK
  <2> QED
    BY <1>2, <1>01, <1>02, <2>1 DEF LeaseEnds
<1>3. ASSUME NEW m \in Messages, Receive(m) PROVE [Promise!Next]_(Promise!vars)
  <2>1. \A n \in {m} : source[n] # "absent"
    BY <1>3 DEF Receive, Source
  <2>2. source' = source
    BY <1>0, <1>3 DEF Receive, Source, TypeOK
  <2>3. concluded' = concluded
    BY <1>3, <1>02 DEF Receive
  <2>4. deliveries' = [n \in Messages |-> IF n \in {m} THEN deliveries[n] + 1 ELSE deliveries[n]]
    BY <1>0, <1>3 DEF Receive, TypeOK
  <2>5. Promise!Deliver({m})
    BY <2>1, <2>2, <2>3, <2>4 DEF Promise!Deliver, Source, Concluded
  <2> QED
    BY <2>5 DEF Promise!Next
<1>4. ASSUME NEW d \in Deliveries, AckArrives(d) PROVE [Promise!Next]_(Promise!vars)
  <2> DEFINE m == Message(d)
             S == accepted \intersect DeliveriesOf(m)
  <2>1. concluded' = concluded /\ deliveries' = deliveries /\ m \in Messages
    BY <1>4, <1>02, IsDelivery DEF AckArrives
  <2>2. d \in S /\ step[d] # "none"
    BY <1>0, <1>4 DEF AckArrives, AcksAreSecured, AcceptedByStep, Secured, DeliveriesOf, Message
  <2>3. queue[m] # "absent"
    <3>1. ~ (deliveries[m] < d[2])
      BY <1>0, <2>2 DEF DeliveredByStep
    <3>2. d[2] \in Nat \ {0}
      BY IsDelivery
    <3> QED
      BY <1>0, <2>1, <3>1, <3>2 DEF DeliveredByStep
  <2>4. source' = [source EXCEPT ![m] = "removed"]
    BY <1>0, <1>4, <2>1 DEF AckArrives, Source, TypeOK
  <2>5. CASE queue[m] = "acked"
    <3>1. queue' = queue
      BY <1>0, <1>4, <2>1, <2>5 DEF AckArrives, TypeOK
    <3> QED
      BY <1>01, <1>03, <2>1, <3>1
  <2>6. CASE queue[m] # "acked"
    <3>1. source[m] = "kept"
      BY <2>1, <2>3, <2>6 DEF Source
    <3>2. S \in SUBSET ({m} \X (1 .. MaxDeliveries))
      BY DEF DeliveriesOf, Deliveries, Message
    <3>3. Cardinality(S) > 0
      <4> HIDE DEF S
      <4> QED
        BY <2>2, <3>2, SomeCount
    <3>4. Promise!Remove(m)
      BY <2>1, <2>4, <3>1, <3>3 DEF Promise!Remove, Source, Concluded
    <3> QED
      BY <2>1, <3>4 DEF Promise!Next
  <2> QED
    BY <2>5, <2>6
<1>5. ASSUME Crash \/ \E d \in Deliveries : PublicationResult(d) PROVE UNCHANGED Promise!vars
  BY <1>5, <1>01, <1>02, <1>03 DEF Crash, PublicationResult
<1>6. ASSUME NEW d \in Deliveries, ReadBody(d) PROVE [Promise!Next]_(Promise!vars)
  <2> DEFINE m == Message(d)
             S == accepted \intersect DeliveriesOf(m)
  <2>1. queue' = queue /\ deliveries' = deliveries /\ step[d] = "read" /\ m \in Messages
    BY <1>6, IsDelivery DEF ReadBody, Go, Failed, Return
  <2>2. CASE accepted' = accepted
    BY <1>01, <1>02, <1>03, <2>1, <2>2
  <2>3. CASE accepted' = accepted \union {d}
    <3>0. d[2] \in Nat \ {0} /\ deliveries[m] \in Nat
      BY <1>0, <2>1, IsDelivery, BoundsAssumption DEF TypeOK
    <3>1. d \notin accepted /\ ~ (deliveries[m] < d[2]) /\ d[2] \in Nat \ {0} /\ deliveries[m] \in Nat
      BY <1>0, <2>1, <3>0 DEF AcceptedByStep, DeliveredByStep
    <3>2. d \in {m} \X (1 .. deliveries[m])
      BY <3>1, IsDelivery
    <3>3. ASSUME NEW e \in S PROVE e \in {m} \X (1 .. deliveries[m])
      <4>1. e \in Deliveries /\ Message(e) = m /\ step[e] # "none"
        BY <1>0, IsDelivery DEF AcceptedByStep, DeliveriesOf, Message
      <4>2. ~ (deliveries[m] < e[2]) /\ e = <<m, e[2]>> /\ e[2] \in Nat \ {0}
        BY <1>0, <4>1, IsDelivery DEF DeliveredByStep
      <4> QED
        BY <3>1, <4>2
    <3>4. Cardinality(S) < deliveries[m] /\ Cardinality(S \union {d}) = Cardinality(S) + 1
      <4> DEFINE n == deliveries[m]
      <4>1. n \in Nat /\ d \in {m} \X (1 .. n) /\ S \in SUBSET ({m} \X (1 .. n)) /\ d \notin S
        BY <3>1, <3>2, <3>3
      <4> HIDE DEF S, m, n
      <4>2. Cardinality(S) < n /\ Cardinality(S \union {d}) = Cardinality(S) + 1
        BY ONLY <4>1, OneMore
      <4> QED
        BY <4>2 DEF n
    <3>5. accepted' \intersect DeliveriesOf(m) = S \union {d}
      BY <2>3 DEF DeliveriesOf, Message
    <3>6. \A n \in Messages : n # m => accepted' \intersect DeliveriesOf(n) = accepted \intersect DeliveriesOf(n)
      BY <2>3 DEF DeliveriesOf, Message
    <3>7. \A n \in Messages : DeliveriesOf(n)' = DeliveriesOf(n)
      BY DEF DeliveriesOf
    <3>8. concluded[m] < deliveries[m] /\ concluded' = [concluded EXCEPT ![m] = @ + 1]
      BY <2>1, <3>4, <3>5, <3>6, <3>7 DEF Concluded
    <3>9. Promise!Conclude(m)
      BY <1>03, <2>1, <3>8 DEF Promise!Conclude, Source, Concluded
    <3> QED
      BY <2>1, <3>9 DEF Promise!Next
  <2> QED
    BY <1>6, <2>2, <2>3 DEF ReadBody
<1>7. ASSUME NEW d \in Deliveries, Lock(d) \/ Invoke(d) \/ Ack(d) \/ responseOrErrorHandler(d)
      PROVE  UNCHANGED Promise!vars
  <2>1. CASE Crash
    BY <1>5, <2>1
  <2>2. CASE ~Crash
    <3>1. UNCHANGED <<queue, deliveries, accepted>>
      BY <1>7, <2>2 DEF Lock, Invoke, Ack, responseOrErrorHandler, Go, Failed, Return
    <3> QED
      BY <1>01, <1>02, <1>03, <3>1
  <2> QED
    BY <2>1, <2>2
<1>8. CASE UNCHANGED vars
  BY <1>8, <1>01, <1>02, <1>03 DEF vars
<1> QED
  BY <1>1, <1>2, <1>3, <1>4, <1>5, <1>6, <1>7, <1>8 DEF Next, Callback

(* A message is acknowledged only when one of its deliveries was answered   *)
(* and the answer read; the answers read of a message are never more than   *)
(* its deliveries.                                                          *)
THEOREM ImplementsAtLeastOnce == Spec => RefinesAtLeastOnce
  BY InitMaps, NextMaps, InitInv, NextInv, PTL DEF Spec, RefinesAtLeastOnce, Promise!Spec

================================================================================
