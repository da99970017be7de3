---------------------------- MODULE PubSubConnector ----------------------------
(***************************************************************************)
(* The GCP Pub/Sub connector (gcp-pubsub-http-connector/main.go): one      *)
(* process, whose client calls the callback of consumeMessage in a         *)
(* goroutine of its own for every message it is given.  The callbacks take *)
(* turns under a mutex, share the headers, to which each adds the          *)
(* attributes of its message, and publish with a client of their own.  The *)
(* subscription is external: a message that is not acknowledged before its *)
(* lease ends is given again.  There is no signal handling: a process that *)
(* is stopped crashes, and starts anew.                                    *)
(***************************************************************************)
EXTENDS Integers, Sequences, FiniteSets

CONSTANTS
  Messages,        \* the messages published to the subscription
  WithAttribute,   \* those that carry an attribute, whose value names the message
  MaxDeliveries,   \* bound: how often a message is given to the process
  MaxCrashes       \* bound: how often the process crashes

ASSUME AttributesAssumption == WithAttribute \subseteq Messages
ASSUME BoundsAssumption == MaxDeliveries \in Nat /\ MaxCrashes \in Nat

VARIABLES
  connectordata,  \* which of ResponseTopic and ErrorTopic are set; never changes
  queue,          \* external: queue[m]: "absent", "ready", "leased" or "acked"
  deliveries,     \* external: deliveries[m]: how often m was given to the process
  acks,           \* the acknowledgements on their way to the subscription
  step,           \* step[d]: where the callback of delivery d is
  mu,             \* the delivery whose callback holds the mutex, or None
  headers,        \* the values the shared headers have for the attribute
  crashes,        \* how often the process has crashed
  accepted,       \* history: the deliveries answered with a body that was read
  request,        \* history: request[d]: the values that went out with the call
  publication,    \* external: publication[d]: what became of the one made for d:
                  \* "none" yet, "sent", "published" or "failed"
  attribute       \* history: attribute[d]: the value it had, as a set of at most one

subscription == <<queue, deliveries>>
history == <<accepted, request, attribute>>
vars == <<connectordata, subscription, acks, step, mu, headers, crashes, publication, history>>

Deliveries == Messages \X (1 .. MaxDeliveries)
DeliveriesOf(m) == {d \in Deliveries : d[1] = m}
Message(d) == d[1]
None == <<>>
Locked == {"invoke", "read", "ack", "publishResponse", "publishError", "wait"}
InProcess == Locked \union {"lock"}

TypeOK ==
  /\ connectordata \in [ResponseTopic : BOOLEAN, ErrorTopic : BOOLEAN]
  /\ queue \in [Messages -> {"absent", "ready", "leased", "acked"}]
  /\ deliveries \in [Messages -> 0 .. MaxDeliveries]
  /\ acks \subseteq Deliveries /\ accepted \subseteq Deliveries
  /\ step \in [Deliveries -> InProcess \union {"none", "done", "lost"}]
  /\ mu \in Deliveries \union {None}
  /\ \A d \in Deliveries : (mu = d) = (step[d] \in Locked)
  /\ headers \in Seq(WithAttribute)
  /\ crashes \in 0 .. MaxCrashes
  /\ publication \in [Deliveries -> {"none", "sent", "published", "failed"}]
  /\ request \in [Deliveries -> Seq(WithAttribute)]
  /\ attribute \in [Deliveries -> SUBSET WithAttribute]

Init ==
  /\ connectordata \in [ResponseTopic : BOOLEAN, ErrorTopic : BOOLEAN]
  /\ queue = [m \in Messages |-> "absent"]
  /\ deliveries = [m \in Messages |-> 0]
  /\ acks = {}
  /\ step = [d \in Deliveries |-> "none"]
  /\ mu = None
  /\ headers = <<>>
  /\ crashes = 0
  /\ publication = [d \in Deliveries |-> "none"]
  /\ accepted = {}
  /\ request = [d \in Deliveries |-> <<>>]
  /\ attribute = [d \in Deliveries |-> {}]

--------------------------------------------------------------------------------
(* The subscription, and crashes *)

Put(m) ==
  /\ queue[m] = "absent"
  /\ queue' = [queue EXCEPT ![m] = "ready"]
  /\ UNCHANGED <<connectordata, deliveries, acks, step, mu, headers, crashes, publication, history>>

Receive(m) ==
  /\ queue[m] = "ready" /\ deliveries[m] < MaxDeliveries
  /\ queue' = [queue EXCEPT ![m] = "leased"]
  /\ deliveries' = [deliveries EXCEPT ![m] = @ + 1]
  /\ step' = [step EXCEPT ![<<m, deliveries[m] + 1>>] = "lock"]
  /\ UNCHANGED <<connectordata, acks, mu, headers, crashes, publication, history>>

(* The client extends the lease for an hour, however long the callback.     *)
LeaseEnds(m) ==
  /\ queue[m] = "leased"
  /\ queue' = [queue EXCEPT ![m] = "ready"]
  /\ UNCHANGED <<connectordata, deliveries, acks, step, mu, headers, crashes, publication, history>>

AckArrives(d) ==
  /\ d \in acks
  /\ acks' = acks \ {d}
  /\ queue' = [queue EXCEPT ![Message(d)] = "acked"]
  /\ UNCHANGED <<connectordata, deliveries, step, mu, headers, crashes, publication, history>>

(* Acknowledgements that have not been sent are lost; of a publication on   *)
(* its way either may come true.                                            *)
Crash ==
  /\ crashes < MaxCrashes
  /\ crashes' = crashes + 1
  /\ step' = [d \in Deliveries |-> IF step[d] \in InProcess THEN "lost" ELSE step[d]]
  /\ acks' = {} /\ mu' = None /\ headers' = <<>>
  /\ UNCHANGED <<connectordata, subscription, publication, history>>

--------------------------------------------------------------------------------
(* The callback *)

Go(d, from, to) ==
  /\ step[d] = from
  /\ step' = [step EXCEPT ![d] = to]
  /\ UNCHANGED <<connectordata, subscription, crashes>>

\* Mutant of Lock: a mutex of the callback's own, which excludes nobody.
LockOwn(d) ==
  /\ Go(d, "lock", "invoke")
  /\ mu' = d
  /\ headers' = IF Message(d) \in WithAttribute THEN Append(headers, Message(d)) ELSE headers
  /\ UNCHANGED <<acks, publication, history>>
(* Under the mutex the attribute of the message is added to the headers.    *)
Lock(d) ==
  /\ mu = None
  /\ Go(d, "lock", "invoke")
  /\ mu' = d
  /\ headers' = IF Message(d) \in WithAttribute THEN Append(headers, Message(d)) ELSE headers
  /\ UNCHANGED <<acks, publication, history>>

(* The callback returns, and its deferred Unlock runs.                      *)
Return(d, from) == Go(d, from, "done") /\ mu' = None

(* A publication on the error topic if there is one, else the end.          *)
Failed(d, from) ==
  IF connectordata.ErrorTopic THEN Go(d, from, "publishError") /\ UNCHANGED mu
  ELSE Return(d, from)

\* Mutant of Invoke: an error leaves the callback without unlocking.
InvokeLeavingLocked(d) ==
  /\ \/ Go(d, "invoke", "read")
     \/ Go(d, "invoke", IF connectordata.ErrorTopic THEN "publishError" ELSE "done")
  /\ request' = [request EXCEPT ![d] = headers]
  /\ UNCHANGED <<acks, mu, headers, accepted, publication, attribute>>
(* HandleHTTPRequest returns its verdict (see Invocation); the request has  *)
(* the values of the headers.                                               *)
Invoke(d) ==
  /\ \/ Go(d, "invoke", "read") /\ UNCHANGED mu
     \/ Failed(d, "invoke")
  /\ request' = [request EXCEPT ![d] = headers]
  /\ UNCHANGED <<acks, headers, accepted, publication, attribute>>

\* Mutant of ReadBody: the error is not looked at.
ReadBodyUnchecked(d) ==
  /\ Go(d, "read", "ack") /\ UNCHANGED mu
  /\ accepted' = accepted \union {d} \/ UNCHANGED accepted
  /\ UNCHANGED <<acks, headers, request, publication, attribute>>
ReadBody(d) ==
  /\ \/ Go(d, "read", "ack") /\ UNCHANGED mu /\ accepted' = accepted \union {d}
     \/ Failed(d, "read") /\ UNCHANGED accepted
  /\ UNCHANGED <<acks, headers, request, publication, attribute>>

(* The acknowledgement comes before the response.                           *)
Ack(d) ==
  /\ IF connectordata.ResponseTopic THEN Go(d, "ack", "publishResponse") /\ UNCHANGED mu
     ELSE Return(d, "ack")
  /\ acks' = acks \union {d}
  /\ UNCHANGED <<headers, publication, history>>

(* An attribute has one value: the last of the header's.                    *)
convHeadersToAttr(values) == IF values = <<>> THEN {} ELSE {values[Len(values)]}

(* The message is handed to the publisher; then the callback waits for a    *)
(* wait group that nothing counts down, and the step "wait" is its last.    *)
(* Without a client (NewClient failed, which is only logged) the process    *)
(* panics.                                                                  *)
responseOrErrorHandler(d) ==
  /\ step[d] \in {"publishResponse", "publishError"}
  /\ \/ /\ Go(d, step[d], "wait")
        /\ publication' = [publication EXCEPT ![d] = "sent"]
        /\ attribute' = [attribute EXCEPT ![d] = convHeadersToAttr(headers)]
        /\ UNCHANGED <<acks, mu, headers, accepted, request>>
     \/ Crash

(* The publication arrives, or fails: there is no such topic, no permission,*)
(* or no answer in time.  The goroutine that waits for the result logs a    *)
(* failure, and nothing else comes of it.                                   *)
PublicationResult(d) ==
  /\ publication[d] = "sent"
  /\ \E result \in {"published", "failed"} : publication' = [publication EXCEPT ![d] = result]
  /\ UNCHANGED <<connectordata, subscription, acks, step, mu, headers, crashes, history>>

Callback(d) == Lock(d) \/ Invoke(d) \/ ReadBody(d) \/ Ack(d) \/ responseOrErrorHandler(d)

Next ==
  \/ \E m \in Messages : Put(m) \/ Receive(m) \/ LeaseEnds(m)
  \/ \E d \in Deliveries : AckArrives(d) \/ Callback(d) \/ PublicationResult(d)
  \/ Crash

Spec == Init /\ [][Next]_vars

(* The goroutines run, the mutex is fair (a waiter is not passed by for     *)
(* ever), and a publication has a result.                                   *)
FairSpec ==
  /\ Spec
  /\ \A d \in Deliveries : SF_vars(Callback(d))
  /\ WF_vars(\E d \in Deliveries : PublicationResult(d))

--------------------------------------------------------------------------------
(* Properties *)

Promise == INSTANCE AtLeastOnce WITH
  source <- [m \in Messages |-> CASE queue[m] = "absent" -> "absent"
                                  [] queue[m] = "acked" -> "removed"
                                  [] OTHER -> "kept"],
  delivered <- deliveries,
  concluded <- [m \in Messages |-> Cardinality(accepted \intersect DeliveriesOf(m))]

(* The connector keeps the promise of AtLeastOnce in a weaker sense than    *)
(* the others: a message is acknowledged only if the function has answered  *)
(* it and the answer was read.  Its response may yet be lost.               *)
RefinesAtLeastOnce == Promise!Spec

(* No response of m was handed to the publisher, and none is about to be.   *)
NeverPublished(m) ==
  /\ queue[m] = "acked"
  /\ \A d \in accepted \intersect DeliveriesOf(m) :
       publication[d] = "none" /\ step[d] # "publishResponse"

(* It is lost in a publication that fails or that the process did not live  *)
(* to send, and nobody makes it good; or in a crash between the             *)
(* acknowledgement and the publication.  But as the mutex is held from one  *)
(* to the other, however many messages are in the process and acknowledged, *)
(* such a crash takes no more than one response with it.                    *)
CrashLosesOneResponse ==
  connectordata.ResponseTopic => Cardinality({m \in Messages : NeverPublished(m)}) <= crashes

(* The headers are shared and only grow, so a call goes out with the values *)
(* of all messages before it.  But the mutex is held from adding the        *)
(* attribute to publishing, so that the last value of a call, and the only  *)
(* one of what is published for it, is that of its own message, if it has   *)
(* one.  (If it has none it is that of some message before it.)             *)
OwnAttributeIsLast ==
  \A d \in Deliveries :
    Message(d) \in WithAttribute =>
      /\ publication[d] # "none" => attribute[d] = {Message(d)}
      /\ request[d] # <<>> => request[d][Len(request[d])] = Message(d)

(* Every callback gets its turn and ends, unless the process crashes, or    *)
(* some callback has published and waits for ever with the mutex held.      *)
CallbackEndsUnlessPublished ==
  \A d \in Deliveries :
    step[d] = "lock" ~> (step[d] \in {"done", "lost"} \/ \E e \in Deliveries : step[e] = "wait")

(* What the comment in responseOrErrorHandler says of the wait (it "blocks  *)
(* until a server-generated ID or an error is returned"): a publication     *)
(* comes to its end.                                                        *)
PublicationEnds == \A d \in Deliveries : step[d] = "wait" ~> step[d] \in {"done", "lost"}

================================================================================
