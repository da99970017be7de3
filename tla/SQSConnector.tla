------------------------------ MODULE SQSConnector ------------------------------
(***************************************************************************)
(* The SQS connector (aws-sqs-http-connector/main.go): each replica        *)
(* receives a batch of messages, handles them one after the other, sends   *)
(* the response or the error to its queue, and deletes by its receipt a    *)
(* message whose response was sent.  The queue is external: a message that *)
(* was received is hidden, and visible again when its timeout runs out,    *)
(* whatever its receiver is doing.  There is no signal handling: a replica *)
(* that is stopped crashes, and starts anew.                               *)
(***************************************************************************)
EXTENDS Integers, FiniteSets

CONSTANTS
  Messages,             \* the messages sent to the queue
  Replicas,             \* the replicas of the connector
  maxNumberOfMessages,  \* how many messages a batch has at most
  ResponseQueueSet,     \* whether respQueueURL is not empty
  ErrorQueueSet,        \* whether errorQueueURL is not empty
  MaxReceives,          \* bound: how often a message is received
  MaxCrashes            \* bound: how often replicas crash

ASSUME ConfigAssumption ==
  /\ maxNumberOfMessages \in Nat \ {0}
  /\ ResponseQueueSet \in BOOLEAN /\ ErrorQueueSet \in BOOLEAN
ASSUME BoundsAssumption == MaxReceives \in Nat /\ MaxCrashes \in Nat

VARIABLES
  queue,     \* external: queue[m]: "absent", "visible", "hidden" or "deleted"
  receives,  \* external: receives[m]: how often m has been received
  batch,     \* batch[r]: the receipts of its batch that r has yet to handle
  message,   \* message[r]: the receipt in batch[r] that r is handling, or None
  step,      \* step[r]: where r is with it
  crashes,   \* how often replicas have crashed
  answered,  \* history: the receipts whose response was sent, or has no queue
  reported,  \* history: the receipts whose error was sent
  excused    \* history: the receipts whose timeout ran out or whose replica crashed
             \* before they were done, and those for which a request failed

inQueue == <<queue, receives>>
replica == <<batch, message, step>>
history == <<answered, reported, excused>>
vars == <<inQueue, replica, crashes, history>>

(* A receipt is a message and the number of its reception.                  *)
Receipts == Messages \X (1 .. MaxReceives)
Message(d) == d[1]
ReceiptsOf(m) == {d \in Receipts : Message(d) = m}
Held == UNION {batch[r] : r \in Replicas}
None == <<>>

TypeOK ==
  /\ queue \in [Messages -> {"absent", "visible", "hidden", "deleted"}]
  /\ receives \in [Messages -> 0 .. MaxReceives]
  /\ batch \in [Replicas -> SUBSET Receipts]
  /\ message \in [Replicas -> Receipts \union {None}]
  /\ step \in [Replicas -> {"range", "error", "response", "delete"}]
  /\ \A r \in Replicas : message[r] \in batch[r] \/ (message[r] = None /\ step[r] = "range")
  /\ crashes \in 0 .. MaxCrashes
  /\ answered \subseteq Receipts /\ reported \subseteq Receipts /\ excused \subseteq Receipts

Init ==
  /\ queue = [m \in Messages |-> "absent"]
  /\ receives = [m \in Messages |-> 0]
  /\ batch = [r \in Replicas |-> {}]
  /\ message = [r \in Replicas |-> None]
  /\ step = [r \in Replicas |-> "range"]
  /\ crashes = 0
  /\ answered = {} /\ reported = {} /\ excused = {}

--------------------------------------------------------------------------------
(* The queue, and crashes *)

Send(m) ==
  /\ queue[m] = "absent"
  /\ queue' = [queue EXCEPT ![m] = "visible"]
  /\ UNCHANGED <<receives, replica, crashes, history>>

(* The visibility timeout of m runs out.                                    *)
Expire(m) ==
  /\ queue[m] = "hidden"
  /\ queue' = [queue EXCEPT ![m] = "visible"]
  /\ excused' = excused \union (Held \intersect ReceiptsOf(m))
  /\ UNCHANGED <<receives, replica, crashes, answered, reported>>

Crash(r) ==
  /\ crashes < MaxCrashes
  /\ crashes' = crashes + 1
  /\ excused' = excused \union batch[r]
  /\ batch' = [batch EXCEPT ![r] = {}]
  /\ message' = [message EXCEPT ![r] = None]
  /\ step' = [step EXCEPT ![r] = "range"]
  /\ UNCHANGED <<inQueue, answered, reported>>

--------------------------------------------------------------------------------
(* The loop of consumeMessage *)

(* The replica has handled its last batch; it receives the next one, of any *)
(* visible messages.  A request that fails is repeated, though the messages *)
(* of an answer that was lost are hidden until their timeout runs out.      *)
Receive(r, new) ==
  /\ batch[r] = {} /\ new # {}
  /\ Cardinality(new) <= maxNumberOfMessages
  /\ \A m \in new : queue[m] = "visible" /\ receives[m] < MaxReceives
  /\ LET receipts == {<<m, receives[m] + 1>> : m \in new} IN
       \/ batch' = [batch EXCEPT ![r] = receipts] /\ UNCHANGED excused
       \/ excused' = excused \union receipts /\ UNCHANGED batch
  /\ receives' = [m \in Messages |-> IF m \in new THEN receives[m] + 1 ELSE receives[m]]
  /\ queue' = [m \in Messages |-> IF m \in new THEN "hidden" ELSE queue[m]]
  /\ UNCHANGED <<message, step, crashes, answered, reported>>

(* The next message of the batch (the order within it is any), and the      *)
(* verdict of HandleHTTPRequest on it (see Invocation); a response whose    *)
(* body cannot be read is treated as an error.                              *)
Invoke(r) ==
  /\ step[r] = "range"
  /\ \E d \in batch[r] : message' = [message EXCEPT ![r] = d]
  /\ \E verdict \in {"response", "error"} : step' = [step EXCEPT ![r] = verdict]
  /\ UNCHANGED <<inQueue, batch, crashes, history>>

Go(r, from, to) ==
  /\ step[r] = from
  /\ step' = [step EXCEPT ![r] = to]
  /\ UNCHANGED <<receives, crashes>>

(* The loop goes on to the next message of the batch.                       *)
Done(r, from) ==
  /\ step[r] = from
  /\ batch' = [batch EXCEPT ![r] = @ \ {message[r]}]
  /\ message' = [message EXCEPT ![r] = None]
  /\ step' = [step EXCEPT ![r] = "range"]
  /\ UNCHANGED <<receives, crashes>>

\* Mutant of errorHandler: the first error ends the loop over the batch.
errorHandlerBreaks(r) ==
  /\ step[r] = "error"
  /\ batch' = [batch EXCEPT ![r] = {}]
  /\ message' = [message EXCEPT ![r] = None]
  /\ step' = [step EXCEPT ![r] = "range"]
  /\ reported' = reported \union {message[r]}
  /\ UNCHANGED <<inQueue, crashes, answered, excused>>
(* The error is sent if there is a queue for it; a failure to send it is    *)
(* only logged.  The message is not deleted: it is visible again later.     *)
errorHandler(r) ==
  /\ Done(r, "error")
  /\ \/ ErrorQueueSet /\ reported' = reported \union {message[r]} /\ UNCHANGED excused
     \/ /\ excused' = IF ErrorQueueSet THEN excused \union {message[r]} ELSE excused
        /\ UNCHANGED reported
  /\ UNCHANGED <<queue, answered>>

\* Mutant of responseHandler: success and failure are swapped.
responseHandlerInverted(r) ==
  /\ \/ Done(r, "response") /\ answered' = answered \union {message[r]}
     \/ Go(r, "response", "delete") /\ UNCHANGED <<batch, message, answered>>
  /\ UNCHANGED <<queue, reported, excused>>
\* Mutant of responseHandler: a failure to send is not reported.
responseHandlerAlwaysTrue(r) ==
  /\ Go(r, "response", "delete")
  /\ UNCHANGED <<batch, message>>
  /\ answered' = answered \union {message[r]} \/ UNCHANGED answered
  /\ UNCHANGED <<queue, reported, excused>>
(* A message is deleted only if its response was sent, or has no queue.     *)
responseHandler(r) ==
  /\ \/ /\ Go(r, "response", "delete") /\ UNCHANGED <<batch, message, excused>>
        /\ answered' = answered \union {message[r]}
     \/ /\ ResponseQueueSet /\ Done(r, "response")
        /\ excused' = excused \union {message[r]} /\ UNCHANGED answered
  /\ UNCHANGED <<queue, reported>>

(* A failed deletion is only logged, whether the message is gone or not.    *)
(* The receipt of an earlier reception may still delete a message that has  *)
(* been received again.                                                     *)
deleteMessage(r) ==
  /\ Done(r, "delete")
  /\ LET deleted == [queue EXCEPT ![Message(message[r])] = "deleted"] IN
       \/ queue' = deleted /\ UNCHANGED excused
       \/ queue' \in {queue, deleted} /\ excused' = excused \union {message[r]}
  /\ UNCHANGED <<answered, reported>>

Handle(r) == Invoke(r) \/ errorHandler(r) \/ responseHandler(r) \/ deleteMessage(r)

Next ==
  \/ \E m \in Messages : Send(m) \/ Expire(m)
  \/ \E r \in Replicas : Crash(r) \/ Handle(r) \/ \E new \in SUBSET Messages : Receive(r, new)

Spec == Init /\ [][Next]_vars

--------------------------------------------------------------------------------
(* Properties *)

Promise == INSTANCE AtLeastOnce WITH
  source <- [m \in Messages |-> CASE queue[m] = "absent" -> "absent"
                                  [] queue[m] = "deleted" -> "removed"
                                  [] OTHER -> "kept"],
  delivered <- receives,
  concluded <- [m \in Messages |-> Cardinality(answered \intersect ReceiptsOf(m))]

(* The connector keeps the promise of AtLeastOnce: a message is deleted     *)
(* only after its response was sent (or read, without a queue for it), so   *)
(* no failed call, failed request, crash or late receipt loses one.         *)
RefinesAtLeastOnce == Promise!Spec

(* A response is sent again only for one of three reasons: the visibility   *)
(* timeout ran out before the first was done (its batch is handled one by   *)
(* one), its replica crashed before the deletion, or the deletion failed.   *)
(* (A request that is reported as failed may yet have been served.)         *)
ResponseIsNotRepeated ==
  \A m \in Messages : \A d, e \in answered \intersect ReceiptsOf(m) : d[2] < e[2] => d \in excused

(* Nothing that was received is forgotten: unless its timeout ran out, its  *)
(* replica crashed or a request to a queue failed, a receipt that is not in *)
(* hand has its response or its error, and never both; one bad message does *)
(* not end the loop over its batch.                                         *)
EveryReceiptHasOneOutcome ==
  /\ answered \intersect reported = {}
  /\ ErrorQueueSet =>
       \A m \in Messages : \A d \in ReceiptsOf(m) :
         d[2] <= receives[m] => d \in Held \union answered \union reported \union excused

================================================================================
