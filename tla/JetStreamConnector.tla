--------------------------- MODULE JetStreamConnector ---------------------------
(***************************************************************************)
(* The NATS JetStream connector (nats-jetstream-http-connector/main.go):   *)
(* a callback that takes a slot of the semaphore for every delivery and    *)
(* starts a goroutine for it, the goroutines, and the shutdown.  One       *)
(* process at a time is bound to the durable consumer; when it ends        *)
(* another takes its place.  The server and its client library are         *)
(* external: they deliver a message again when it is not acknowledged in   *)
(* time, and the library deletes, on Unsubscribe, a consumer it created.   *)
(***************************************************************************)
EXTENDS Integers, Sequences, FiniteSets

CONSTANTS
  MaxMessage,        \* bound: the messages of the stream are 1 .. MaxMessage
  MaxDeliveries,     \* bound: how often the server delivers a message
  MaxRestarts,       \* bound: how many processes follow the first one
  CONCURRENT,        \* the environment variable, as a number
  ResponseTopicSet   \* whether RESPONSE_TOPIC is set

ASSUME BoundsAssumption ==
  MaxMessage \in Nat /\ MaxDeliveries \in Nat /\ MaxRestarts \in Nat
ASSUME ConfigAssumption ==
  CONCURRENT \in Int /\ ResponseTopicSet \in BOOLEAN

VARIABLES
  exists,      \* whether the server has the durable consumer
  owned,       \* whether this process created it
  acked,       \* the messages acknowledged to the consumer
  deliveries,  \* deliveries[m]: how often m has been delivered
  inbox,       \* the deliveries the client library holds
  callback,    \* the delivery in the callback, waiting for a slot
  phase,       \* phase[d]: where the goroutine of delivery d is
  slots,       \* how many elements the channel concurrentSem holds
  main,        \* where the main goroutine is, or how the process ended
  restarts,    \* how many processes have followed the first
  everAcked,   \* history: the messages acknowledged to any consumer
  concluded,   \* history: the deliveries whose response was written, or whose
               \* call ended in an error
  deleted      \* history: whether Unsubscribe has deleted the consumer

server == <<exists, owned, acked, deliveries>>
history == <<everAcked, concluded, deleted>>
vars == <<server, inbox, callback, phase, slots, main, restarts, history>>

Messages == 1 .. MaxMessage
Deliveries == Messages \X (1 .. MaxDeliveries)
Message(d) == d[1]
DeliveriesOf(m) == {d \in Deliveries : Message(d) = m}
Nobody == <<0, 0>>
Working == {"invoke", "body", "error", "response", "ack", "release"}

(* initialiseConcurrency *)
Concurrency == IF CONCURRENT < 1 THEN 1 ELSE CONCURRENT

TypeOK ==
  /\ exists \in BOOLEAN /\ owned \in BOOLEAN
  /\ acked \subseteq Messages
  /\ deliveries \in [Messages -> 0 .. MaxDeliveries]
  /\ inbox \in Seq(Deliveries)
  /\ callback \in Deliveries \union {Nobody}
  /\ phase \in [Deliveries -> Working \union {"none", "waiting", "done", "lost"}]
  /\ slots \in 0 .. Concurrency
  /\ main \in {"subscribe", "run", "unsubscribe", "close", "exit", "down", "panicked"}
  /\ restarts \in 0 .. MaxRestarts
  /\ everAcked \subseteq Messages
  /\ concluded \subseteq Deliveries
  /\ deleted \in BOOLEAN

Init ==
  /\ exists = FALSE
  /\ owned = FALSE
  /\ acked = {}
  /\ deliveries = [m \in Messages |-> 0]
  /\ inbox = <<>>
  /\ callback = Nobody
  /\ phase = [d \in Deliveries |-> "none"]
  /\ slots = 0
  /\ main = "subscribe"
  /\ restarts = 0
  /\ everAcked = {}
  /\ concluded = {}
  /\ deleted = FALSE

Up == main \in {"run", "unsubscribe", "close", "exit"}
SemClosed == main = "exit"
Bound == main \in {"run", "unsubscribe"}

--------------------------------------------------------------------------------
(* Subscribing *)

\* Mutant of Subscribe: without a durable name every process gets a consumer
\* of its own.
SubscribeEphemeral ==
  /\ main = "subscribe"
  /\ main' = "run"
  /\ exists' = TRUE /\ owned' = TRUE /\ acked' = {}
  /\ UNCHANGED <<deliveries, inbox, callback, phase, slots, restarts, history>>
(* The durable consumer is found or, with no acknowledgements, created.     *)
Subscribe ==
  /\ main = "subscribe"
  /\ main' = "run"
  /\ exists' = TRUE
  /\ owned' = ~exists
  /\ acked' = IF exists THEN acked ELSE {}
  /\ UNCHANGED <<deliveries, inbox, callback, phase, slots, restarts, history>>

(* First deliveries come in order.  A message that is not acknowledged is   *)
(* delivered again when ACKWAIT is over, wherever its last delivery is.     *)
Deliver(m) ==
  /\ Bound /\ exists
  /\ m \notin acked
  /\ deliveries[m] < MaxDeliveries
  /\ \A n \in 1 .. m - 1 : deliveries[n] > 0
  /\ deliveries' = [deliveries EXCEPT ![m] = @ + 1]
  /\ inbox' = Append(inbox, <<m, deliveries[m] + 1>>)
  /\ phase' = [phase EXCEPT ![<<m, deliveries[m] + 1>>] = "waiting"]
  /\ UNCHANGED <<exists, owned, acked, callback, slots, main, restarts, history>>

(* The library calls the callback for the next delivery, one at a time, as  *)
(* long as it is subscribed.                                                *)
Call ==
  /\ Bound
  /\ callback = Nobody /\ inbox # <<>>
  /\ callback' = Head(inbox)
  /\ inbox' = Tail(inbox)
  /\ UNCHANGED <<server, phase, slots, main, restarts, history>>

--------------------------------------------------------------------------------
(* The callback and its goroutines *)

\* Mutant of TakeSlot: the goroutine starts before there is a slot for it.
TakeSlotUnconditionally ==
  /\ Up /\ callback # Nobody
  /\ ~SemClosed
  /\ slots' = slots + 1
  /\ phase' = [phase EXCEPT ![callback] = "invoke"]
  /\ callback' = Nobody
  /\ UNCHANGED <<server, inbox, main, restarts, history>>
(* concurrentSem <- 1 goes through and the goroutine starts. *)
TakeSlot ==
  /\ Up /\ callback # Nobody
  /\ ~SemClosed /\ slots < Concurrency
  /\ slots' = slots + 1
  /\ phase' = [phase EXCEPT ![callback] = "invoke"]
  /\ callback' = Nobody
  /\ UNCHANGED <<server, inbox, main, restarts, history>>

(* A send on the closed channel panics. *)
SendOnClosed ==
  /\ Up /\ callback # Nobody
  /\ SemClosed
  /\ main' = "panicked"
  /\ UNCHANGED <<server, inbox, callback, phase, slots, restarts, history>>

Go(d, from, to) ==
  /\ Up /\ phase[d] = from
  /\ phase' = [phase EXCEPT ![d] = to]
  /\ UNCHANGED <<exists, owned, deliveries, inbox, callback, main, restarts>>

(* HandleHTTPRequest returns its verdict (see Invocation), and the body of  *)
(* a response is read.                                                      *)
Respond(d) == Go(d, "invoke", "body") /\ UNCHANGED <<acked, slots, history>>

Fail(d) ==
  /\ Go(d, "invoke", "error") \/ Go(d, "body", "error")
  /\ concluded' = concluded \union {d}
  /\ UNCHANGED <<acked, slots, everAcked, deleted>>

ReadBody(d) == Go(d, "body", "response") /\ UNCHANGED <<acked, slots, history>>

(* Whether the error is written, cannot be written or has no topic to go to,*)
(* the message is acknowledged next.                                        *)
errorHandler(d) == Go(d, "error", "ack") /\ UNCHANGED <<acked, slots, history>>

\* Mutant of responseHandler: the caller does not look at the result.
responseHandlerAlwaysTrue(d) ==
  /\ Go(d, "response", "ack")
  /\ concluded' = concluded
  /\ UNCHANGED <<acked, slots, everAcked, deleted>>
(* Only a response that is written is acknowledged. *)
responseHandler(d) ==
  /\ \/ /\ ResponseTopicSet
        /\ Go(d, "response", "ack")
        /\ concluded' = concluded \union {d}
     \/ Go(d, "response", "release") /\ UNCHANGED concluded
  /\ UNCHANGED <<acked, slots, everAcked, deleted>>

(* An acknowledgement is sent and not confirmed: it may get lost, or find   *)
(* no consumer.                                                             *)
acknowledgeMsg(d) ==
  /\ Go(d, "ack", "release")
  /\ \/ /\ exists
        /\ acked' = acked \union {Message(d)}
        /\ everAcked' = everAcked \union {Message(d)}
     \/ UNCHANGED <<acked, everAcked>>
  /\ UNCHANGED <<slots, concluded, deleted>>

\* Mutant of ReleaseSlot: a goroutine that fails to publish keeps its slot.
ReleaseSlotIfAcked(d) ==
  /\ Go(d, "release", "done")
  /\ slots > 0
  /\ slots' = IF Message(d) \in acked THEN slots - 1 ELSE slots
  /\ UNCHANGED <<acked, history>>
(* <-concurrentSem.  Closing the channel leaves its elements to be received. *)
ReleaseSlot(d) ==
  /\ Go(d, "release", "done")
  /\ slots > 0 \/ SemClosed
  /\ slots' = IF slots > 0 THEN slots - 1 ELSE 0
  /\ UNCHANGED <<acked, history>>

--------------------------------------------------------------------------------
(* The end of a process *)

Interrupt ==
  /\ main = "run"
  /\ main' = "unsubscribe"
  /\ UNCHANGED <<server, inbox, callback, phase, slots, restarts, history>>

Unsubscribe ==
  /\ main = "unsubscribe"
  /\ main' = "close"
  /\ exists' = (exists /\ ~owned)
  /\ deleted' = (deleted \/ owned)
  /\ UNCHANGED <<owned, acked, deliveries, inbox, callback, phase, slots, restarts>>
  /\ UNCHANGED <<everAcked, concluded>>

CloseSem ==
  /\ main = "close"
  /\ main' = "exit"
  /\ UNCHANGED <<server, inbox, callback, phase, slots, restarts, history>>

(* Main returns, or the process crashes or gets another signal than an      *)
(* interrupt: what it held is lost.                                         *)
End ==
  /\ main = "exit" \/ (Up /\ restarts < MaxRestarts)
  /\ main' = "down"
  /\ inbox' = <<>> /\ callback' = Nobody /\ slots' = 0
  /\ phase' = [d \in Deliveries |->
                 IF phase[d] \in Working \union {"waiting"} THEN "lost" ELSE phase[d]]
  /\ UNCHANGED <<server, restarts, history>>

Restart ==
  /\ main = "down" /\ restarts < MaxRestarts
  /\ restarts' = restarts + 1
  /\ main' = "subscribe"
  /\ UNCHANGED <<server, inbox, callback, phase, slots, history>>

Handler(d) ==
  \/ Respond(d) \/ Fail(d) \/ ReadBody(d) \/ errorHandler(d) \/ responseHandler(d)
  \/ acknowledgeMsg(d) \/ ReleaseSlot(d)

Process == Subscribe \/ Call \/ TakeSlot \/ SendOnClosed \/ Unsubscribe \/ CloseSem

Next ==
  \/ Process \/ Interrupt \/ End \/ Restart
  \/ \E m \in Messages : Deliver(m)
  \/ \E d \in Deliveries : Handler(d)

Spec == Init /\ [][Next]_vars

(* The goroutines run and their calls return. *)
FairSpec ==
  Spec /\ WF_vars(Process) /\ \A d \in Deliveries : WF_vars(Handler(d))

--------------------------------------------------------------------------------
(* Properties *)

Handlers == {d \in Deliveries : phase[d] \in Working}

(* The semaphore holds one element per goroutine that handles a message, so *)
(* that at most CONCURRENT do (README: "Number of concurrent messages to    *)
(* process at one time"), also while redeliveries overtake their originals  *)
(* and a shutdown closes the channel.                                       *)
SlotsCountHandlers ==
  Up => slots = Cardinality(Handlers) /\ Cardinality(Handlers) <= Concurrency

Promise == INSTANCE AtLeastOnce WITH
  source <- [m \in Messages |-> IF m \in everAcked THEN "removed" ELSE "kept"],
  delivered <- deliveries,
  concluded <- [m \in Messages |-> Cardinality(concluded \intersect DeliveriesOf(m))]

(* The connector keeps the promise of AtLeastOnce: a message is acknowledged*)
(* only if one of its deliveries has its response in the response topic, or *)
(* ended in an error that was to be reported.  A response that could not be *)
(* written, an interrupt or a crash acknowledges nothing.                   *)
RefinesAtLeastOnce == Promise!Spec

(* The durable consumer remembers what was acknowledged (the comment on     *)
(* nats.Durable: without it "we will be reading records from the start"), so*)
(* crashes make no acknowledged message come again.  Only an interrupt does,*)
(* if it hits the process that created the consumer, which Unsubscribe then *)
(* deletes.                                                                 *)
AckedIsNeverRedelivered ==
  [][~deleted => \A m \in everAcked : deliveries'[m] = deliveries[m]]_vars

(* Every delivery that reaches a process is handled to the end, unless the  *)
(* process ends: no slot leaks, so nothing waits for one forever.           *)
EveryDeliveryIsHandled ==
  \A d \in Deliveries :
    (phase[d] = "waiting") ~> (phase[d] = "done" \/ main # "run")

(* The shutdown the log announces ("unsubscribing and closing connection...")*)
(* ends without a panic.  It does not if the callback is about to send on   *)
(* the semaphore, or waits for a slot, when the semaphore is closed.        *)
ShutdownNeverPanics == main # "panicked"

================================================================================
