# A TLA+ model of the Fission KEDA connectors

The repository holds eight small programs ("connectors"). Each reads messages
from one message system, POSTs every message to an HTTP endpoint through
`common.HandleHTTPRequest`, and writes the response to a response topic or the
error to an error topic. KEDA scales the replicas of a connector up and down,
so rebalances, interrupts and redeliveries are ordinary events.

## 1. Inventory

| Part | State it keeps | Operations | Hard behaviour | What makes it correct |
| --- | --- | --- | --- | --- |
| `common/util.go`, `HandleHTTPRequest` | `attempt`, `resp` of each call | build, POST, judge a status, retry, describe the failure | a `resp` that outlives its attempt; status boundaries; a limit that may be negative | no POST after a success, no early error, the verdict is that of the last attempt |
| `common/util.go`, `ParseConnectorMetadata`, `GetAwsConfig` | none | read environment variables | none | – |
| Kafka, `ConsumeClaim` | the marked offset of each session; the group's committed offset | receive, invoke, write, mark | rebalances, fenced sessions that go on draining, crashes between write and commit | nothing is skipped; commits are monotonic and end at a response; good handovers do not duplicate |
| Kafka, `main` and `Setup` | `conn.ready`, context, wait group, producer | consume again and again, signal, close | two goroutines share `conn.ready` without synchronisation; double close; order of the end | no panic, producer open while claims run, a signal is obeyed |
| Kafka, configuration, SCRAM, TLS | none | set client options | none | – |
| NATS JetStream | durable consumer on the server, semaphore | callback, handler, acknowledge, unsubscribe, close the semaphore | redelivery while a delivery waits; shutdown against the callback | the semaphore counts handlers; acknowledged means concluded; acknowledged messages do not come again |
| RabbitMQ | semaphore, deliveries not acknowledged | range, handler, acknowledge | a channel closed under a handler; a lost consumer | the semaphore counts handlers; only messages with a response leave the queue; every message is handled |
| AWS Kinesis | map of shards, channel of shards, checkpoints | list shards, start workers, scan | resharding, failing requests, cancellation with a full channel | one worker per shard, records once and in order, none left out, checkpoints never ahead |
| AWS SQS | headers shared by all messages | receive a batch, handle one by one, send, delete | the visibility timeout runs during a batch; a request that failed may have been served | one outcome per receipt, deleted only if answered, responses repeated only for stated reasons |
| Redis | none; the pop removes the message | pop, handle, push; start again on errors | crash after the pop; a context cancelled during a call; an error that hides the cancellation | at most one call and one outcome per message, nothing forgotten outside failed calls, signals end the process |
| NATS Streaming | durable queue subscription on the server | callback, acknowledge, unsubscribe | one message in flight; redelivery after AckWait; a publication that is wrongly reported as failed; the last member unsubscribes | acknowledged only if answered; acknowledged messages do not come again while the group exists; every message is sent |
| GCP Pub/Sub | a mutex, headers shared by all messages | callback, acknowledge, publish | acknowledgement before publication; publications that fail after it; a wait group that is never done; headers that accumulate | acknowledged only if answered, a crash costs one response at most, every message goes out with its own attribute last |
| Test servers, producers, consumers | – | – | – | no part of a connector |

The connectors do not talk to each other. Each calls `HandleHTTPRequest` for
each message, and otherwise only its message system, which is *external* here:
modelled from what the connectors rely on, and no further.

## 2. Modules

| Module | Models | State and actions |
| --- | --- | --- |
| `Invocation` | what a connector may rely on in a call | how often a call has posted, its verdict |
| `HandleHTTPRequest` | the retry loop of `common/util.go` | `attempt`, `resp` as in the code; one action per outcome of an attempt; a response is its status code and whether its body can be read. Implements `Invocation` |
| `AtLeastOnce` | what a connector promises that acknowledges after it has concluded | how often each message was delivered and concluded, and whether its source still keeps it |
| `LogConsumer` | what a connector promises that reads partitions of a log, from which nothing is removed | how long each partition is, which of its records were handled, the position from which it goes on |
| `AtMostOnce` | what a connector promises that takes a message away before it handles it | how many were put and taken, which were handled, their outcomes |
| `KafkaClaim` | `ConsumeClaim`, `errorHandler`, `responseHandler`, the initial offset of `getConfig` | `sess[m]`: the session of a replica, with the message in its loop (`next`), what is fetched and what is marked. Implements `LogConsumer` |
| `KafkaReady` | `main` and `Setup` of the Kafka connector | `main` and `consumer` are the two goroutines; `ready` is the field `conn.ready`, its channels numbered as they are made; `awaited` the channel main waits on |
| `JetStreamConnector` | the JetStream connector, its crashes and restarts | `callback`, `phase[d]` of each delivery's goroutine, `slots` of `concurrentSem`, `main`. Implements `AtLeastOnce` |
| `RabbitMQConnector` | the RabbitMQ connector in several replicas | `phase[d]` of each delivery, `sem[r]` of each replica. Implements `AtLeastOnce` |
| `KinesisConnector` | one process of the Kinesis connector | `finder`, `main` and `worker[s]` are its goroutines; `shardc` the channel, `shards` and `checkpoints` the two maps. Implements `LogConsumer` |
| `SQSConnector` | `consumeMessage` of the SQS connector in several replicas | `batch[r]`: the receipts (message and number of its reception) that r has yet to handle, `message[r]` the one in hand, `step[r]` how far it is. Implements `AtLeastOnce` |
| `RedisConnector` | `consumeMessage` of the Redis connector and the goroutine of `main` that calls it again, in several replicas | `step[r]` and `message[r]` of that goroutine, `cancelled[r]` of its context. Implements `AtMostOnce` |
| `NatsStreamingConnector` | the NATS Streaming connector, members of one queue group | `current[r]`, `step[r]` of the callback, `main[r]` of the goroutine that waits for the interrupt. Implements `AtLeastOnce` |
| `PubSubConnector` | the Pub/Sub connector in one process | `step[d]` of each callback, `mu` the mutex, `headers` the shared headers, `acks` what the client has yet to send, `publication[d]` what became of the response or error. Implements `AtLeastOnce` |
| `MCHandleHTTPRequest` | – | gives the retry loop its constants for TLC; the other modules take theirs from the `.cfg` |
| `HandleHTTPRequest_proofs`, `Kafka_proofs`, `JetStreamConnector_proofs`, `RabbitMQConnector_proofs`, `AWS_proofs`, `RedisConnector_proofs`, `NatsStreamingConnector_proofs`, `PubSubConnector_proofs` | – | the theorems about the module of that name (section 4); `Kafka_proofs` is about `KafkaClaim` and `KafkaReady`, `AWS_proofs` about `SQSConnector` and `KinesisConnector`, which is why the names of `KafkaReady` and `KinesisConnector` carry a prefix |

An action stands for a handler up to its next external call: nothing but local
variables changes between. Inside a connector a call of `HandleHTTPRequest`
ends in a step of its own, so that everything else may happen before it does;
that the loop ends in one verdict is what `Invocation` says and
`HandleHTTPRequest` is shown to implement. Messages are numbers or model
values; their payload is left out, and their headers too except in
`PubSubConnector`, where messages share them. Writes to topics,
acknowledgements and commits may fail wherever the code handles or logs a
failure. A write that is reported as failed may have been stored all the same;
where a property turns on that (NATS Streaming, SQS, Redis) the model has that
outcome too. Elsewhere a response counts as written when the write was reported
as successful: in Kafka `responses` counts acknowledged writes, so that
`OrderlyHandoverIsExact` speaks of those, and in RabbitMQ, which publishes
without confirms, *written* means that `Publish` returned no error, not that the
broker has the response.

What a message's *conclusion* is in `AtLeastOnce` differs, and each refinement
mapping says which it is. In RabbitMQ, SQS and NATS Streaming a delivery
concludes when its response is written (or read, if there is no topic for it);
in JetStream an error that was to be reported concludes it as well, because the
code then acknowledges too, whether or not the error could be written; in
Pub/Sub it is the answer that was read, for the code acknowledges before it
publishes. Kafka and Kinesis remove nothing from their logs, and promise
`LogConsumer` instead. Its position is the group's commit in Kafka, and a record
is handled when the body of the loop has run to its end, with or without a
response. In Kinesis the position is the checkpoint, or what has been handled
while the shard is not in the map of checkpoints. A group that starts with the
policy "latest" promises less (`FromStart`): it may pass over messages.

Choices made for external parts:

* Kafka: a commit of an older generation is refused; marks only move forward
  within a session; a session reads from the committed offset. A rebalance may
  time out on a replica that is still busy. `disturbed` remembers that this, a
  crash or a lost last commit has happened.
* JetStream: deliveries are repeated while not acknowledged, at any time
  (ACKWAIT is not timed). The client library deletes a consumer on
  `Unsubscribe` if it created it. One process at a time is bound to the
  consumer, as the library requires of a durable push consumer.
* RabbitMQ: what a channel has not acknowledged returns to the queue when the
  channel is closed. The broker may close a channel or cancel a consumer.
* Kinesis: `GetRecords` may return any number of records up to the limit, none
  included, and no next iterator once a closed shard is read to its end.
* SQS: any set of visible messages may come in a batch; a visibility timeout
  may run out at any time; a request that is reported as failed may have been
  served. There is no signal handler, so the end of a replica is a crash.
* Redis: lists are first in, first out. The client (go-redis) returns from a
  blocked pop when its context is cancelled, and sends nothing under a
  cancelled context; a pop that fails may already have taken its message.
* NATS Streaming: a message that is not acknowledged goes to any member again,
  when AckWait runs out or its member leaves. The server keeps the durable
  group when a connection closes and forgets it when the last member
  unsubscribes. `Publish` returns an error when the server's confirmation is
  late, whether the server has stored the response or not. An acknowledgement is
  lost, or reported as failed, at any time. Only SIGINT is handled; any other
  end is a crash.
* Pub/Sub: the client starts a callback in a goroutine of its own for every
  message; an acknowledgement arrives some time after `Ack` returns, unless the
  process crashes before. A panic (the code goes on with a nil client when
  `NewClient` has failed) ends the process like a crash. A publication is made
  in the background: it arrives or fails some time after `Publish` returns (no
  such topic, no permission, a deadline, the end of the process).

## 3. Runs

`tlc -config X.cfg M` in this directory, M being the module in brackets. All
runs switch off the deadlock check, as the bounds, or the end of the program,
let the system stop.

| Config | Shows | Bounds, and why they suffice |
| --- | --- | --- |
| `MCHandleHTTPRequest` (module of that name) | The loop keeps `Invocation`, posts nothing after a success, and returns the outcome of its last attempt | a call with three attempts and one with none; statuses 101 (the one below 200 that Go's client returns), 200, 299, 300, 301, 500: both sides of every test, and every order of success, failure and no answer |
| `MCKafkaClaim` (`KafkaClaim`) | `LogConsumer`, nothing skipped, monotonic commits that end at a response, exact handovers, every message handled | two replicas, two messages, three sessions, one crash: an old owner, its successor, and a third session that reads what either committed; the first of two messages may be covered by the mark of the second |
| `MCKafkaReady` (`KafkaReady`) | No double close, signal obeyed, main goes on after a set-up | five calls of `Consume`: any mix of failed and completed sessions before and after main loads the field |
| `MCJetStream` (`JetStreamConnector`) | Semaphore, `AtLeastOnce`, redelivery of what was acknowledged only after the consumer was deleted, no slot lost | two messages delivered up to twice, two slots, a crash or interrupt and one restart: an original and its redelivery may be handled at a time, and a third delivery waits |
| `MCRabbitMQ` (`RabbitMQConnector`) | Semaphore, `AtLeastOnce`, exactness while no channel is closed, every message handled | two replicas with one slot, two messages, one lost channel or consumer: a slot that is lost stops its replica |
| `MCKinesis` (`KinesisConnector`) | `LogConsumer`, one worker per shard, order, checkpoints, every record handled, cancellation ends the process | two shards of two records in batches of up to two; both may appear and close late, and the channel, of capacity one, can be full |
| `MCSQS` (`SQSConnector`) | `AtLeastOnce`, one outcome per receipt, responses repeated only for stated reasons | two replicas, two messages received up to twice, one crash: the second of a batch can time out while the first is handled, and be handled by the other replica at the same time |
| `MCRedis` (`RedisConnector`) | `AtMostOnce`, nothing forgotten outside failed calls and crashes, a signal ends its replica | two replicas, three messages, one crash, a signal for each: both work while a third message waits, and either may stop or fail in any step |
| `MCNatsStreaming` (`NatsStreamingConnector`) | `AtLeastOnce`, acknowledged messages stay so, responses repeated only for stated reasons, every message sent | two members, two messages sent up to twice, one crash or interrupt: a redelivery can overtake its original at the other member |
| `MCPubSub` (`PubSubConnector`) | `AtLeastOnce`, a crash between acknowledgement and publication costs one response at most, own attribute last, callbacks end | two messages with an attribute, each given up to twice, one crash, all four choices of topics: two callbacks compete for the mutex, headers carry over, and both messages may be in the process, acknowledged or not, when it crashes |

What the code does against what one may expect of it is part of these runs
where a condition of a property names it:

* Kafka: a message whose response could not be written is not marked, yet
  committed with the next one that is; `CommitEndsAtResponse` says only that the
  *last* message committed has its response. `UpWhenSetUp` excepts `LeftBehind`:
  if `Consume` fails before main receives from the channel it has loaded, that
  channel is replaced and nobody closes it.
* `HandleHTTPRequest`: a status of 300 is retried as a failure and, after the
  last attempt, returned as a response (`< 300` in the loop, `> 300` after it).
  `OutcomeIsOfLastAttempt` holds on either side.
* RabbitMQ: a process that has lost its consumer runs on without consuming;
  `EveryMessageIsHandled` holds while one replica has its consumer.
* Kinesis: a worker ends on one failed request and is not started again;
  `EveryRecordIsHandled` excepts shards whose worker has ended.
* JetStream and NATS Streaming: the interrupt unsubscribes. The consumer, or
  the group with its last member, is then gone, and with it what was
  acknowledged: the exceptions `deleted` and `forgotten`.
* Pub/Sub: the message is acknowledged before its response is published, and a
  publication that fails is only logged, so its response is lost while the
  process lives. `CrashLosesOneResponse` says nothing of that: it counts what was
  never handed to the publisher.
* NATS Streaming: a publication that is reported as failed leaves its message
  unacknowledged, even if the response was stored; when the message comes again
  the response is repeated, one of the reasons `ResponseIsNotRepeated` names.
* Pub/Sub: the headers are shared and only grow; `OwnAttributeIsLast` says what
  the mutex nevertheless guarantees.

Two statements of the repository fail outright; a run shows the counterexample
of each:

* `MCJetStream_panic` (`ShutdownNeverPanics`): the shutdown, announced as
  graceful, closes the semaphore while the callback is about to send on it.
* `MCPubSub_wait` (`PublicationEnds`): the comment says that the wait ends when
  the result is there; it comes, but nothing counts the wait group down, so that a
  callback that has published waits for ever with the mutex held. In `MCPubSub`
  this is the exception of `CallbackEndsUnlessPublished`.

The runs leave out what a theorem states for all constants and a run would only
repeat: `TypeOK` of every module, `ErrorOnlyWhenExhausted` and
`ProducerOutlivesClaims`.

Definitions marked "Mutant of ..." are variants with a plausible mistake. They
belong to no specification; each breaks a property, which shows that the
property depends on the code it is about.

### Fairness

Goroutines that can run do run (weak fairness of each goroutine, or of each
handler), and calls to external systems return. That an HTTP call returns is an
assumption about the endpoint and the network: the code sets no timeout. Beyond
that:

* `KafkaClaim`: the group coordinator completes a rebalance it has begun, and
  heartbeats report it. Nothing obliges a rebalance to begin or a replica to crash.
* `KafkaReady`: a session ends once its context is cancelled, which is what
  Sarama promises; sessions and signals are otherwise free.
* `RabbitMQConnector`: the broker delivers what is ready; strong fairness of
  `Receive`, since the channel of deliveries is a queue, so that none is passed
  over forever.
* `KinesisConnector`: strong fairness of requests that return records, and of
  those that return an iterator: a consumer that keeps asking is served now and
  then. Only `EveryRecordIsHandled` needs it.
* `RedisConnector`: a pop whose context is cancelled returns, as the client
  closes its connection.
* `NatsStreamingConnector`: the server sends what it can send and repeats what
  is not acknowledged. Crashes and interrupts are free.
* `PubSubConnector`: strong fairness of each callback, as Go's mutex lets no
  waiter starve; a publication has a result, good or bad.

## 4. Proofs

`tlapm M.tla` checks a module. Nothing is assumed but the named assumptions on
constants, which say that bounds are natural numbers and switches Booleans, and
besides: `RetriesAssumption` (retry limits are integers, negative ones
included), `StatusesAssumption` (status codes are 1 to 999, so that 0 can stand
for no response), a natural `CONCURRENT` and at least one replica for RabbitMQ,
any integer `CONCURRENT` for JetStream, batches and requests of at least one
message for SQS and Kinesis. Sets of messages, shards, members and replicas may
be of any size.

Each proof module defines an inductive invariant `IInv`, proves `InitInv` and
`NextInv` (action by action), and derives the theorems from it; every one was
first checked by TLC. The modules about two programs have a second one
(`ProcessInv` for `KafkaReady`, `KinesisInv` for `KinesisConnector`). It always
contains `TypeOK`, which is the theorem `TypeCorrect` (`ProcessTypeCorrect`,
`KinesisTypeCorrect`). What it adds, and why the properties are not inductive
without:

* `HandleHTTPRequest_proofs` (`PostsEndWithSuccess`, `ErrorsAreExhausted`,
  `OutcomesAreOfLastAttempt`). The properties speak of a call that has returned
  and say nothing of the loop on its way there. `Counted`: the number of
  recorded answers is the loop variable; `LastKept`: `resp` is the last answer;
  `Outcome`: no attempt so far was accepted while the call is in the loop.
  `ImplementsInvocation`: the POSTs of the abstract call are the answers
  recorded plus the one in flight, and `Counted` bounds them by the limit.
* `Kafka_proofs`, the claims (`NothingIsSkipped`, `ResponseBeforeCommit`,
  `OrderlyIsExact`, `CommitMovesForward`, `KafkaImplementsLogConsumer`). A
  commit comes from a mark, so what is claimed of commits must hold of marks:
  `PassedIsFinished`, `MarkEndsAtResponse`. That an old session does not take the commit back rests
  on `OnePerGeneration` (no two sessions have the same generation) and
  `CommitIsBehind` (the commit is not ahead of the current session's mark).
  `Undisturbed` is the exact bookkeeping of a group that nothing has disturbed:
  at most one session, and every response below its mark or, if that has not
  moved, below the commit. `KafkaImplementsLogConsumer` needs two facts more
  (`LogInv`): sessions fetch, and the group commits, only what is in the log
  (`WithinLog`), and a mark that has moved stands behind a finished message
  (`MarkIsFinished`). The end of the loop body is then a step that handles, a
  commit that goes through one that moves the position, or a stutter if it
  repeats the last one; everything else but a new message is a stutter.
* `Kafka_proofs`, the process (`SetupNeverPanics`, `ProducerIsOpen`).
  `ReadyIsOpen`: while the consuming goroutine is in `Consume` before `Setup`, the channel in
  `conn.ready` is open, as channels are numbered and only those before it have
  been closed. `ClosedAfterConsumer`: main closes the producer only when the
  consuming goroutine is done.
* `JetStreamConnector_proofs` (`SlotsAreExact`, `AcknowledgedStays`,
  `ImplementsAtLeastOnce`) and `RabbitMQConnector_proofs` (`SlotsAreExact`,
  `ExactWhileOpen`, `ImplementsAtLeastOnce`). `Slots` adds to the count that the
  set of handlers is finite, which the lemmas on cardinality need;
  `ConcludedByPhase` and `WrittenByPhase` tell from the place of a handler what
  it has done; `WereDelivered` that only delivered messages have handlers, so
  that the abstract count of conclusions stays below that of deliveries.
  `Remembered` (JetStream): as long as it is not deleted the consumer holds all
  acknowledgements. `DeliveredOnce` (RabbitMQ): while no channel is closed
  nothing is delivered again.
* `AWS_proofs`, Kinesis (`OneWorker`, `InOrderOnce`, `CheckpointIsSafe`,
  `KinesisImplementsLogConsumer`). `SentOnce`: a shard is in the map before it is in the channel, and in the
  channel before it has its worker. `Position`: how far the handled records and
  the checkpoint are apart in each phase of a worker; `BatchFollows`: the
  records a worker holds are those behind its checkpoint, and reach the end of
  the shard if there is no next iterator. The last is why a shard that is given
  up has been handled to its end. `BatchIsThere` adds for the refinement that
  what a worker holds is in the shard; by `Position` the checkpoint is, between
  a call and its `Store`, one record behind what was handled, and otherwise not
  at all, so that the one is a step that handles and the other moves.
* `AWS_proofs`, SQS (`OneOutcome`, `NoRepetition`,
  `ImplementsAtLeastOnce`). `Disjoint`: no receipt is in two batches;
  `OutcomeInHand`: in a batch only the receipt about to be deleted is answered;
  `DoneIsDeleted` and `SupersededIsExcused`: an answered receipt has deleted its
  message or is excused, and so is one that is overtaken by a later reception.
* `RedisConnector_proofs` (`NothingIsForgotten`, `ImplementsAtMostOnce`).
  `Exclusive`: no two replicas hold the same message; `InHand`: a message in
  hand has been handled just if its replica is past the call, and has neither
  been concluded nor lost.
* `NatsStreamingConnector_proofs` (`NoResponseRepeated`, `AckedNotRedelivered`,
  `ImplementsAtLeastOnce`). A delivery is a message and the number of times it
  was sent. `AreSent`: what is in hand or answered was sent; `InOneHand`: it is
  in one place only; `AnsweredByStep`: what is in hand is answered just when its
  acknowledgement is due. `RepeatsAreExcused` is the reason a response is not
  repeated: unless the group was forgotten, a delivery after which the message
  was sent again is excused, and an answered one that is no more in hand is
  acknowledged or excused. It becomes one in the step that publishes its
  response, if that is reported to have failed. `Group` and `HandsByMain` keep apart what
  unsubscribing does and what a crash does: until the server forgets the group
  it goes on where it was, and only a member is given messages.
* `PubSubConnector_proofs` (`CrashCostsOneResponse`, `AttributeIsOwn`,
  `ImplementsAtLeastOnce`). The callbacks leave the mutex to one another, so
  each is described by its step: `DeliveredByStep` (which deliveries have a
  callback), `AcceptedByStep` (where it is when its answer has been read).
  `AcksAreSecured`: an acknowledgement, under way or arrived, is of a delivery
  whose answer was read, and whose response was handed to the publisher, is
  about to be, or was lost in a crash. `OneLossPerCrash` counts the last: an
  answer that was read belongs to the callback that holds the mutex, if it is
  still in the process, so that a crash adds one at most. Each message whose
  response is in no publication has one of them, which bounds their number
  (`FS_Surjection`). `OwnHeaderIsLast`: the callback that holds the mutex
  finds its own attribute last in the shared headers; the property at the
  publication follows.

Refinements are proved by mapping the initial states and every action to an
abstract action or a stutter. Where a conclusion is counted, the abstract number
is a cardinality, and `FS_AddElement` shows that it grows by one.

Every safety property of the passing runs, invariant, action property or
refinement, is stated by a theorem. Only model-checked: the ten liveness
properties (of Kafka, JetStream, RabbitMQ, Kinesis, Redis, NATS Streaming and
Pub/Sub), as the prover has no rules for fairness and `ENABLED`. The retry loop
and SQS have no liveness property: their loops are bounded by the limit and the
batch, and the rest is up to the endpoint and the queue.

## 5. Not modelled

* Configuration and client set-up: sections of the `main` functions,
  `ParseConnectorMetadata`, `GetAwsConfig`, `GetGCPInfo`, `scram_client.go`,
  `NewTLSConfig`. They read the environment once, before anything runs; their
  results are constants of the models, or end the process at its start.
* Message headers, except for the shared ones of Pub/Sub. Those of SQS are
  shared too, in one goroutine: what is carried over there follows from the
  order of the messages alone.
* The texts of errors, responses and logs.
* Timing: tickers, timeouts, ACKWAIT, leases and visibility timeouts may fire at
  any time they may matter. Connections and memory.
* Kafka's policy "latest" is a constant of `KafkaClaim`, but its runs use
  "earliest": with "latest" messages are skipped on purpose.
* Restarts of Kinesis: checkpoints are in memory, so a new process is a new
  behaviour. Pages of a shard list beyond the first, which the code does not
  read.
* A negative `CONCURRENT` of RabbitMQ panics at the start and is excluded by
  assumption. Connectors without a response topic: the switches are constants,
  and the theorems hold for both values, but the runs (other than those of
  Pub/Sub) set the topics.
* The end of `Receive` of Pub/Sub with an error, after which the process ends.

## 6. What could follow

`KafkaProcess`, composing `KafkaReady` with `KafkaClaim`: the end of the process
during a session, and the commit of its marks.
