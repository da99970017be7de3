------------------------- MODULE NatsStreamingConnector -------------------------
(***************************************************************************)
(* The NATS Streaming connector (nats-streaming-http-connector/main.go):   *)
(* the members of a queue group with a durable name, each with at most one *)
(* message in flight, which its callback acknowledges by hand when the     *)
(* response is published.  The server is external: it sends each message   *)
(* of the channel to some member and sends it again when AckWait runs out  *)
(* or the member leaves, and forgets the group when the last member        *)
(* unsubscribes.  Only SIGINT is handled; any other end is a crash.        *)
(***************************************************************************)
EXTENDS Integers, Sequences, FiniteSets

CONSTANTS
  Members,           \* the replicas of the connector
  ResponseTopicSet,  \* whether RESPONSE_TOPIC is set
  ErrorTopicSet,     \* whether ERROR_TOPIC is set
  MaxMessage,        \* bound: how many messages are published
  MaxDeliveries,     \* bound: how often the server sends a message
  MaxEnds            \* bound: how many crashes and interrupts there are

ASSUME ConfigAssumption == ResponseTopicSet \in BOOLEAN /\ ErrorTopicSet \in BOOLEAN
ASSUME BoundsAssumption ==
  MaxMessage \in Nat /\ MaxDeliveries \in Nat \ {0} /\ MaxEnds \in Nat

VARIABLES
  published,   \* external: how many messages the channel has
  durable,     \* external: whether the server knows the durable group
  lastSent,    \* external: the last message sent to the group
  acked,       \* external: the messages acknowledged by the group
  owner,       \* external: owner[m]: the member that has yet to acknowledge m
  deliveries,  \* external: deliveries[m]: how often m has been sent
  inbox,       \* inbox[r]: the deliveries that wait for the callback of r
  current,     \* current[r]: the delivery its callback is handling, or None
  step,        \* step[r]: where the callback is
  main,        \* main[r]: where the main and the interrupt goroutine are
  ends,        \* how many crashes and interrupts there have been
  answered,    \* history: the deliveries whose response was published
  reported,    \* history: the deliveries for which an error was published
  excused,     \* history: the deliveries not acknowledged before they were sent
               \* again or the process ended, those whose response is published
               \* although publishing failed, or whose acknowledgement failed
  everAcked,   \* history: the messages the server has ever taken as acknowledged
  forgotten    \* history: whether the server has ever forgotten the group

server == <<published, durable, lastSent, acked, owner, deliveries>>
callback == <<inbox, current, step>>
history == <<answered, reported, excused, everAcked, forgotten>>
vars == <<server, callback, main, ends, history>>

Messages == 1 .. MaxMessage
Deliveries == Messages \X (1 .. MaxDeliveries)
DeliveriesOf(m) == {d \in Deliveries : d[1] = m}
None == <<>>
Nobody == "nobody"
InHand(r) == {inbox[r][i] : i \in 1 .. Len(inbox[r])} \union ({current[r]} \ {None})

TypeOK ==
  /\ published \in 0 .. MaxMessage /\ lastSent \in 0 .. published
  /\ durable \in BOOLEAN /\ forgotten \in BOOLEAN
  /\ acked \subseteq 1 .. lastSent /\ everAcked \subseteq Messages
  /\ owner \in [Messages -> Members \union {Nobody}]
  /\ deliveries \in [Messages -> 0 .. MaxDeliveries]
  /\ inbox \in [Members -> Seq(Deliveries)]
  /\ current \in [Members -> Deliveries \union {None}]
  /\ step \in [Members -> {"idle", "error", "response", "ack", "ackError"}]
  /\ \A r \in Members : (current[r] = None) = (step[r] = "idle")
  /\ main \in [Members -> {"subscribe", "running", "interrupted", "unsubscribed", "closed", "exited"}]
  /\ ends \in 0 .. MaxEnds
  /\ answered \subseteq Deliveries /\ reported \subseteq Deliveries /\ excused \subseteq Deliveries

Init ==
  /\ published = 0 /\ durable = FALSE /\ lastSent = 0 /\ acked = {}
  /\ owner = [m \in Messages |-> Nobody]
  /\ deliveries = [m \in Messages |-> 0]
  /\ inbox = [r \in Members |-> <<>>]
  /\ current = [r \in Members |-> None]
  /\ step = [r \in Members |-> "idle"]
  /\ main = [r \in Members |-> "subscribe"]
  /\ ends = 0
  /\ answered = {} /\ reported = {} /\ excused = {} /\ everAcked = {}
  /\ forgotten = FALSE

--------------------------------------------------------------------------------
(* The server *)

Publish ==
  /\ published < MaxMessage
  /\ published' = published + 1
  /\ UNCHANGED <<durable, lastSent, acked, owner, deliveries, callback, main, ends, history>>

IsMember(r) == main[r] \in {"running", "interrupted"}

SendTo(m, r) ==
  /\ IsMember(r) /\ deliveries[m] < MaxDeliveries
  /\ deliveries' = [deliveries EXCEPT ![m] = @ + 1]
  /\ owner' = [owner EXCEPT ![m] = r]
  /\ inbox' = [inbox EXCEPT ![r] = Append(@, <<m, deliveries[m] + 1>>)]
  /\ UNCHANGED <<published, durable, acked, current, step, main, ends, answered, reported,
                 everAcked, forgotten>>

(* The option the group subscribes with.                                    *)
MaxInflight == 1

Deliver(r) ==
  /\ lastSent < published
  /\ Cardinality({m \in Messages : owner[m] = r}) < MaxInflight
  /\ SendTo(lastSent + 1, r)
  /\ lastSent' = lastSent + 1
  /\ UNCHANGED excused

(* AckWait has run out, or the member that had m has gone.                  *)
Redeliver(m, r) ==
  /\ m \in (1 .. lastSent) \ acked /\ deliveries[m] > 0
  /\ SendTo(m, r)
  /\ excused' = excused \union UNION {InHand(q) \intersect DeliveriesOf(m) : q \in Members}
  /\ UNCHANGED lastSent

Disown(r) == [m \in Messages |-> IF owner[m] = r THEN Nobody ELSE owner[m]]

Crash(r) ==
  /\ main[r] # "exited" /\ ends < MaxEnds
  /\ ends' = ends + 1
  /\ main' = [main EXCEPT ![r] = "subscribe"]
  /\ owner' = Disown(r)
  /\ excused' = excused \union InHand(r)
  /\ inbox' = [inbox EXCEPT ![r] = <<>>]
  /\ current' = [current EXCEPT ![r] = None]
  /\ step' = [step EXCEPT ![r] = "idle"]
  /\ UNCHANGED <<published, durable, lastSent, acked, deliveries, answered, reported,
                 everAcked, forgotten>>

--------------------------------------------------------------------------------
(* Subscribing, and the interrupt *)

\* Mutant of Subscribe: without a durable name.
SubscribeEphemeral(r) ==
  /\ main[r] = "subscribe"
  /\ main' = [main EXCEPT ![r] = "running"]
  /\ durable' = TRUE
  /\ IF \E q \in Members : IsMember(q) THEN UNCHANGED <<lastSent, acked>>
     ELSE lastSent' = 0 /\ acked' = {}
  /\ UNCHANGED <<published, owner, deliveries, callback, ends, history>>
\* Mutant of Subscribe: without DeliverAllAvailable.
SubscribeNewOnly(r) ==
  /\ main[r] = "subscribe"
  /\ main' = [main EXCEPT ![r] = "running"]
  /\ durable' = TRUE
  /\ IF durable THEN UNCHANGED <<lastSent, acked>> ELSE lastSent' = published /\ acked' = {}
  /\ UNCHANGED <<published, owner, deliveries, callback, ends, history>>
(* The durable group goes on where it was; a new one begins with the first  *)
(* message of the channel.                                                  *)
Subscribe(r) ==
  /\ main[r] = "subscribe"
  /\ main' = [main EXCEPT ![r] = "running"]
  /\ durable' = TRUE
  /\ IF durable THEN UNCHANGED <<lastSent, acked>> ELSE lastSent' = 0 /\ acked' = {}
  /\ UNCHANGED <<published, owner, deliveries, callback, ends, history>>

Interrupt(r) ==
  /\ main[r] = "running" /\ ends < MaxEnds
  /\ ends' = ends + 1
  /\ main' = [main EXCEPT ![r] = "interrupted"]
  /\ UNCHANGED <<server, callback, history>>

(* No more messages reach the callback.  If the request succeeds and r is   *)
(* the last member, the server forgets the group.                           *)
Unsubscribe(r) ==
  /\ main[r] = "interrupted"
  /\ main' = [main EXCEPT ![r] = "unsubscribed"]
  /\ inbox' = [inbox EXCEPT ![r] = <<>>]
  /\ excused' = excused \union {inbox[r][i] : i \in 1 .. Len(inbox[r])}
  /\ owner' = Disown(r)
  /\ durable' \in {TRUE, \E q \in Members \ {r} : IsMember(q)}
  /\ forgotten' = (forgotten \/ ~durable')
  /\ UNCHANGED <<published, lastSent, acked, deliveries, current, step, ends, answered,
                 reported, everAcked>>

CloseConnection(r) ==
  /\ main[r] = "unsubscribed"
  /\ main' = [main EXCEPT ![r] = "closed"]
  /\ UNCHANGED <<server, callback, ends, history>>

(* main receives from forever and returns, whatever the callback is doing.  *)
Exit(r) ==
  /\ main[r] = "closed"
  /\ main' = [main EXCEPT ![r] = "exited"]
  /\ excused' = excused \union InHand(r)
  /\ current' = [current EXCEPT ![r] = None]
  /\ step' = [step EXCEPT ![r] = "idle"]
  /\ UNCHANGED <<server, inbox, ends, answered, reported, everAcked, forgotten>>

Main(r) == Subscribe(r) \/ Unsubscribe(r) \/ CloseConnection(r) \/ Exit(r)

--------------------------------------------------------------------------------
(* The callback: one message at a time *)

(* HandleHTTPRequest returns its verdict (see Invocation); a response whose *)
(* body cannot be read is treated as an error.                              *)
Invoke(r) ==
  /\ step[r] = "idle" /\ inbox[r] # <<>>
  /\ current' = [current EXCEPT ![r] = Head(inbox[r])]
  /\ inbox' = [inbox EXCEPT ![r] = Tail(@)]
  /\ \E verdict \in {"response", "error"} : step' = [step EXCEPT ![r] = verdict]
  /\ UNCHANGED <<server, main, ends, history>>

(* The callback returns, and can be called for the next delivery.           *)
Return(r) ==
  /\ current' = [current EXCEPT ![r] = None]
  /\ step' = [step EXCEPT ![r] = "idle"]

(* Publishing fails on a closed connection, and may fail on any.            *)
CanPublish(r) == main[r] # "closed"

(* The error of the call, or of a failed acknowledgement.                   *)
errorHandler(r) ==
  /\ step[r] \in {"error", "ackError"}
  /\ Return(r)
  /\ \/ ErrorTopicSet /\ CanPublish(r) /\ reported' = reported \union {current[r]}
     \/ UNCHANGED reported
  /\ UNCHANGED <<server, inbox, main, ends, answered, excused, everAcked, forgotten>>

\* Mutant of responseHandler: a failure is not told from a success.
responseHandlerAlwaysTrue(r) ==
  /\ step[r] = "response"
  /\ step' = [step EXCEPT ![r] = "ack"]
  /\ answered' = answered \union {current[r]} \/ UNCHANGED answered
  /\ UNCHANGED <<server, inbox, current, main, ends, reported, excused, everAcked, forgotten>>
\* Mutant of responseHandler: it returns false on every path.
responseHandlerAlwaysFalse(r) ==
  /\ step[r] = "response"
  /\ Return(r)
  /\ answered' = answered \union {current[r]} \/ UNCHANGED answered
  /\ UNCHANGED <<server, inbox, main, ends, reported, excused, everAcked, forgotten>>
(* Without a topic, or when publishing is reported to have failed, there is *)
(* no acknowledgement.  Publishing waits for the server's confirmation: when*)
(* that is late, the response was published all the same.                   *)
responseHandler(r) ==
  /\ step[r] = "response"
  /\ \/ /\ ResponseTopicSet /\ CanPublish(r)
        /\ answered' = answered \union {current[r]}
        /\ \/ step' = [step EXCEPT ![r] = "ack"] /\ UNCHANGED <<current, excused>>
           \/ Return(r) /\ excused' = excused \union {current[r]}
     \/ Return(r) /\ UNCHANGED <<answered, excused>>
  /\ UNCHANGED <<server, inbox, main, ends, reported, everAcked, forgotten>>

(* The acknowledgement is only sent: it may be lost, or be too late for the *)
(* server to take it.  It may also fail, and does so after unsubscribing.   *)
Ack(r) ==
  /\ step[r] = "ack"
  /\ LET m == current[r][1] IN
       \/ /\ IsMember(r) /\ Return(r)
          /\ acked' = acked \union {m} /\ everAcked' = everAcked \union {m}
          /\ owner' = [owner EXCEPT ![m] = Nobody]
          /\ UNCHANGED excused
       \/ /\ \/ IsMember(r) /\ Return(r)
             \/ step' = [step EXCEPT ![r] = "ackError"] /\ UNCHANGED current
          /\ excused' = excused \union {current[r]}
          /\ UNCHANGED <<acked, everAcked, owner>>
  /\ UNCHANGED <<published, durable, lastSent, deliveries, inbox, main, ends, answered,
                 reported, forgotten>>

Callback(r) == Invoke(r) \/ errorHandler(r) \/ responseHandler(r) \/ Ack(r)

Next ==
  \/ Publish
  \/ \E r \in Members :
       \/ Deliver(r) \/ Crash(r) \/ Interrupt(r) \/ Main(r) \/ Callback(r)
       \/ \E m \in Messages : Redeliver(m, r)

Spec == Init /\ [][Next]_vars

(* The goroutines run; the server sends what it has, and sends it again.    *)
FairSpec ==
  /\ Spec
  /\ \A r \in Members : WF_vars(Main(r)) /\ WF_vars(Callback(r)) /\ WF_vars(Deliver(r))
  /\ \A m \in Messages : WF_vars(\E r \in Members : Redeliver(m, r))

--------------------------------------------------------------------------------
(* Properties *)

Promise == INSTANCE AtLeastOnce WITH
  source <- [m \in Messages |-> IF m > published THEN "absent"
                                ELSE IF m \in everAcked THEN "removed" ELSE "kept"],
  delivered <- deliveries,
  concluded <- [m \in Messages |-> Cardinality(answered \intersect DeliveriesOf(m))]

(* The connector keeps the promise of AtLeastOnce: only a message whose     *)
(* response was published is acknowledged, whatever fails, crashes or is    *)
(* interrupted in the meantime.                                             *)
RefinesAtLeastOnce == Promise!Spec

(* A response is published again only if the message was sent again while   *)
(* the first delivery was in hand, its process ended before it was done,    *)
(* publishing its response was reported to have failed although it had not, *)
(* its acknowledgement failed or was lost, or the group was forgotten.      *)
ResponseIsNotRepeated ==
  \A m \in Messages : \A d, e \in answered \intersect DeliveriesOf(m) :
    d[2] < e[2] => d \in excused \/ forgotten

(* The README says that DURABLE_NAME is "to resume message consumption from *)
(* where it previously stopped".  So it does after crashes, and interrupts  *)
(* of some members; when the last one unsubscribes it begins anew.          *)
AckedIsNeverRedelivered ==
  [][\A m \in everAcked : deliveries'[m] # deliveries[m] => forgotten]_vars

(* Every message is sent to a member, those included that were published    *)
(* before the first subscribed; unless all members end, or the bound on     *)
(* deliveries leaves a message unacknowledged for good.                     *)
EveryMessageIsSent ==
  \A m \in Messages :
    m <= published ~> \/ deliveries[m] > 0
                      \/ \A r \in Members : main[r] = "exited"
                      \/ \E n \in Messages \ acked : deliveries[n] = MaxDeliveries

================================================================================
