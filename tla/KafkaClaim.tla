------------------------------- MODULE KafkaClaim -------------------------------
(***************************************************************************)
(* ConsumeClaim of the Kafka connector (kafka-http-connector/main.go): the *)
(* replicas of one consumer group take turns to own a partition; the owner *)
(* handles its messages one by one and marks the offset of those whose     *)
(* response it has published.  Sarama and the brokers are external: they   *)
(* fetch ahead, commit the marks now and then, and fence a session of an   *)
(* older generation, which goes on draining what it has fetched because    *)
(* the loop looks at nothing but claim.Messages().                         *)
(***************************************************************************)
EXTENDS Integers

CONSTANTS
  Members,           \* the replicas of the connector
  OffsetsInitial,    \* config.Consumer.Offsets.Initial: "oldest" or "newest"
  ResponseTopicSet,  \* whether RESPONSE_TOPIC is set
  ErrorTopicSet,     \* whether ERROR_TOPIC is set
  MaxOffset,         \* bound: how many messages are produced
  MaxGeneration,     \* bound: the last generation of the group
  MaxCrashes         \* bound: how many crashes of a replica there are

ASSUME ConfigAssumption ==
  /\ OffsetsInitial \in {"oldest", "newest"}
  /\ ResponseTopicSet \in BOOLEAN /\ ErrorTopicSet \in BOOLEAN
ASSUME BoundsAssumption ==
  MaxOffset \in Nat /\ MaxGeneration \in Nat \ {0} /\ MaxCrashes \in Nat

VARIABLES
  logEnd,      \* the offset the next message will get
  committed,   \* the group's committed offset, NoOffset if there is none
  generation,  \* the group's generation
  joining,     \* whether the group is being rebalanced
  sess,        \* sess[m]: the session of replica m
  crashes,     \* how many replicas have crashed
  finished,    \* history: offsets whose loop body has run to its end
  responses,   \* history: responses[o]: acknowledged writes of a response to o
  errors,      \* history: offsets with an acknowledged write of an error
  disturbed    \* history: whether a replica crashed, was thrown out of the
               \* group while it had a session, or lost its last commit

group == <<generation, joining, crashes>>
history == <<finished, responses, errors>>
vars == <<logEnd, committed, group, sess, history, disturbed>>

NoOffset == -1
Offsets == 0 .. MaxOffset - 1
Phases == {"idle", "invoke", "body", "error", "response"}
Sessions ==
  [gen : 0 .. MaxGeneration, cancelled : BOOLEAN, start : 0 .. MaxOffset,
   next : 0 .. MaxOffset, fetched : 0 .. MaxOffset, mark : 0 .. MaxOffset,
   phase : Phases]
SessionAt(g, o) ==
  [gen |-> g, cancelled |-> FALSE, start |-> o, next |-> o, fetched |-> o,
   mark |-> o, phase |-> "idle"]
NoSession == SessionAt(0, 0)

TypeOK ==
  /\ logEnd \in 0 .. MaxOffset
  /\ committed \in {NoOffset} \union 0 .. MaxOffset
  /\ generation \in 1 .. MaxGeneration
  /\ joining \in BOOLEAN
  /\ sess \in [Members -> Sessions]
  /\ crashes \in 0 .. MaxCrashes
  /\ finished \subseteq Offsets
  /\ responses \in [Offsets -> Nat]
  /\ errors \subseteq Offsets
  /\ disturbed \in BOOLEAN

Init ==
  /\ logEnd = 0
  /\ committed = NoOffset
  /\ generation = 1
  /\ joining = TRUE
  /\ sess = [m \in Members |-> NoSession]
  /\ crashes = 0
  /\ finished = {}
  /\ responses = [o \in Offsets |-> 0]
  /\ errors = {}
  /\ disturbed = FALSE

HasSession(m) == sess[m].gen > 0
Current(m) == sess[m].gen = generation
In(m, ph) == sess[m].phase = ph
Enter(m, ph) == sess' = [sess EXCEPT ![m].phase = ph]
Unmoved == UNCHANGED <<logEnd, committed, group, disturbed>>

--------------------------------------------------------------------------------
(* The loop of ConsumeClaim *)

(* A message comes out of claim.Messages() and its invocation begins.       *)
Receive(m) ==
  /\ HasSession(m) /\ In(m, "idle")
  /\ sess[m].next < sess[m].fetched
  /\ Enter(m, "invoke")
  /\ Unmoved /\ UNCHANGED history

(* HandleHTTPRequest returns its verdict (see Invocation). *)
Respond(m) ==
  /\ In(m, "invoke")
  /\ Enter(m, "body")
  /\ Unmoved /\ UNCHANGED history

Fail(m) ==
  /\ In(m, "invoke")
  /\ Enter(m, "error")
  /\ Unmoved /\ UNCHANGED history

ReadBody(m) ==
  /\ In(m, "body")
  /\ Enter(m, "response") \/ Enter(m, "error")
  /\ Unmoved /\ UNCHANGED history

\* Mutant of Finish: the mark runs one message ahead of what was handled.
FinishMarkingNext(m, mark) ==
  /\ sess' = [sess EXCEPT ![m].phase = "idle", ![m].next = @ + 1,
                          ![m].mark = IF mark THEN sess[m].next + 2 ELSE @]
  /\ finished' = finished \union {sess[m].next}
(* The loop body ends; session.MarkMessage moves the mark behind the message *)
(* only if it is to be marked.                                               *)
Finish(m, mark) ==
  /\ sess' = [sess EXCEPT ![m].phase = "idle", ![m].next = @ + 1,
                          ![m].mark = IF mark THEN sess[m].next + 1 ELSE @]
  /\ finished' = finished \union {sess[m].next}

(* An error is written to the error topic, if that is set and the write     *)
(* succeeds, and the message is not marked.                                 *)
errorHandler(m) ==
  /\ In(m, "error")
  /\ Finish(m, FALSE)
  /\ \/ ErrorTopicSet /\ errors' = errors \union {sess[m].next}
     \/ UNCHANGED errors
  /\ Unmoved /\ UNCHANGED responses

\* Mutant of responseHandler: the message is marked though the write failed.
responseHandlerAlwaysTrue(m) ==
  /\ In(m, "response")
  /\ Finish(m, TRUE)
  /\ \/ responses' = [responses EXCEPT ![sess[m].next] = IF ResponseTopicSet THEN @ + 1 ELSE @]
     \/ ResponseTopicSet /\ UNCHANGED responses
  /\ Unmoved /\ UNCHANGED errors
(* A response is written to the response topic, if that is set.  The mark   *)
(* follows unless the write fails.                                          *)
responseHandler(m) ==
  /\ In(m, "response")
  /\ \/ /\ Finish(m, TRUE)
        /\ responses' = [responses EXCEPT ![sess[m].next] = IF ResponseTopicSet THEN @ + 1 ELSE @]
     \/ ResponseTopicSet /\ Finish(m, FALSE) /\ UNCHANGED responses
  /\ Unmoved /\ UNCHANGED errors

--------------------------------------------------------------------------------
(* Sarama and the brokers *)

Produce ==
  /\ logEnd < MaxOffset
  /\ logEnd' = logEnd + 1
  /\ UNCHANGED <<committed, group, sess, history, disturbed>>

(* The partition consumer of a session that is not cancelled fetches ahead. *)
Fetch(m) ==
  /\ HasSession(m) /\ ~sess[m].cancelled
  /\ sess[m].fetched < logEnd
  /\ sess' = [sess EXCEPT ![m].fetched = @ + 1]
  /\ Unmoved /\ UNCHANGED history

(* The marks are committed now and then; a fenced commit is refused.        *)
CommitMarks(m) ==
  IF sess[m].mark > sess[m].start /\ Current(m)
    THEN committed' = sess[m].mark
    ELSE UNCHANGED committed

AutoCommit(m) ==
  /\ HasSession(m)
  /\ CommitMarks(m)
  /\ UNCHANGED <<logEnd, group, sess, history, disturbed>>

StartRebalance ==
  /\ ~joining /\ generation < MaxGeneration
  /\ joining' = TRUE
  /\ UNCHANGED <<logEnd, committed, generation, crashes, sess, history, disturbed>>

(* A heartbeat tells a session that the group is being rebalanced or that   *)
(* it is a session of an older generation.                                  *)
CancelSession(m) ==
  /\ HasSession(m) /\ ~sess[m].cancelled
  /\ joining \/ ~Current(m)
  /\ sess' = [sess EXCEPT ![m].cancelled = TRUE]
  /\ Unmoved /\ UNCHANGED history

\* Mutant of Release: the marks are not flushed when the session ends.
ReleaseWithoutFlush(m) ==
  /\ sess[m].cancelled /\ In(m, "idle") /\ sess[m].next = sess[m].fetched
  /\ sess' = [sess EXCEPT ![m] = NoSession]
  /\ UNCHANGED <<logEnd, committed, group, history, disturbed>>
(* ConsumeClaim returns when claim.Messages() is closed and drained; the    *)
(* session ends with a last commit, which may get lost.                     *)
Release(m) ==
  /\ sess[m].cancelled /\ In(m, "idle") /\ sess[m].next = sess[m].fetched
  /\ sess' = [sess EXCEPT ![m] = NoSession]
  /\ \/ CommitMarks(m) /\ UNCHANGED disturbed
     \/ UNCHANGED committed /\ disturbed' = TRUE
  /\ UNCHANGED <<logEnd, group, history>>

\* Mutant of StartOffset: what the group has committed is ignored.
StartOffsetInitial == IF OffsetsInitial = "oldest" THEN 0 ELSE logEnd
\* Mutant of StartOffset: without a committed offset the policies are swapped.
StartOffsetSwapped ==
  IF committed # NoOffset THEN committed
  ELSE IF OffsetsInitial = "newest" THEN 0
  ELSE logEnd
StartOffset ==
  IF committed # NoOffset THEN committed
  ELSE IF OffsetsInitial = "oldest" THEN 0
  ELSE logEnd

(* A new generation begins and m owns the partition.  A replica that still  *)
(* has a session has run into the rebalance timeout.                        *)
Rebalance(m) ==
  /\ joining /\ generation < MaxGeneration
  /\ ~HasSession(m)
  /\ generation' = generation + 1
  /\ joining' = FALSE
  /\ sess' = [sess EXCEPT ![m] = SessionAt(generation + 1, StartOffset)]
  /\ disturbed' = (disturbed \/ \E n \in Members : HasSession(n))
  /\ UNCHANGED <<logEnd, committed, crashes, history>>

(* A replica crashes, and starts again without a session. *)
Crash(m) ==
  /\ HasSession(m)
  /\ crashes < MaxCrashes /\ generation < MaxGeneration
  /\ crashes' = crashes + 1
  /\ joining' = (joining \/ Current(m))
  /\ sess' = [sess EXCEPT ![m] = NoSession]
  /\ disturbed' = TRUE
  /\ UNCHANGED <<logEnd, committed, generation, history>>

ConsumeClaim(m) ==
  Receive(m) \/ Respond(m) \/ Fail(m) \/ ReadBody(m) \/ errorHandler(m) \/ responseHandler(m)

Session(m) == Fetch(m) \/ CancelSession(m) \/ Release(m) \/ Rebalance(m)

Next ==
  \/ Produce \/ StartRebalance
  \/ \E m \in Members : ConsumeClaim(m) \/ Session(m) \/ AutoCommit(m) \/ Crash(m)

Spec == Init /\ [][Next]_vars

(* The loop runs whenever it can, its calls return, and the group makes     *)
(* progress: rebalances are begun and crashes happen, but not forever.      *)
FairSpec ==
  /\ Spec
  /\ \A m \in Members : WF_vars(ConsumeClaim(m)) /\ WF_vars(Fetch(m))
                        /\ WF_vars(CancelSession(m)) /\ WF_vars(Release(m))
  /\ WF_vars(\E m \in Members : Rebalance(m))

--------------------------------------------------------------------------------
(* Properties *)

(* Nothing is skipped: when the group starts from the oldest message, every *)
(* message below the committed offset has been through the whole loop body  *)
(* of some replica, whichever replicas crashed or were thrown out meanwhile.*)
CommittedIsFinished ==
  OffsetsInitial = "oldest" => \A o \in Offsets : o < committed => o \in finished

(* A failed message is committed only along with a later message that was   *)
(* answered: the last one committed has had its response written, whatever  *)
(* writes failed and whichever replica committed it.  (What lies below may  *)
(* have no response, nor even an error, and is read no more.)               *)
CommitEndsAtResponse ==
  ResponseTopicSet /\ committed > 0 => responses[committed - 1] > 0

(* A replica thrown out of the group never takes the committed offset back. *)
CommitNeverGoesBack == [][committed' >= committed]_vars

Log == INSTANCE LogConsumer WITH
  Partitions <- {"claimed"},
  FromStart <- OffsetsInitial = "oldest",
  end <- [p \in {"claimed"} |-> logEnd],
  handled <- [p \in {"claimed"} |-> finished],
  position <- [p \in {"claimed"} |-> IF committed = NoOffset THEN 0 ELSE committed]

(* The group keeps the promise of LogConsumer: what its replicas handle and *)
(* commit is there, the commit moves forward to a message just handled, and *)
(* from the oldest message on nothing is passed over, though replicas crash *)
(* and one that was thrown out of the group goes on.                        *)
RefinesLogConsumer == Log!Spec

(* As long as the replicas hand the partition over in good order, one of    *)
(* them at a time handles messages, and no message gets two responses.      *)
OrderlyHandoverIsExact ==
  ~disturbed =>
    /\ \A o \in Offsets : responses[o] <= 1
    /\ \A m, n \in Members : ~In(m, "idle") /\ ~In(n, "idle") => m = n

(* Starting from the oldest message, every message produced is handled in   *)
(* the end, though replicas may crash and the group may be rebalanced.      *)
EveryMessageIsHandled == \A o \in Offsets : (o < logEnd) ~> (o \in finished)

================================================================================
