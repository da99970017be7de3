------------------------------- MODULE AWS_proofs -------------------------------
(***************************************************************************)
(* Proofs about the two connectors of AWS.  SQS, for any queue, number of  *)
(* replicas and size of the batches: what is deleted was answered, a       *)
(* receipt has one outcome, and a response is repeated only for the        *)
(* reasons named.  Kinesis, for any shards, number of records and size of  *)
(* the requests: a shard has one worker, which handles its records once    *)
(* and in order, gives up only a shard read to its end, and consumes it as *)
(* LogConsumer says.                                                       *)
(***************************************************************************)
EXTENDS SQSConnector, KinesisConnector, FiniteSetTheorems, TLAPS

(* SQS: the inductive invariant *)

(* A receipt is in the batch of one replica.                                *)
Disjoint == \A q, r \in Replicas : q # r => batch[q] \intersect batch[r] = {}

(* Only receptions that took place are on record, and only of messages that *)
(* were sent.                                                               *)
WereReceived ==
  /\ \A d \in Held \union answered \union reported \union excused : d[2] <= receives[Message(d)]
  /\ \A m \in Messages : queue[m] = "absent" => receives[m] = 0

(* What is in a batch has no outcome, but for a message about to be deleted.*)
OutcomeInHand ==
  \A r \in Replicas : \A d \in batch[r] :
    /\ d \notin reported
    /\ d \in answered <=> d = message[r] /\ step[r] = "delete"

(* An answered receipt that is done without excuse has deleted its message. *)
DoneIsDeleted ==
  \A d \in answered : d \in Held \/ d \in excused \/ queue[Message(d)] = "deleted"

(* A receipt that is in hand or answered when its message can be received   *)
(* again, or has been, is excused.                                          *)
SupersededIsExcused ==
  \A d \in Held \union answered :
    d[2] < receives[Message(d)] \/ queue[Message(d)] = "visible" => d \in excused

IInv ==
  /\ TypeOK
  /\ Disjoint /\ WereReceived /\ OutcomeInHand /\ DoneIsDeleted /\ SupersededIsExcused
  /\ EveryReceiptHasOneOutcome

LEMMA InitInv == Init => IInv
<1> SUFFICES ASSUME Init PROVE IInv
  OBVIOUS
<1>1. Held = {}
  BY DEF Init, Held
<1>2. TypeOK
  BY BoundsAssumption DEF Init, TypeOK
<1>3. EveryReceiptHasOneOutcome
  BY DEF Init, EveryReceiptHasOneOutcome, ReceiptsOf, Receipts
<1> QED
  BY <1>1, <1>2, <1>3
     DEF Init, IInv, Disjoint, WereReceived, OutcomeInHand, DoneIsDeleted, SupersededIsExcused

--------------------------------------------------------------------------------
(* Every step keeps the types. *)

LEMMA InHand ==
  ASSUME TypeOK, NEW r \in Replicas, step[r] # "range"
  PROVE  message[r] \in batch[r] /\ message[r] \in Receipts /\ Message(message[r]) \in Messages
BY DEF TypeOK, Receipts, Message

LEMMA DoneTypes ==
  ASSUME TypeOK, NEW r \in Replicas, NEW from, Done(r, from)
  PROVE  /\ batch' \in [Replicas -> SUBSET Receipts]
         /\ message' \in [Replicas -> Receipts \union {None}]
         /\ step' \in [Replicas -> {"range", "error", "response", "delete"}]
         /\ \A q \in Replicas : message'[q] \in batch'[q] \/ (message'[q] = None /\ step'[q] = "range")
         /\ receives' = receives /\ crashes' = crashes
BY DEF TypeOK, Done

LEMMA TypeStep == TypeOK /\ [Next]_vars => TypeOK'
<1> SUFFICES ASSUME TypeOK, [Next]_vars PROVE TypeOK'
  OBVIOUS
<1> USE DEF inQueue, replica, history
<1>1. ASSUME NEW m \in Messages, Send(m) PROVE TypeOK'
  BY <1>1 DEF Send, TypeOK
<1>2. ASSUME NEW m \in Messages, Expire(m) PROVE TypeOK'
  BY <1>2 DEF Expire, TypeOK, ReceiptsOf
<1>3. ASSUME NEW r \in Replicas, Crash(r) PROVE TypeOK'
  BY <1>3, BoundsAssumption DEF Crash, TypeOK
<1>4. ASSUME NEW r \in Replicas, NEW new \in SUBSET Messages, Receive(r, new) PROVE TypeOK'
  <2> DEFINE receipts == {<<m, receives[m] + 1>> : m \in new}
  <2>1. receives' \in [Messages -> 0 .. MaxReceives] /\ queue' \in [Messages -> {"absent", "visible", "hidden", "deleted"}]
    BY <1>4, BoundsAssumption DEF Receive, TypeOK
  <2>2. receipts \subseteq Receipts
    BY <1>4, BoundsAssumption DEF Receive, TypeOK, Receipts
  <2>3. \/ batch' = [batch EXCEPT ![r] = receipts] /\ excused' = excused
        \/ batch' = batch /\ excused' = excused \union receipts
    BY <1>4 DEF Receive
  <2>4. message[r] = None /\ step[r] = "range"
    BY <1>4 DEF Receive, TypeOK
  <2> HIDE DEF receipts
  <2> QED
    BY <1>4, <2>1, <2>2, <2>3, <2>4 DEF Receive, TypeOK
<1>5. ASSUME NEW r \in Replicas, Invoke(r) PROVE TypeOK'
  BY <1>5 DEF Invoke, TypeOK
<1>6. ASSUME NEW r \in Replicas, errorHandler(r) PROVE TypeOK'
  BY <1>6, DoneTypes, InHand DEF errorHandler, TypeOK, Done
<1>7. ASSUME NEW r \in Replicas, responseHandler(r) PROVE TypeOK'
  <2>1. message[r] \in Receipts
    BY <1>7, InHand DEF responseHandler, Go, Done
  <2>2. CASE Go(r, "response", "delete") /\ UNCHANGED <<batch, message, excused>> /\ answered' = answered \union {message[r]}
    BY <1>7, <2>1, <2>2 DEF responseHandler, Go, TypeOK
  <2>3. CASE Done(r, "response") /\ excused' = excused \union {message[r]} /\ UNCHANGED answered
    BY <1>7, <2>1, <2>3, DoneTypes DEF responseHandler, TypeOK
  <2> QED
    BY <1>7, <2>2, <2>3 DEF responseHandler
<1>8. ASSUME NEW r \in Replicas, deleteMessage(r) PROVE TypeOK'
  <2>1. message[r] \in Receipts
    BY <1>8, InHand DEF deleteMessage, Done
  <2> QED
    BY <1>8, <2>1, DoneTypes DEF deleteMessage, TypeOK
<1>9. CASE UNCHANGED vars
  BY <1>9 DEF vars, TypeOK
<1> QED
  BY <1>1, <1>2, <1>3, <1>4, <1>5, <1>6, <1>7, <1>8, <1>9 DEF Next, Handle

--------------------------------------------------------------------------------
(* Every step keeps the invariant. *)

LEMMA IsHeld == \A d : d \in Held <=> \E r \in Replicas : d \in batch[r]
  BY DEF Held

LEMMA IsReceipt ==
  ASSUME TypeOK, NEW d \in Held \union answered \union reported \union excused
  PROVE  /\ d \in Receipts /\ Message(d) \in Messages
         /\ d[2] \in Nat \ {0} /\ receives[Message(d)] \in Nat
<1>1. d \in Receipts
  BY DEF TypeOK, Held
<1>2. d[2] \in 1 .. MaxReceives /\ d[1] \in Messages
  BY <1>1 DEF Receipts
<1> QED
  BY <1>1, <1>2, BoundsAssumption DEF TypeOK, Message

(* What becomes of the batches when the replica is done with its message.   *)
LEMMA DoneBatch ==
  ASSUME TypeOK, Disjoint, NEW r \in Replicas, NEW from \in {"error", "response", "delete"},
         Done(r, from)
  PROVE  /\ \A q \in Replicas :
              IF q = r THEN /\ batch'[q] = batch[q] \ {message[r]} /\ message'[q] = None
                            /\ step'[q] = "range"
              ELSE batch'[q] = batch[q] /\ message'[q] = message[q] /\ step'[q] = step[q]
         /\ Held' = Held \ {message[r]}
         /\ message[r] \in batch[r] /\ message[r] \in Held
         /\ step[r] = from /\ receives' = receives
<1>1. \A q \in Replicas :
        IF q = r THEN /\ batch'[q] = batch[q] \ {message[r]} /\ message'[q] = None
                      /\ step'[q] = "range"
        ELSE batch'[q] = batch[q] /\ message'[q] = message[q] /\ step'[q] = step[q]
  BY DEF Done, TypeOK
<1>2. message[r] \in batch[r] /\ step[r] = from /\ receives' = receives
  BY InHand DEF Done
<1>3. Held' = Held \ {message[r]}
  BY <1>1, <1>2 DEF Held, Disjoint
<1> QED
  BY <1>1, <1>2, <1>3, IsHeld

LEMMA NextInv == IInv /\ [Next]_vars => IInv'
<1> SUFFICES ASSUME IInv, [Next]_vars PROVE IInv'
  OBVIOUS
<1>0. TypeOK /\ TypeOK'
  BY TypeStep DEF IInv
<1> DEFINE Rest == /\ Disjoint /\ WereReceived /\ OutcomeInHand /\ DoneIsDeleted
                   /\ SupersededIsExcused /\ EveryReceiptHasOneOutcome
<1>01. Rest
  BY DEF IInv
<1>02. \A d \in Held \union answered \union reported \union excused :
         d \in Receipts /\ Message(d) \in Messages /\ d[2] \in Nat \ {0} /\ receives[Message(d)] \in Nat
  BY <1>0, IsReceipt
<1> USE DEF inQueue, replica, history
<1>1. ASSUME NEW m \in Messages, Send(m) PROVE Rest'
  <2>1. /\ \A n \in Messages : queue'[n] = IF n = m THEN "visible" ELSE queue[n]
        /\ queue[m] = "absent" /\ receives[m] = 0
        /\ receives' = receives /\ batch' = batch /\ message' = message /\ step' = step
        /\ answered' = answered /\ reported' = reported /\ excused' = excused /\ Held' = Held
    BY <1>0, <1>01, <1>1 DEF Send, TypeOK, WereReceived, Held
  <2>2. Disjoint' /\ OutcomeInHand' /\ EveryReceiptHasOneOutcome'
    BY <1>01, <2>1 DEF Disjoint, OutcomeInHand, EveryReceiptHasOneOutcome, ReceiptsOf
  <2>3. WereReceived'
    BY <1>01, <2>1 DEF WereReceived
  <2>4. \A d \in Held \union answered : Message(d) # m
    BY <1>01, <1>02, <2>1 DEF WereReceived
  <2>5. DoneIsDeleted' /\ SupersededIsExcused'
    BY <1>01, <1>02, <2>1, <2>4 DEF DoneIsDeleted, SupersededIsExcused
  <2> QED
    BY <2>2, <2>3, <2>5
<1>2. ASSUME NEW m \in Messages, Expire(m) PROVE Rest'
  <2>1. /\ \A n \in Messages : queue'[n] = IF n = m THEN "visible" ELSE queue[n]
        /\ queue[m] = "hidden"
        /\ receives' = receives /\ batch' = batch /\ message' = message /\ step' = step
        /\ answered' = answered /\ reported' = reported /\ Held' = Held
        /\ excused' = excused \union (Held \intersect ReceiptsOf(m))
    BY <1>0, <1>2 DEF Expire, TypeOK, Held
  <2>2. \A d \in Held : d \in excused' <=> d \in excused \/ Message(d) = m
    BY <1>02, <2>1 DEF ReceiptsOf
  <2>3. excused \subseteq excused' /\ excused' \subseteq excused \union Held
    BY <2>1
  <2>4. Disjoint' /\ OutcomeInHand' /\ EveryReceiptHasOneOutcome'
    BY <1>01, <2>1, <2>3 DEF Disjoint, OutcomeInHand, EveryReceiptHasOneOutcome, ReceiptsOf
  <2>5. WereReceived'
    BY <1>01, <2>1, <2>3 DEF WereReceived
  <2>6. DoneIsDeleted'
    BY <1>01, <1>02, <2>1, <2>3 DEF DoneIsDeleted
  <2>7. SupersededIsExcused'
    BY <1>01, <1>02, <2>1, <2>2, <2>3 DEF SupersededIsExcused, DoneIsDeleted
  <2> QED
    BY <2>4, <2>5, <2>6, <2>7
<1>3. ASSUME NEW r \in Replicas, Crash(r) PROVE Rest'
  <2>1. /\ \A q \in Replicas :
             IF q = r THEN batch'[q] = {} /\ message'[q] = None /\ step'[q] = "range"
             ELSE batch'[q] = batch[q] /\ message'[q] = message[q] /\ step'[q] = step[q]
        /\ excused' = excused \union batch[r] /\ queue' = queue /\ receives' = receives
        /\ answered' = answered /\ reported' = reported
    BY <1>0, <1>3 DEF Crash, TypeOK
  <2>2. Held' \subseteq Held /\ Held \subseteq Held' \union batch[r] /\ batch[r] \subseteq Held
    BY <2>1 DEF Held
  <2>3. Disjoint' /\ OutcomeInHand'
    BY <1>01, <2>1 DEF Disjoint, OutcomeInHand
  <2>4. WereReceived'
    BY <1>01, <2>1, <2>2 DEF WereReceived
  <2>5. DoneIsDeleted' /\ SupersededIsExcused'
    BY <1>01, <2>1, <2>2 DEF DoneIsDeleted, SupersededIsExcused
  <2>6. EveryReceiptHasOneOutcome'
    BY <1>01, <2>1, <2>2 DEF EveryReceiptHasOneOutcome, ReceiptsOf
  <2> QED
    BY <2>3, <2>4, <2>5, <2>6
<1>4. ASSUME NEW r \in Replicas, NEW new \in SUBSET Messages, Receive(r, new) PROVE Rest'
  <2> DEFINE receipts == {<<m, receives[m] + 1>> : m \in new}
  <2>1. /\ \A m \in Messages :
             /\ receives'[m] = IF m \in new THEN receives[m] + 1 ELSE receives[m]
             /\ queue'[m] = IF m \in new THEN "hidden" ELSE queue[m]
             /\ receives[m] \in Nat
             /\ m \in new => queue[m] = "visible"
        /\ message' = message /\ step' = step /\ step[r] = "range" /\ batch[r] = {}
        /\ answered' = answered /\ reported' = reported
    BY <1>0, <1>4, BoundsAssumption DEF Receive, TypeOK
  <2>2. /\ \A d \in receipts : /\ d \in Receipts /\ Message(d) \in new /\ d[2] = receives[Message(d)] + 1
                               /\ d \notin Held \union answered \union reported \union excused
        /\ \A m \in new : \A d \in ReceiptsOf(m) : d[2] = receives[m] + 1 => d \in receipts
    <3>1. \A d \in receipts : Message(d) \in new /\ d[2] = receives[Message(d)] + 1
      BY DEF Message
    <3>2. \A d \in receipts : d \in Receipts
      BY <1>4, <2>1, BoundsAssumption DEF Receive, Receipts
    <3>3. \A d \in receipts : d \notin Held \union answered \union reported \union excused
      BY <1>01, <1>02, <2>1, <3>1 DEF WereReceived
    <3>4. \A m \in new : \A d \in ReceiptsOf(m) : d[2] = receives[m] + 1 => d \in receipts
      BY DEF ReceiptsOf, Receipts, Message
    <3> QED
      BY <3>1, <3>2, <3>3, <3>4
  <2>3. \/ /\ \A q \in Replicas : batch'[q] = IF q = r THEN receipts ELSE batch[q]
           /\ excused' = excused
        \/ batch' = batch /\ excused' = excused \union receipts
    BY <1>0, <1>4 DEF Receive, TypeOK
  <2> HIDE DEF receipts
  <2>4. \/ Held' = Held \union receipts /\ excused' = excused
        \/ Held' = Held /\ excused' = excused \union receipts
    BY <2>1, <2>3 DEF Held
  <2>5. Disjoint'
    BY <1>01, <2>2, <2>3, IsHeld DEF Disjoint
  <2>6. OutcomeInHand'
    BY <1>01, <2>1, <2>2, <2>3 DEF OutcomeInHand
  <2>7. WereReceived'
    <3>1. \A d \in Held \union answered \union reported \union excused : d[2] <= receives'[Message(d)]
      BY <1>01, <1>02, <2>1 DEF WereReceived
    <3>2. \A d \in receipts : d[2] <= receives'[Message(d)]
      BY <2>1, <2>2
    <3> QED
      BY <1>01, <2>1, <2>4, <3>1, <3>2 DEF WereReceived
  <2>8. DoneIsDeleted'
    BY <1>01, <1>02, <2>1, <2>4 DEF DoneIsDeleted, SupersededIsExcused
  <2>9. SupersededIsExcused'
    <3>1. \A d \in Held \union answered :
            d[2] < receives'[Message(d)] \/ queue'[Message(d)] = "visible" => d \in excused
      BY <1>01, <1>02, <2>1 DEF SupersededIsExcused, WereReceived
    <3>2. \A d \in receipts : d[2] = receives'[Message(d)] /\ queue'[Message(d)] = "hidden" /\ d[2] \in Int
      BY <2>1, <2>2
    <3> QED
      BY <2>1, <2>4, <3>1, <3>2 DEF SupersededIsExcused
  <2>10. EveryReceiptHasOneOutcome'
    <3> SUFFICES ASSUME ErrorQueueSet, NEW m \in Messages, NEW d \in ReceiptsOf(m), d[2] <= receives'[m]
                 PROVE  d \in Held \union answered \union reported \union excused \union receipts
      BY <1>01, <2>1, <2>4 DEF EveryReceiptHasOneOutcome, ReceiptsOf
    <3>1. d[2] \in Int
      BY DEF ReceiptsOf, Receipts
    <3>2. CASE d[2] <= receives[m]
      BY <1>01, <3>2 DEF EveryReceiptHasOneOutcome
    <3>3. CASE m \in new /\ d[2] = receives[m] + 1
      BY <2>2, <3>3
    <3> QED
      BY <2>1, <3>1, <3>2, <3>3
  <2> QED
    BY <2>5, <2>6, <2>7, <2>8, <2>9, <2>10
<1>5. ASSUME NEW r \in Replicas, Invoke(r) PROVE Rest'
  <2>1. /\ batch' = batch /\ receives' = receives /\ queue' = queue /\ Held' = Held
        /\ answered' = answered /\ reported' = reported /\ excused' = excused
        /\ step[r] = "range"
        /\ \A q \in Replicas :
             IF q = r THEN step'[q] \in {"response", "error"}
             ELSE message'[q] = message[q] /\ step'[q] = step[q]
    BY <1>0, <1>5 DEF Invoke, TypeOK, Held
  <2>2. OutcomeInHand'
    BY <1>01, <2>1 DEF OutcomeInHand
  <2>3. Disjoint' /\ WereReceived' /\ DoneIsDeleted' /\ SupersededIsExcused' /\ EveryReceiptHasOneOutcome'
    BY <1>01, <2>1 DEF Disjoint, WereReceived, DoneIsDeleted, SupersededIsExcused,
       EveryReceiptHasOneOutcome, ReceiptsOf
  <2> QED
    BY <2>2, <2>3
<1>6. ASSUME NEW r \in Replicas, NEW from \in {"error", "response", "delete"}, Done(r, from),
             \A m \in Messages : queue'[m] = queue[m] \/ queue'[m] = "deleted",
             answered' = answered, reported \subseteq reported', excused \subseteq excused',
             reported' \subseteq reported \union {message[r]}, from # "error" => reported' = reported,
             excused' \subseteq excused \union {message[r]},
             ErrorQueueSet /\ from # "delete" => message[r] \in reported' \union excused',
             from = "delete" =>
               queue'[Message(message[r])] = "deleted" \/ message[r] \in excused'
      PROVE  Rest'
  <2>1. /\ \A q \in Replicas :
             IF q = r THEN /\ batch'[q] = batch[q] \ {message[r]} /\ message'[q] = None
                           /\ step'[q] = "range"
             ELSE batch'[q] = batch[q] /\ message'[q] = message[q] /\ step'[q] = step[q]
        /\ Held' = Held \ {message[r]}
        /\ message[r] \in batch[r] /\ message[r] \in Held
        /\ step[r] = from /\ receives' = receives
    BY <1>0, <1>01, <1>6, DoneBatch
  <2>2. message[r] \in answered <=> from = "delete"
    BY <1>01, <2>1 DEF OutcomeInHand
  <2>3. Disjoint'
    BY <1>01, <2>1 DEF Disjoint
  <2>4. WereReceived'
    BY <1>01, <1>6, <2>1 DEF WereReceived
  <2>5. OutcomeInHand'
    BY <1>01, <1>6, <2>1 DEF OutcomeInHand, Disjoint
  <2>6. DoneIsDeleted'
    BY <1>01, <1>02, <1>6, <2>1, <2>2 DEF DoneIsDeleted
  <2>7. SupersededIsExcused'
    BY <1>01, <1>02, <1>6, <2>1 DEF SupersededIsExcused
  <2>8. EveryReceiptHasOneOutcome'
    BY <1>01, <1>6, <2>1, <2>2 DEF EveryReceiptHasOneOutcome, ReceiptsOf
  <2> QED
    BY <2>3, <2>4, <2>5, <2>6, <2>7, <2>8
<1>7. ASSUME NEW r \in Replicas, errorHandler(r) PROVE Rest'
  BY <1>6, <1>7, ConfigAssumption DEF errorHandler
<1>8. ASSUME NEW r \in Replicas, deleteMessage(r) PROVE Rest'
  <2>1. Message(message[r]) \in Messages
    BY <1>0, <1>8, InHand DEF deleteMessage, Done
  <2>2. \A m \in Messages : queue'[m] = queue[m] \/ queue'[m] = "deleted"
    BY <1>0, <1>8 DEF deleteMessage, TypeOK
  <2>3. queue'[Message(message[r])] = "deleted" \/ message[r] \in excused'
    BY <1>0, <1>8, <2>1 DEF deleteMessage, TypeOK
  <2>4. /\ Done(r, "delete") /\ answered' = answered /\ reported' = reported
        /\ excused' = excused \/ excused' = excused \union {message[r]}
    BY <1>8 DEF deleteMessage
  <2> QED
    BY <1>6, <2>2, <2>3, <2>4
<1>9. ASSUME NEW r \in Replicas, responseHandler(r) PROVE Rest'
  <2>1. CASE Done(r, "response") /\ excused' = excused \union {message[r]} /\ UNCHANGED answered
    BY <1>6, <1>9, <2>1 DEF responseHandler
  <2>2. CASE /\ Go(r, "response", "delete") /\ UNCHANGED <<batch, message, excused>>
             /\ answered' = answered \union {message[r]}
    <3>1. /\ batch' = batch /\ receives' = receives /\ queue' = queue /\ Held' = Held
          /\ message' = message /\ reported' = reported /\ excused' = excused
          /\ answered' = answered \union {message[r]}
          /\ step[r] = "response"
          /\ \A q \in Replicas : step'[q] = IF q = r THEN "delete" ELSE step[q]
      BY <1>0, <1>9, <2>2 DEF responseHandler, Go, TypeOK, Held
    <3>2. message[r] \in batch[r] /\ message[r] \in Held /\ message[r] \notin reported
      BY <1>0, <1>01, <3>1, InHand, IsHeld DEF OutcomeInHand
    <3>3. OutcomeInHand'
      BY <1>01, <3>1, <3>2 DEF OutcomeInHand, Disjoint
    <3>4. Disjoint' /\ WereReceived' /\ DoneIsDeleted' /\ SupersededIsExcused'
      BY <1>01, <3>1, <3>2 DEF Disjoint, WereReceived, DoneIsDeleted, SupersededIsExcused
    <3>5. EveryReceiptHasOneOutcome'
      BY <1>01, <3>1, <3>2 DEF EveryReceiptHasOneOutcome, ReceiptsOf
    <3> QED
      BY <3>3, <3>4, <3>5
  <2> QED
    BY <1>9, <2>1, <2>2 DEF responseHandler
<1>10. ASSUME UNCHANGED vars PROVE Rest'
  <2>1. Held' = Held
    BY <1>10 DEF vars, Held
  <2> QED
    BY <1>01, <1>10, <2>1 DEF vars, Disjoint, WereReceived, OutcomeInHand, DoneIsDeleted, SupersededIsExcused,
       EveryReceiptHasOneOutcome, ReceiptsOf
<1> QED
  BY <1>0, <1>1, <1>2, <1>3, <1>4, <1>5, <1>7, <1>8, <1>9, <1>10 DEF Next, Handle, IInv

--------------------------------------------------------------------------------
(* The theorems *)

(* The variables of the SQS connector keep their types.                     *)
THEOREM TypeCorrect == Spec => []TypeOK
<1> QED
  BY InitInv, NextInv, PTL DEF Spec, IInv

(* A receipt whose timeout did not run out, whose replica did not crash and *)
(* whose requests did not fail is in hand or has one outcome.               *)
THEOREM OneOutcome == Spec => []EveryReceiptHasOneOutcome
<1> QED
  BY InitInv, NextInv, PTL DEF Spec, IInv

(* A response is repeated only after a timeout, a crash or a failed         *)
(* deletion.                                                                *)
THEOREM NoRepetition == Spec => []ResponseIsNotRepeated
<1>1. IInv => ResponseIsNotRepeated
  <2> SUFFICES ASSUME IInv, NEW m \in Messages, NEW d \in answered \intersect ReceiptsOf(m),
                      NEW e \in answered \intersect ReceiptsOf(m), d[2] < e[2]
               PROVE  d \in excused
    BY DEF ResponseIsNotRepeated
  <2>1. Message(d) = m /\ Message(e) = m
    BY DEF ReceiptsOf
  <2>2. e[2] <= receives[m] /\ d[2] \in Nat /\ e[2] \in Nat /\ receives[m] \in Nat
    BY <2>1, IsReceipt DEF IInv, WereReceived
  <2> QED
    BY <2>1, <2>2 DEF IInv, SupersededIsExcused
<1> QED
  BY <1>1, InitInv, NextInv, PTL DEF Spec

--------------------------------------------------------------------------------
(* The connector implements AtLeastOnce. *)

(* Of n receipts of a message, a set that lacks one has fewer than n, and   *)
(* one more with it.                                                        *)
LEMMA OneMore ==
  ASSUME NEW m, NEW n \in Nat, NEW S \in SUBSET ({m} \X (1 .. n)), NEW d \in {m} \X (1 .. n), d \notin S
  PROVE  /\ Cardinality(S) \in Nat /\ Cardinality(S) < n
         /\ Cardinality(S \union {d}) = Cardinality(S) + 1
<1>1. IsFiniteSet({m}) /\ Cardinality({m}) = 1
  BY FS_Singleton
<1>2. IsFiniteSet(1 .. n) /\ Cardinality(1 .. n) = n
  BY FS_Interval
<1>3. IsFiniteSet({m} \X (1 .. n)) /\ Cardinality({m} \X (1 .. n)) = n
  BY <1>1, <1>2, FS_Product
<1>4. IsFiniteSet(S) /\ IsFiniteSet(S \union {d}) /\ Cardinality(S \union {d}) <= n
  BY <1>3, FS_Subset
<1>5. Cardinality(S \union {d}) = Cardinality(S) + 1
  BY <1>4, FS_AddElement
<1> QED
  BY <1>4, <1>5, FS_CardinalityType

LEMMA SomeCount ==
  ASSUME NEW m, NEW S \in SUBSET ({m} \X (1 .. MaxReceives)), NEW d \in S
  PROVE  Cardinality(S) > 0
<1>1. MaxReceives \in Int
  BY BoundsAssumption
<1>2. IsFiniteSet(1 .. MaxReceives)
  BY <1>1, FS_Interval
<1>3. IsFiniteSet({m})
  BY FS_Singleton
<1>4. IsFiniteSet({m} \X (1 .. MaxReceives))
  BY <1>2, <1>3, FS_Product
<1>5. IsFiniteSet(S)
  BY <1>4, FS_Subset
<1> QED
  BY <1>5, FS_CardinalityType, FS_EmptySet

Source(m) == CASE queue[m] = "absent" -> "absent"
               [] queue[m] = "deleted" -> "removed"
               [] OTHER -> "kept"
Concluded(m) == Cardinality(answered \intersect ReceiptsOf(m))

LEMMA InitMaps == Init => Promise!Init
<1> SUFFICES ASSUME Init PROVE Promise!Init
  OBVIOUS
<1>1. \A m \in Messages : answered \intersect ReceiptsOf(m) = {}
  BY DEF Init
<1>2. [m \in Messages |-> Concluded(m)] = [m \in Messages |-> 0]
  BY <1>1, FS_EmptySet DEF Concluded
<1>3. [m \in Messages |-> Source(m)] \in [Messages -> {"absent", "kept"}]
  BY DEF Init, Source
<1> QED
  BY <1>2, <1>3 DEF Init, Promise!Init, Source, Concluded

LEMMA NextMaps == IInv /\ [Next]_vars => [Promise!Next]_(Promise!vars)
<1> SUFFICES ASSUME IInv, [Next]_vars PROVE [Promise!Next]_(Promise!vars)
  OBVIOUS
<1>0. TypeOK /\ WereReceived /\ OutcomeInHand
  BY DEF IInv
<1> DEFINE source == [m \in Messages |-> Source(m)]
           concluded == [m \in Messages |-> Concluded(m)]
<1>01. UNCHANGED <<source, receives, concluded>> => UNCHANGED Promise!vars
  BY DEF Promise!vars, Source, Concluded
<1>02. ASSUME answered' = answered PROVE concluded' = concluded
  BY <1>02 DEF Concluded, ReceiptsOf
<1>03. ASSUME queue' = queue PROVE source' = source
  BY <1>03 DEF Source
<1> USE DEF inQueue, replica, history
<1>1. ASSUME NEW m \in Messages, Send(m) PROVE [Promise!Next]_(Promise!vars)
  <2>1. source[m] = "absent" /\ source' = [source EXCEPT ![m] = "kept"]
    BY <1>0, <1>1 DEF Send, Source, TypeOK
  <2>2. concluded' = concluded /\ receives' = receives
    BY <1>1, <1>02 DEF Send
  <2>3. Promise!Put(m)
    BY <2>1, <2>2 DEF Promise!Put, Source, Concluded
  <2> QED
    BY <2>3 DEF Promise!Next
<1>2. ASSUME NEW m \in Messages, Expire(m) PROVE UNCHANGED Promise!vars
  <2>1. source' = source
    BY <1>0, <1>2 DEF Expire, Source, TypeOK
  <2> QED
    BY <1>2, <1>01, <1>02, <2>1 DEF Expire
<1>3. ASSUME NEW r \in Replicas, Crash(r) \/ Invoke(r) \/ errorHandler(r) PROVE UNCHANGED Promise!vars
  BY <1>3, <1>01, <1>02, <1>03 DEF Crash, Invoke, errorHandler, Done
<1>4. ASSUME NEW r \in Replicas, NEW new \in SUBSET Messages, Receive(r, new)
      PROVE  [Promise!Next]_(Promise!vars)
  <2>1. \A m \in new : source[m] # "absent"
    BY <1>4 DEF Receive, Source
  <2>2. source' = source
    BY <1>0, <1>4 DEF Receive, Source, TypeOK
  <2>3. concluded' = concluded
    BY <1>4, <1>02 DEF Receive
  <2>4. receives' = [m \in Messages |-> IF m \in new THEN receives[m] + 1 ELSE receives[m]]
    BY <1>4 DEF Receive
  <2>5. Promise!Deliver(new)
    BY <2>1, <2>2, <2>3, <2>4 DEF Promise!Deliver, Source, Concluded
  <2> QED
    BY <2>5 DEF Promise!Next
<1>5. ASSUME NEW r \in Replicas, responseHandler(r) PROVE [Promise!Next]_(Promise!vars)
  <2>1. CASE answered' = answered
    BY <1>5, <2>1, <1>01, <1>02, <1>03 DEF responseHandler, Go, Done
  <2>2. CASE Go(r, "response", "delete") /\ answered' = answered \union {message[r]}
    <3> DEFINE d == message[r]
               m == Message(message[r])
               S == answered \intersect ReceiptsOf(m)
    <3>1. d \in batch[r] /\ d \in Receipts /\ m \in Messages /\ d \notin answered
      BY <1>0, <2>2, InHand DEF Go, OutcomeInHand
    <3>2. d \in Held /\ d[2] <= receives[m] /\ d[2] \in Nat \ {0} /\ receives[m] \in Nat
      BY <1>0, <3>1, IsHeld, IsReceipt DEF WereReceived
    <3>3. d \in {m} \X (1 .. receives[m])
      BY <3>1, <3>2 DEF Message, Receipts
    <3>4. \A e \in S : e \in {m} \X (1 .. receives[m])
      <4> SUFFICES ASSUME NEW e \in S PROVE e \in {m} \X (1 .. receives[m])
        OBVIOUS
      <4>1. e \in Receipts /\ e[1] = m /\ e[2] \in Nat \ {0} /\ e[2] <= receives[m]
        BY <1>0, IsReceipt DEF ReceiptsOf, WereReceived, Message
      <4> QED
        BY <3>2, <4>1 DEF Receipts
    <3>5. Cardinality(S) < receives[m] /\ Cardinality(S \union {d}) = Cardinality(S) + 1
      <4> DEFINE n == receives[m]
      <4>1. n \in Nat /\ d \in {m} \X (1 .. n) /\ S \in SUBSET ({m} \X (1 .. n)) /\ d \notin S
        BY <3>1, <3>2, <3>3, <3>4
      <4> HIDE DEF S, d, m, n
      <4>2. Cardinality(S) < n /\ Cardinality(S \union {d}) = Cardinality(S) + 1
        BY ONLY <4>1, OneMore
      <4> QED
        BY <4>2 DEF n
    <3>6. answered' \intersect ReceiptsOf(m) = S \union {d}
      BY <2>2, <3>1 DEF ReceiptsOf
    <3>7. \A n \in Messages : n # m => answered' \intersect ReceiptsOf(n) = answered \intersect ReceiptsOf(n)
      BY <2>2 DEF ReceiptsOf
    <3>8. \A n \in Messages : ReceiptsOf(n)' = ReceiptsOf(n)
      BY DEF ReceiptsOf
    <3>9. concluded[m] < receives[m] /\ concluded' = [concluded EXCEPT ![m] = @ + 1]
      BY <3>1, <3>5, <3>6, <3>7, <3>8 DEF Concluded
    <3>10. Promise!Conclude(m)
      BY <1>5, <1>03, <2>2, <3>9 DEF Promise!Conclude, responseHandler, Go, Source, Concluded
    <3> QED
      BY <3>1, <3>10 DEF Promise!Next
  <2> QED
    BY <1>5, <2>1, <2>2 DEF responseHandler
<1>6. ASSUME NEW r \in Replicas, deleteMessage(r) PROVE [Promise!Next]_(Promise!vars)
  <2>0. PICK m \in Messages : m = Message(message[r])
    BY <1>0, <1>6, InHand DEF deleteMessage, Done
  <2>1. concluded' = concluded /\ receives' = receives
    BY <1>6, <1>02 DEF deleteMessage, Done
  <2>2. CASE queue' = queue
    BY <1>01, <1>03, <2>1, <2>2
  <2>3. CASE queue' = [queue EXCEPT ![m] = "deleted"]
    <3>1. message[r] \in answered /\ message[r] \in Receipts
      BY <1>0, <1>6, InHand DEF deleteMessage, Done, OutcomeInHand
    <3>2. queue[m] # "absent"
      BY <1>0, <2>0, <3>1, IsReceipt DEF WereReceived
    <3>3. source' = [source EXCEPT ![m] = "removed"]
      BY <1>0, <2>3 DEF Source, TypeOK
    <3>4. CASE queue[m] = "deleted"
      <4>1. queue' = queue
        BY <1>0, <2>3, <3>4 DEF TypeOK
      <4> QED
        BY <2>2, <4>1
    <3>5. CASE queue[m] # "deleted"
      <4>1. source[m] = "kept"
        BY <3>2, <3>5 DEF Source
      <4>2. concluded[m] > 0
        <5> DEFINE S == answered \intersect ReceiptsOf(m)
        <5>1. message[r] \in S
          BY <2>0, <3>1 DEF ReceiptsOf
        <5>2. S \in SUBSET ({m} \X (1 .. MaxReceives))
          BY DEF ReceiptsOf, Receipts, Message
        <5>3. Cardinality(S) > 0
          <6> HIDE DEF S
          <6> QED
            BY <5>1, <5>2, SomeCount
        <5> QED
          BY <5>3 DEF Concluded
      <4>3. Promise!Remove(m)
        BY <2>1, <3>3, <4>1, <4>2 DEF Promise!Remove, Source, Concluded
      <4> QED
        BY <4>3 DEF Promise!Next
    <3> QED
      BY <3>4, <3>5
  <2> QED
    BY <1>6, <2>0, <2>2, <2>3 DEF deleteMessage
<1>7. CASE UNCHANGED vars
  BY <1>7, <1>01, <1>02, <1>03 DEF vars
<1> QED
  BY <1>1, <1>2, <1>3, <1>4, <1>5, <1>6, <1>7 DEF Next, Handle

(* The queue gives a message up only when one of its receipts was answered, *)
(* and a message has no more answers than receipts.                         *)
THEOREM ImplementsAtLeastOnce == Spec => RefinesAtLeastOnce
<1> QED
  BY InitMaps, NextMaps, InitInv, NextInv, PTL DEF Spec, RefinesAtLeastOnce, Promise!Spec

--------------------------------------------------------------------------------
(* Kinesis: the inductive invariant *)

(* A shard is sent over the channel once, after it was listed, and then     *)
(* gets its worker.                                                         *)
SentOnce ==
  /\ pending \subseteq listed /\ shards \subseteq listed
  /\ \A s \in Shards : /\ started[s] \in {0, 1}
                       /\ worker[s] = "none" <=> started[s] = 0
                       /\ started[s] = 1 => s \in shards
  /\ shardc # <<>> => shardc[1] \in shards /\ started[shardc[1]] = 0

(* How far a worker has come.                                               *)
Reading(s) == worker[s] \in {"scan", "fetch", "select", "record"}
Position ==
  \A s \in Shards :
    /\ worker[s] = "none" => checkpoints[s] = NoCheckpoint /\ Len(handled[s]) = 0
    /\ Reading(s) => checkpoints[s] # NoCheckpoint /\ Len(handled[s]) = checkpoints[s]
    /\ worker[s] = "invoked" =>
         checkpoints[s] # NoCheckpoint /\ Len(handled[s]) = checkpoints[s] + 1 /\ Len(returned[s]) > 0
    /\ worker[s] = "done" =>
         IF checkpoints[s] = NoCheckpoint THEN s \notin open /\ Len(handled[s]) = records[s]
         ELSE Len(handled[s]) = checkpoints[s]

(* What a worker has yet to handle follows its checkpoint.                  *)
BatchFollows ==
  \A s \in Shards : worker[s] \in {"record", "invoked"} =>
    /\ \A i \in 1 .. Len(returned[s]) : returned[s][i] = checkpoints[s] + i
    /\ atEnd[s] => s \notin open /\ checkpoints[s] + Len(returned[s]) = records[s]

KinesisInv == KinesisTypeOK /\ SentOnce /\ Position /\ BatchFollows /\ HandledOnceInOrder

LEMMA KinesisInitInv == KinesisInit => KinesisInv
<1> SUFFICES ASSUME KinesisInit PROVE KinesisInv
  OBVIOUS
<1>1. 0 \in 0 .. MaxRecord /\ <<>> \in Seq(Records) /\ <<>> \in Seq(Shards) /\ Len(<<>>) = 0
  BY LimitsAssumption
<1>2. /\ returned \in [Shards -> Seq(Records)] /\ handled \in [Shards -> Seq(Records)]
      /\ shardc \in Seq(Shards) /\ Len(shardc) <= 1
  BY <1>1 DEF KinesisInit
<1>4. /\ records \in [Shards -> 0 .. MaxRecord] /\ started \in [Shards -> Nat]
      /\ checkpoints \in [Shards -> {NoCheckpoint} \union 0 .. MaxRecord]
  BY <1>1 DEF KinesisInit
<1>5. open \subseteq listed /\ listed \subseteq Shards
  BY DEF KinesisInit
<1>6. KinesisTypeOK
  BY <1>2, <1>4, <1>5 DEF KinesisInit, KinesisTypeOK
<1>3. SentOnce /\ Position /\ BatchFollows /\ HandledOnceInOrder
  BY DEF KinesisInit, SentOnce, Position, BatchFollows, HandledOnceInOrder, Reading
<1> QED
  BY <1>3, <1>6 DEF KinesisInv

--------------------------------------------------------------------------------
(* Facts about sequences and workers *)

LEMMA AppendFacts ==
  ASSUME NEW S, NEW q \in Seq(S), NEW e \in S
  PROVE  /\ Append(q, e) \in Seq(S) /\ Len(q) \in Nat /\ Len(Append(q, e)) = Len(q) + 1
         /\ \A i \in 1 .. Len(q) : Append(q, e)[i] = q[i]
         /\ Append(q, e)[Len(q) + 1] = e
OBVIOUS

LEMMA TailFacts ==
  ASSUME NEW S, NEW q \in Seq(S), q # <<>>
  PROVE  /\ Tail(q) \in Seq(S) /\ Len(q) \in Nat \ {0} /\ Len(Tail(q)) = Len(q) - 1
         /\ Head(q) = q[1] /\ q[1] \in S
         /\ \A i \in 1 .. Len(q) - 1 : Tail(q)[i] = q[i + 1]
OBVIOUS

LEMMA Fields ==
  ASSUME KinesisTypeOK, NEW s \in Shards
  PROVE  /\ checkpoints[s] \in Int /\ (checkpoints[s] # NoCheckpoint => checkpoints[s] \in 0 .. MaxRecord)
         /\ records[s] \in Nat /\ records[s] <= MaxRecord
         /\ returned[s] \in Seq(Records) /\ Len(returned[s]) \in Nat
         /\ handled[s] \in Seq(Records) /\ Len(handled[s]) \in Nat
         /\ started[s] \in Nat
<1>1. checkpoints[s] \in {NoCheckpoint} \union 0 .. MaxRecord /\ records[s] \in 0 .. MaxRecord
  BY DEF KinesisTypeOK
<1>2. returned[s] \in Seq(Records) /\ handled[s] \in Seq(Records) /\ started[s] \in Nat
  BY DEF KinesisTypeOK
<1>3. Len(returned[s]) \in Nat /\ Len(handled[s]) \in Nat
  BY <1>2
<1> QED
  BY <1>1, <1>2, <1>3, LimitsAssumption DEF NoCheckpoint

(* What a step of a worker leaves alone.                                    *)
LEMMA WorkerFacts ==
  ASSUME KinesisTypeOK, SentOnce, NEW s \in Shards, NEW from, from # "none",
         NEW to \in {"scan", "fetch", "record", "invoked", "select", "done"},
         At(s, from), Enter(s, to), Others
  PROVE  /\ worker' \in [Shards -> {"none", "scan", "fetch", "record", "invoked", "select", "done"}]
         /\ \A q \in Shards : worker'[q] = IF q = s THEN to ELSE worker[q]
         /\ worker[s] = from /\ SentOnce'
         /\ UNCHANGED <<listed, open, records, finder, pending, shards, shardc, closed, main, cancelled, started>>
<1>1. /\ worker' \in [Shards -> {"none", "scan", "fetch", "record", "invoked", "select", "done"}]
      /\ \A q \in Shards : worker'[q] = IF q = s THEN to ELSE worker[q]
      /\ worker[s] = from
  BY DEF At, Enter, KinesisTypeOK
<1>2. UNCHANGED <<listed, open, records, finder, pending, shards, shardc, closed, main, cancelled, started>>
  BY DEF Others, stream, finding
<1>3. SentOnce'
  BY <1>1, <1>2 DEF SentOnce
<1> QED
  BY <1>1, <1>2, <1>3

(* The records that follow the checkpoint.                                  *)
LEMMA NewBatch ==
  ASSUME KinesisTypeOK, NEW s \in Shards, checkpoints[s] # NoCheckpoint, NEW n \in 0 .. maxRecords,
         After(s) + n - 1 <= records[s]
  PROVE  /\ [i \in 1 .. n |-> After(s) + i - 1] \in Seq(Records)
         /\ Len([i \in 1 .. n |-> After(s) + i - 1]) = n /\ n \in Nat
         /\ \A i \in 1 .. n : [j \in 1 .. n |-> After(s) + j - 1][i] = checkpoints[s] + i
         /\ After(s) + n - 1 = checkpoints[s] + n
<1>1. /\ checkpoints[s] \in Nat /\ After(s) = checkpoints[s] + 1 /\ records[s] \in Nat
      /\ n \in Nat /\ records[s] <= MaxRecord
  BY Fields, LimitsAssumption DEF After
<1>2. \A i \in 1 .. n : After(s) + i - 1 \in Records /\ After(s) + i - 1 = checkpoints[s] + i
  BY <1>1, LimitsAssumption DEF Records
<1> HIDE DEF After
<1>3. [i \in 1 .. n |-> After(s) + i - 1] \in [1 .. n -> Records]
  BY <1>2
<1>4. /\ [i \in 1 .. n |-> After(s) + i - 1] \in Seq(Records)
      /\ Len([i \in 1 .. n |-> After(s) + i - 1]) = n
  BY <1>1, <1>3
<1> QED
  BY <1>1, <1>2, <1>4

--------------------------------------------------------------------------------
(* Every step keeps the invariant, worker by worker. *)

ShardRest == Position /\ BatchFollows /\ HandledOnceInOrder

(* Steps that move a worker and nothing else.                               *)
LEMMA MoveOn ==
  ASSUME KinesisTypeOK, ShardRest, NEW s \in Shards,
         NEW to \in {"scan", "fetch", "select", "done"},
         \A q \in Shards : worker'[q] = IF q = s THEN to ELSE worker[q],
         Reading(s), UNCHANGED <<checkpoints, open, records, returned, atEnd, handled>>
  PROVE  ShardRest'
<1>1. Position'
  BY DEF ShardRest, Position, Reading
<1>2. BatchFollows' /\ HandledOnceInOrder'
  BY DEF ShardRest, BatchFollows, HandledOnceInOrder
<1> QED
  BY <1>1, <1>2 DEF ShardRest

LEMMA WorkerStep ==
  ASSUME KinesisTypeOK, SentOnce, ShardRest, NEW s \in Shards, Worker(s)
  PROVE  KinesisTypeOK' /\ SentOnce' /\ ShardRest'
<1> DEFINE Steps == {"scan", "fetch", "record", "invoked", "select", "done"}
<1>0. Position /\ BatchFollows /\ HandledOnceInOrder
  BY DEF ShardRest
<1>1. CASE GetIterator(s) \/ ScanAgain(s)
  <2>1. PICK from \in {"scan", "select"}, to \in {"scan", "fetch", "select", "done"} : At(s, from) /\ Enter(s, to)
    BY <1>1 DEF GetIterator, ScanAgain
  <2>2. UNCHANGED <<checkpoints, returned, atEnd, handled>> /\ Others
    BY <1>1 DEF GetIterator, ScanAgain
  <2>3. /\ worker' \in [Shards -> Steps \union {"none"}]
        /\ \A q \in Shards : worker'[q] = IF q = s THEN to ELSE worker[q]
        /\ worker[s] = from /\ SentOnce'
        /\ UNCHANGED <<listed, open, records, finder, pending, shards, shardc, closed, main, cancelled, started>>
    BY <2>1, <2>2, WorkerFacts
  <2>4. ShardRest'
    BY <2>2, <2>3, MoveOn DEF Reading
  <2> QED
    BY <2>2, <2>3, <2>4 DEF KinesisTypeOK
<1>2. CASE GetRecords(s)
  <2>1. PICK to \in {"record", "done"} : At(s, "fetch") /\ Enter(s, to)
    BY <1>2 DEF GetRecords
  <2>2. UNCHANGED <<checkpoints, handled>> /\ Others
    BY <1>2 DEF GetRecords
  <2>3. /\ worker' \in [Shards -> Steps \union {"none"}]
        /\ \A q \in Shards : worker'[q] = IF q = s THEN to ELSE worker[q]
        /\ worker[s] = "fetch" /\ SentOnce'
        /\ UNCHANGED <<listed, open, records, finder, pending, shards, shardc, closed, main, cancelled, started>>
    BY <2>1, <2>2, WorkerFacts
  <2>4. CASE Enter(s, "done") /\ UNCHANGED <<returned, atEnd>>
    <3>1. \A q \in Shards : worker'[q] = IF q = s THEN "done" ELSE worker[q]
      BY <2>4 DEF Enter, KinesisTypeOK
    <3>2. ShardRest'
      BY <2>2, <2>3, <2>4, <3>1, MoveOn DEF Reading
    <3> QED
      BY <2>2, <2>3, <2>4, <3>2 DEF KinesisTypeOK
  <2>5. ASSUME NEW n \in 0 .. maxRecords, After(s) + n - 1 <= records[s],
               returned' = [returned EXCEPT ![s] = [i \in 1 .. n |-> After(s) + i - 1]],
               atEnd' = [atEnd EXCEPT ![s] = s \notin open /\ After(s) + n - 1 = records[s]],
               Enter(s, "record")
        PROVE  KinesisTypeOK' /\ ShardRest'
    <3> DEFINE new == [i \in 1 .. n |-> After(s) + i - 1]
               end == s \notin open /\ After(s) + n - 1 = records[s]
    <3>1. checkpoints[s] # NoCheckpoint /\ Len(handled[s]) = checkpoints[s]
      BY <1>0, <2>3 DEF Position, Reading
    <3>2. /\ new \in Seq(Records) /\ Len(new) = n /\ n \in Nat
          /\ \A i \in 1 .. n : new[i] = checkpoints[s] + i
          /\ After(s) + n - 1 = checkpoints[s] + n
      BY <2>5, <3>1, NewBatch
    <3>3. end \in BOOLEAN /\ (end => s \notin open /\ checkpoints[s] + n = records[s])
      BY <3>2
    <3> HIDE DEF new, end
    <3>4. /\ returned' \in [Shards -> Seq(Records)] /\ atEnd' \in [Shards -> BOOLEAN]
          /\ \A q \in Shards :
               IF q = s THEN returned'[q] = new /\ atEnd'[q] = end /\ worker'[q] = "record"
               ELSE returned'[q] = returned[q] /\ atEnd'[q] = atEnd[q] /\ worker'[q] = worker[q]
      BY <2>5, <3>2, <3>3 DEF KinesisTypeOK, new, end, Enter
    <3>5. KinesisTypeOK'
      BY <2>2, <2>3, <3>4 DEF KinesisTypeOK
    <3>6. Position'
      BY <1>0, <2>2, <2>3, <3>1, <3>4 DEF Position, Reading
    <3>7. BatchFollows'
      BY <1>0, <2>2, <2>3, <3>2, <3>3, <3>4 DEF BatchFollows
    <3>8. HandledOnceInOrder'
      BY <1>0, <2>2 DEF HandledOnceInOrder
    <3> QED
      BY <3>5, <3>6, <3>7, <3>8 DEF ShardRest
  <2> QED
    BY <1>2, <2>3, <2>4, <2>5 DEF GetRecords
<1>3. CASE consumeMessage(s)
  <2>1. /\ At(s, "record") /\ Enter(s, "invoked") /\ returned[s] # <<>>
        /\ handled' = [handled EXCEPT ![s] = Append(@, Head(returned[s]))]
        /\ UNCHANGED <<checkpoints, returned, atEnd>> /\ Others
    BY <1>3 DEF consumeMessage
  <2>2. /\ worker' \in [Shards -> Steps \union {"none"}]
        /\ \A q \in Shards : worker'[q] = IF q = s THEN "invoked" ELSE worker[q]
        /\ worker[s] = "record" /\ SentOnce'
        /\ UNCHANGED <<listed, open, records, finder, pending, shards, shardc, closed, main, cancelled, started>>
    BY <2>1, WorkerFacts
  <2>3. /\ Len(returned[s]) \in Nat \ {0} /\ Head(returned[s]) = returned[s][1] /\ returned[s][1] \in Records
        /\ handled[s] \in Seq(Records) /\ checkpoints[s] \in Int
    BY <2>1, Fields, TailFacts
  <2>4. checkpoints[s] # NoCheckpoint /\ Len(handled[s]) = checkpoints[s]
    BY <1>0, <2>2 DEF Position, Reading
  <2>5. Head(returned[s]) = Len(handled[s]) + 1
    <3>1. 1 \in 1 .. Len(returned[s])
      BY <2>3
    <3>2. returned[s][1] = checkpoints[s] + 1
      BY <1>0, <2>2, <3>1 DEF BatchFollows
    <3> QED
      BY <2>3, <2>4, <3>2
  <2>6. /\ handled' \in [Shards -> Seq(Records)]
        /\ \A q \in Shards : q # s => handled'[q] = handled[q]
        /\ Len(handled'[s]) = Len(handled[s]) + 1 /\ Len(handled[s]) \in Nat
        /\ \A i \in 1 .. Len(handled[s]) : handled'[s][i] = handled[s][i]
        /\ handled'[s][Len(handled[s]) + 1] = Head(returned[s])
    <3>1. \A q \in Shards : handled'[q] = IF q = s THEN Append(handled[s], Head(returned[s])) ELSE handled[q]
      BY <2>1 DEF KinesisTypeOK
    <3>2. handled' \in [Shards -> Seq(Records)]
      BY <2>1, <2>3, AppendFacts DEF KinesisTypeOK
    <3> QED
      BY <2>3, <3>1, <3>2, AppendFacts
  <2>7. KinesisTypeOK'
    BY <2>1, <2>2, <2>6 DEF KinesisTypeOK
  <2>8. Position'
    BY <1>0, <2>1, <2>2, <2>3, <2>4, <2>6 DEF Position, Reading
  <2>9. BatchFollows'
    BY <1>0, <2>1, <2>2 DEF BatchFollows
  <2>10. HandledOnceInOrder'
    <3>1. ASSUME NEW i \in 1 .. Len(handled'[s]) PROVE handled'[s][i] = i
      <4>1. i \in 1 .. Len(handled[s]) \/ i = Len(handled[s]) + 1
        BY <2>6, <3>1
      <4> QED
        BY <1>0, <2>5, <2>6, <4>1 DEF HandledOnceInOrder
    <3> QED
      BY <1>0, <2>6, <3>1 DEF HandledOnceInOrder
  <2> QED
    BY <2>2, <2>7, <2>8, <2>9, <2>10 DEF ShardRest
<1>4. CASE StoreCheckpoint(s)
  <2>1. /\ At(s, "invoked") /\ Enter(s, "record")
        /\ checkpoints' = [checkpoints EXCEPT ![s] = Head(returned[s])]
        /\ returned' = [returned EXCEPT ![s] = Tail(@)]
        /\ UNCHANGED <<atEnd, handled>> /\ Others
    BY <1>4 DEF StoreCheckpoint
  <2>2. /\ worker' \in [Shards -> Steps \union {"none"}]
        /\ \A q \in Shards : worker'[q] = IF q = s THEN "record" ELSE worker[q]
        /\ worker[s] = "invoked" /\ SentOnce'
        /\ UNCHANGED <<listed, open, records, finder, pending, shards, shardc, closed, main, cancelled, started>>
    BY <2>1, WorkerFacts
  <2>3. checkpoints[s] # NoCheckpoint /\ Len(handled[s]) = checkpoints[s] + 1 /\ Len(returned[s]) > 0
    BY <1>0, <2>2 DEF Position
  <2>4. /\ Len(returned[s]) \in Nat \ {0} /\ Head(returned[s]) = returned[s][1] /\ returned[s][1] \in Records
        /\ Tail(returned[s]) \in Seq(Records) /\ Len(Tail(returned[s])) = Len(returned[s]) - 1
        /\ \A i \in 1 .. Len(returned[s]) - 1 : Tail(returned[s])[i] = returned[s][i + 1]
        /\ checkpoints[s] \in Nat
    BY <2>3, Fields, TailFacts, LimitsAssumption
  <2>5. Head(returned[s]) = checkpoints[s] + 1
    <3>1. 1 \in 1 .. Len(returned[s])
      BY <2>4
    <3> QED
      BY <1>0, <2>2, <2>4, <3>1 DEF BatchFollows
  <2>6. /\ \A q \in Shards :
             IF q = s THEN checkpoints'[q] = checkpoints[q] + 1 /\ returned'[q] = Tail(returned[q])
             ELSE checkpoints'[q] = checkpoints[q] /\ returned'[q] = returned[q]
        /\ returned' \in [Shards -> Seq(Records)]
    BY <2>1, <2>4, <2>5 DEF KinesisTypeOK
  <2>7. checkpoints' \in [Shards -> {NoCheckpoint} \union 0 .. MaxRecord]
    <3>1. Head(returned[s]) \in 0 .. MaxRecord
      BY <2>4, LimitsAssumption DEF Records
    <3> QED
      BY <2>1, <3>1 DEF KinesisTypeOK
  <2>8. KinesisTypeOK'
    BY <2>1, <2>2, <2>6, <2>7 DEF KinesisTypeOK
  <2>9. Position'
    BY <1>0, <2>1, <2>2, <2>3, <2>4, <2>6 DEF Position, Reading, NoCheckpoint
  <2>10. BatchFollows'
    <3>1. ASSUME NEW i \in 1 .. Len(returned'[s]) PROVE returned'[s][i] = checkpoints'[s] + i
      <4>1. i \in 1 .. Len(returned[s]) - 1 /\ i + 1 \in 1 .. Len(returned[s])
        BY <2>4, <2>6, <3>1
      <4>2. returned[s][i + 1] = checkpoints[s] + (i + 1)
        BY <1>0, <2>2, <4>1 DEF BatchFollows
      <4>3. checkpoints'[s] = checkpoints[s] + 1 /\ returned'[s][i] = returned[s][i + 1]
        BY <2>4, <2>6, <4>1
      <4>4. checkpoints[s] \in Nat /\ i \in Nat
        BY <2>4, <4>1
      <4> QED
        BY <4>2, <4>3, <4>4
    <3>2. checkpoints'[s] + Len(returned'[s]) = checkpoints[s] + Len(returned[s])
      <4>1. checkpoints'[s] = checkpoints[s] + 1 /\ Len(returned'[s]) = Len(returned[s]) - 1
        BY <2>4, <2>6
      <4>2. checkpoints[s] \in Nat /\ Len(returned[s]) \in Nat
        BY <2>4
      <4> QED
        BY <4>1, <4>2
    <3> QED
      BY <1>0, <2>1, <2>2, <2>6, <3>1, <3>2 DEF BatchFollows
  <2>11. HandledOnceInOrder'
    BY <1>0, <2>1 DEF HandledOnceInOrder
  <2> QED
    BY <2>2, <2>8, <2>9, <2>10, <2>11 DEF ShardRest
<1>5. CASE BatchDone(s)
  <2>1. PICK to \in {"select", "done"} : At(s, "record") /\ Enter(s, to)
    BY <1>5 DEF BatchDone
  <2>2. UNCHANGED <<returned, atEnd, handled>> /\ Others /\ returned[s] = <<>>
    BY <1>5 DEF BatchDone
  <2>3. /\ worker' \in [Shards -> Steps \union {"none"}]
        /\ \A q \in Shards : worker'[q] = IF q = s THEN to ELSE worker[q]
        /\ worker[s] = "record" /\ SentOnce'
        /\ UNCHANGED <<listed, open, records, finder, pending, shards, shardc, closed, main, cancelled, started>>
    BY <2>1, <2>2, WorkerFacts
  <2>4. CASE UNCHANGED checkpoints
    <3>1. ShardRest'
      BY <2>2, <2>3, <2>4, MoveOn DEF Reading
    <3> QED
      BY <2>2, <2>3, <2>4, <3>1 DEF KinesisTypeOK
  <2>5. CASE atEnd[s] /\ checkpoints' = [checkpoints EXCEPT ![s] = NoCheckpoint] /\ Enter(s, "done")
    <3>1. Len(handled[s]) = checkpoints[s] /\ s \notin open /\ checkpoints[s] + Len(returned[s]) = records[s]
      BY <1>0, <2>3, <2>5 DEF Position, BatchFollows, Reading
    <3>2. Len(handled[s]) = records[s]
      BY <2>2, <3>1, Fields
    <3>3. /\ checkpoints' \in [Shards -> {NoCheckpoint} \union 0 .. MaxRecord]
          /\ \A q \in Shards :
               IF q = s THEN checkpoints'[q] = NoCheckpoint /\ worker'[q] = "done"
               ELSE checkpoints'[q] = checkpoints[q] /\ worker'[q] = worker[q]
      BY <2>5 DEF KinesisTypeOK, Enter
    <3>4. KinesisTypeOK'
      BY <2>2, <2>3, <3>3 DEF KinesisTypeOK
    <3>5. Position'
      BY <1>0, <2>2, <2>3, <3>1, <3>2, <3>3 DEF Position, Reading
    <3>6. BatchFollows' /\ HandledOnceInOrder'
      BY <1>0, <2>2, <2>3, <3>3 DEF BatchFollows, HandledOnceInOrder
    <3> QED
      BY <2>3, <3>4, <3>5, <3>6 DEF ShardRest
  <2> QED
    BY <1>5, <2>3, <2>4, <2>5 DEF BatchDone
<1> QED
  BY <1>1, <1>2, <1>3, <1>4, <1>5 DEF Worker

--------------------------------------------------------------------------------
(* The stream, the signal, the finder and the main goroutine *)

(* A shard with a worker has been listed.                                   *)
LEMMA WorkerIsListed ==
  ASSUME SentOnce, NEW s \in Shards, worker[s] # "none"
  PROVE  s \in listed
BY DEF SentOnce

LEMMA StreamStep ==
  ASSUME KinesisTypeOK, SentOnce, ShardRest, Reshard \/ \E s \in Shards : Put(s)
  PROVE  KinesisTypeOK' /\ SentOnce' /\ ShardRest'
<1>0. Position /\ BatchFollows /\ HandledOnceInOrder
  BY DEF ShardRest
<1>1. UNCHANGED <<finding, shardc, closed, main, working, cancelled, shardHistory>>
  BY DEF Reshard, Put
<1>2. /\ UNCHANGED <<finder, pending, shards, shardc, closed, main, checkpoints, worker, returned>>
      /\ UNCHANGED <<atEnd, cancelled, started, handled>>
  BY <1>1 DEF finding, working, shardHistory
<1>3. /\ listed \subseteq listed' /\ open' \subseteq listed' /\ listed' \subseteq Shards
      /\ records' \in [Shards -> 0 .. MaxRecord]
      /\ \A q \in listed : q \notin open => q \notin open' /\ records'[q] = records[q]
  <2>1. CASE Reshard
    BY <2>1 DEF Reshard, KinesisTypeOK
  <2>2. ASSUME NEW s \in Shards, Put(s)
        PROVE  /\ listed \subseteq listed' /\ open' \subseteq listed' /\ listed' \subseteq Shards
               /\ records' \in [Shards -> 0 .. MaxRecord]
               /\ \A q \in listed : q \notin open => q \notin open' /\ records'[q] = records[q]
    <3>1. UNCHANGED <<listed, open>> /\ s \in open
      BY <2>2 DEF Put
    <3>2. \A q \in Shards : q # s => records'[q] = records[q]
      BY <2>2 DEF Put, KinesisTypeOK
    <3>3. records[s] + 1 \in 0 .. MaxRecord
      <4>1. records[s] \in 0 .. MaxRecord /\ records[s] < MaxRecord
        BY <2>2 DEF Put, KinesisTypeOK
      <4> QED
        BY <4>1, LimitsAssumption
    <3>4. records' \in [Shards -> 0 .. MaxRecord]
      BY <2>2, <3>3 DEF Put, KinesisTypeOK
    <3> QED
      BY <3>1, <3>2, <3>4 DEF KinesisTypeOK
  <2> QED
    BY <2>1, <2>2
<1>4. KinesisTypeOK'
  BY <1>2, <1>3 DEF KinesisTypeOK
<1>5. SentOnce'
  BY <1>2, <1>3 DEF SentOnce
<1>6. \A q \in Shards : worker[q] # "none" /\ q \notin open => q \notin open' /\ records'[q] = records[q]
  BY <1>3, WorkerIsListed
<1>7. Position' /\ BatchFollows' /\ HandledOnceInOrder'
  BY <1>0, <1>2, <1>6 DEF Position, Reading, BatchFollows, HandledOnceInOrder
<1> QED
  BY <1>4, <1>5, <1>7 DEF ShardRest

(* A step that leaves the stream, the workers and the history alone.        *)
LEMMA RestStays ==
  ASSUME ShardRest, UNCHANGED <<stream, working, shardHistory>>
  PROVE  ShardRest'
BY DEF ShardRest, Position, Reading, BatchFollows, HandledOnceInOrder, stream, working, shardHistory

LEMMA FinderStep ==
  ASSUME KinesisTypeOK, SentOnce, ShardRest, Finder \/ Interrupt
  PROVE  KinesisTypeOK' /\ SentOnce' /\ ShardRest'
<1>1. UNCHANGED <<stream, main, working, shardHistory>>
  BY DEF Finder, Interrupt, ListShards, SendShard, AllSent, FinderReturns, FinderEnds, stream, finding
<1>2. ShardRest'
  BY <1>1, RestStays
<1>3. /\ UNCHANGED <<listed, open, records, main, checkpoints, worker, returned>>
      /\ UNCHANGED <<atEnd, started, handled>>
  BY <1>1 DEF stream, working, shardHistory
<1>4. CASE ListShards
  <2>1. /\ finder' = "send" /\ pending' = listed
        /\ UNCHANGED <<shards, shardc, closed, cancelled>>
    BY <1>4 DEF ListShards
  <2> QED
    BY <1>2, <1>3, <2>1 DEF KinesisTypeOK, SentOnce
<1>5. ASSUME NEW s \in Shards, SendShard(s) PROVE KinesisTypeOK' /\ SentOnce'
  <2>1. /\ s \in pending /\ pending' = pending \ {s}
        /\ UNCHANGED <<finder, closed, cancelled>>
    BY <1>5 DEF SendShard
  <2>2. CASE s \in shards
    <3>1. UNCHANGED <<shards, shardc>>
      BY <1>5, <2>2 DEF SendShard
    <3> QED
      BY <1>3, <2>1, <3>1 DEF KinesisTypeOK, SentOnce
  <2>3. CASE s \notin shards
    <3>1. Len(shardc) < 1 /\ shards' = shards \union {s} /\ shardc' = Append(shardc, s)
      BY <1>5, <2>3 DEF SendShard
    <3>2. shardc = <<>>
      BY <3>1 DEF KinesisTypeOK
    <3>3. shardc' = <<s>> /\ shardc'[1] = s /\ shardc' \in Seq(Shards) /\ Len(shardc') <= 1
      BY <3>1, <3>2
    <3>4. started[s] = 0
      BY <2>3 DEF SentOnce
    <3>5. SentOnce'
      BY <1>3, <2>1, <3>1, <3>3, <3>4 DEF SentOnce
    <3> QED
      BY <1>3, <2>1, <3>1, <3>3, <3>5 DEF KinesisTypeOK
  <2> QED
    BY <2>2, <2>3
<1>6. CASE AllSent \/ FinderReturns
  <2>1. finder' \in {"select", "returned"} /\ UNCHANGED <<pending, shards, shardc, closed, cancelled>>
    BY <1>6 DEF AllSent, FinderReturns
  <2> QED
    BY <1>2, <1>3, <2>1 DEF KinesisTypeOK, SentOnce
<1>7. CASE FinderEnds
  <2>1. finder' = "done" /\ cancelled' = TRUE /\ closed' = TRUE /\ UNCHANGED <<pending, shards, shardc>>
    BY <1>7 DEF FinderEnds
  <2> QED
    BY <1>2, <1>3, <2>1 DEF KinesisTypeOK, SentOnce
<1>8. CASE Interrupt
  <2>1. cancelled' = TRUE /\ UNCHANGED <<finder, pending, shards, shardc, closed>>
    BY <1>8 DEF Interrupt, finding
  <2> QED
    BY <1>2, <1>3, <2>1 DEF KinesisTypeOK, SentOnce
<1> QED
  BY <1>2, <1>4, <1>5, <1>6, <1>7, <1>8 DEF Finder

(* The worker of a shard that was sent starts from nothing.                 *)
LEMMA StartStep ==
  ASSUME KinesisTypeOK, SentOnce, ShardRest, StartWorker
  PROVE  KinesisTypeOK' /\ SentOnce' /\ ShardRest'
<1>0. Position /\ BatchFollows /\ HandledOnceInOrder
  BY DEF ShardRest
<1> DEFINE s == Head(shardc)
<1>1. s \in Shards /\ s = shardc[1] /\ Tail(shardc) = <<>>
  <2>1. shardc # <<>> /\ shardc \in Seq(Shards) /\ Len(shardc) <= 1
    BY DEF StartWorker, KinesisTypeOK
  <2>2. /\ Tail(shardc) \in Seq(Shards) /\ Len(shardc) \in Nat \ {0}
        /\ Len(Tail(shardc)) = Len(shardc) - 1
        /\ Head(shardc) = shardc[1] /\ shardc[1] \in Shards
    BY <2>1, TailFacts
  <2>3. Len(Tail(shardc)) = 0
    BY <2>1, <2>2
  <2>4. Tail(shardc) = <<>>
    <3>1. ASSUME NEW q \in Seq(Shards), Len(q) = 0 PROVE q = <<>>
      BY <3>1
    <3> QED
      BY <2>2, <2>3, <3>1
  <2> QED
    BY <2>2, <2>4
<1>2. started[s] = 0 /\ s \in shards /\ worker[s] = "none"
  BY <1>1 DEF StartWorker, SentOnce
<1>3. checkpoints[s] = NoCheckpoint /\ Len(handled[s]) = 0
  BY <1>0, <1>1, <1>2 DEF Position
<1>4. /\ checkpoints' = [checkpoints EXCEPT ![s] = 0]
      /\ worker' = [worker EXCEPT ![s] = "scan"]
      /\ started' = [started EXCEPT ![s] = started[s] + 1]
      /\ shardc' = <<>>
      /\ UNCHANGED <<listed, open, records, finder, pending, shards, closed, main, returned, atEnd, cancelled, handled>>
  BY <1>1 DEF StartWorker, stream, finding
<1> HIDE DEF s
<1>5. /\ 0 \in {NoCheckpoint} \union 0 .. MaxRecord /\ started[s] + 1 = 1 /\ 0 # NoCheckpoint
  BY <1>2, LimitsAssumption DEF NoCheckpoint
<1>6. /\ checkpoints' \in [Shards -> {NoCheckpoint} \union 0 .. MaxRecord]
      /\ worker' \in [Shards -> {"none", "scan", "fetch", "record", "invoked", "select", "done"}]
      /\ started' \in [Shards -> Nat]
  BY <1>1, <1>4, <1>5 DEF KinesisTypeOK
<1>7. \A q \in Shards :
        IF q = s THEN checkpoints'[q] = 0 /\ worker'[q] = "scan" /\ started'[q] = 1
        ELSE checkpoints'[q] = checkpoints[q] /\ worker'[q] = worker[q] /\ started'[q] = started[q]
  BY <1>1, <1>4, <1>5 DEF KinesisTypeOK
<1>8. KinesisTypeOK'
  <2>1. shardc' \in Seq(Shards) /\ Len(shardc') <= 1
    BY <1>4
  <2> QED
    BY <1>4, <1>6, <2>1 DEF KinesisTypeOK
<1>9. SentOnce'
  BY <1>2, <1>4, <1>7 DEF SentOnce
<1>10. Position'
  BY <1>0, <1>3, <1>4, <1>5, <1>7 DEF Position, Reading
<1>11. BatchFollows' /\ HandledOnceInOrder'
  BY <1>0, <1>4, <1>7 DEF BatchFollows, HandledOnceInOrder
<1> QED
  BY <1>8, <1>9, <1>10, <1>11 DEF ShardRest

LEMMA MainEndStep ==
  ASSUME KinesisTypeOK, SentOnce, ShardRest, RangeEnds \/ WaitEnds
  PROVE  KinesisTypeOK' /\ SentOnce' /\ ShardRest'
<1>1. UNCHANGED <<stream, finding, shardc, closed, working, shardHistory>>
  BY DEF RangeEnds, WaitEnds
<1>2. main' \in {"wait", "done"} /\ cancelled' \in BOOLEAN
  BY DEF RangeEnds, WaitEnds, KinesisTypeOK
<1>3. ShardRest'
  BY <1>1, RestStays
<1> QED
  BY <1>1, <1>2, <1>3 DEF KinesisTypeOK, SentOnce, stream, finding, working, shardHistory

LEMMA KinesisNextInv == KinesisInv /\ [KinesisNext]_kinesisVars => KinesisInv'
<1> SUFFICES ASSUME KinesisInv, [KinesisNext]_kinesisVars PROVE KinesisTypeOK' /\ SentOnce' /\ ShardRest'
  BY DEF KinesisInv, ShardRest
<1>1. KinesisTypeOK /\ SentOnce /\ ShardRest
  BY DEF KinesisInv, ShardRest
<1>2. CASE Reshard \/ \E s \in Shards : Put(s)
  BY <1>1, <1>2, StreamStep
<1>3. CASE Finder \/ Interrupt
  BY <1>1, <1>3, FinderStep
<1>4. CASE Main
  BY <1>1, <1>4, StartStep, MainEndStep DEF Main
<1>5. CASE \E s \in Shards : Worker(s)
  BY <1>1, <1>5, WorkerStep
<1>6. CASE UNCHANGED kinesisVars
  <2>1. UNCHANGED <<stream, finding, shardc, closed, main, working, cancelled, shardHistory>>
    BY <1>6 DEF kinesisVars
  <2>2. ShardRest'
    BY <1>1, <2>1, RestStays
  <2> QED
    BY <1>1, <2>1, <2>2 DEF KinesisTypeOK, SentOnce, stream, finding, working, shardHistory
<1> QED
  BY <1>2, <1>3, <1>4, <1>5, <1>6 DEF KinesisNext

--------------------------------------------------------------------------------
(* The process as a consumer of a log                                       *)

(* What a worker has yet to handle is in the shard.                         *)
BatchIsThere ==
  \A s \in Shards : worker[s] \in {"record", "invoked"} =>
    checkpoints[s] + Len(returned[s]) <= records[s]

LEMMA BatchStays ==
  ASSUME KinesisInv, BatchIsThere, [KinesisNext]_kinesisVars
  PROVE  BatchIsThere'
<1>0. KinesisTypeOK /\ SentOnce /\ Position /\ BatchFollows
  BY DEF KinesisInv
<1> USE DEF stream, finding, working, shardHistory, Others
<1>1. \A s \in Shards : /\ checkpoints[s] \in Int /\ records[s] \in Nat /\ Len(returned[s]) \in Nat
                        /\ returned[s] \in Seq(Records)
  BY <1>0, Fields
<1>2. ASSUME UNCHANGED <<records, checkpoints, worker, returned>> PROVE BatchIsThere'
  BY <1>2 DEF BatchIsThere
<1>3. CASE Reshard \/ Interrupt \/ Finder \/ RangeEnds \/ WaitEnds \/ UNCHANGED kinesisVars
  <2>1. UNCHANGED <<records, checkpoints, worker, returned>>
    BY <1>3 DEF Reshard, Interrupt, Finder, ListShards, SendShard, AllSent, FinderReturns, FinderEnds,
       RangeEnds, WaitEnds, kinesisVars
  <2> QED
    BY <1>2, <2>1
<1>4. ASSUME NEW s \in Shards, Put(s) PROVE BatchIsThere'
  <2>1. /\ \A q \in Shards : records'[q] = IF q = s THEN records[s] + 1 ELSE records[q]
        /\ UNCHANGED <<checkpoints, worker, returned>>
    BY <1>0, <1>4 DEF Put, KinesisTypeOK
  <2> QED
    BY <1>1, <2>1 DEF BatchIsThere
<1>5. CASE StartWorker
  <2>1. /\ worker' = [worker EXCEPT ![Head(shardc)] = "scan"]
        /\ checkpoints' = [checkpoints EXCEPT ![Head(shardc)] = 0]
        /\ UNCHANGED <<records, returned>>
    BY <1>5 DEF StartWorker
  <2>2. \A q \in Shards : worker'[q] \in {"record", "invoked"} =>
          worker[q] = worker'[q] /\ checkpoints'[q] = checkpoints[q]
    BY <1>0, <2>1 DEF KinesisTypeOK
  <2> QED
    BY <2>1, <2>2 DEF BatchIsThere
<1>6. ASSUME NEW s \in Shards, Worker(s) PROVE BatchIsThere'
  <2>1. UNCHANGED records
    BY <1>6 DEF Worker, GetIterator, GetRecords, consumeMessage, StoreCheckpoint, BatchDone, ScanAgain
  <2>2. \A q \in Shards : q # s =>
          worker'[q] = worker[q] /\ checkpoints'[q] = checkpoints[q] /\ returned'[q] = returned[q]
    BY <1>0, <1>6 DEF Worker, GetIterator, GetRecords, consumeMessage, StoreCheckpoint, BatchDone, ScanAgain,
       Enter, KinesisTypeOK
  <2>3. SUFFICES ASSUME worker'[s] \in {"record", "invoked"}
                 PROVE  checkpoints'[s] + Len(returned'[s]) <= records[s]
    BY <2>1, <2>2 DEF BatchIsThere
  <2>4. CASE GetIterator(s) \/ ScanAgain(s) \/ BatchDone(s)
    <3>1. worker'[s] \in {"scan", "fetch", "select", "done"}
      BY <1>0, <2>4 DEF GetIterator, ScanAgain, BatchDone, Enter, KinesisTypeOK
    <3> QED
      BY <2>3, <3>1
  <2>5. CASE GetRecords(s)
    <3>1. ~Enter(s, "done") /\ worker[s] = "fetch" /\ UNCHANGED checkpoints
      BY <1>0, <2>3, <2>5 DEF GetRecords, At, Enter, KinesisTypeOK
    <3>2. PICK n \in 0 .. maxRecords :
            /\ After(s) + n - 1 <= records[s]
            /\ returned' = [returned EXCEPT ![s] = [i \in 1 .. n |-> After(s) + i - 1]]
      BY <2>5, <3>1 DEF GetRecords
    <3>3. checkpoints[s] # NoCheckpoint
      BY <1>0, <3>1 DEF Position, Reading
    <3>4. Len(returned'[s]) = n /\ After(s) + n - 1 = checkpoints[s] + n
      BY <1>0, <3>2, <3>3, NewBatch DEF KinesisTypeOK
    <3> QED
      BY <3>1, <3>2, <3>4
  <2>6. CASE consumeMessage(s)
    <3>1. worker[s] = "record" /\ UNCHANGED <<checkpoints, returned>>
      BY <2>6 DEF consumeMessage, At
    <3> QED
      BY <3>1 DEF BatchIsThere
  <2>7. CASE StoreCheckpoint(s)
    <3>1. /\ worker[s] = "invoked" /\ checkpoints'[s] = Head(returned[s])
          /\ returned'[s] = Tail(returned[s])
      BY <1>0, <2>7 DEF StoreCheckpoint, At, KinesisTypeOK
    <3>2. Len(returned[s]) > 0
      BY <1>0, <3>1 DEF Position
    <3>3. /\ Head(returned[s]) = returned[s][1] /\ 1 \in 1 .. Len(returned[s])
          /\ Len(Tail(returned[s])) = Len(returned[s]) - 1
      BY <1>1, <3>2, TailFacts
    <3>4. Head(returned[s]) = checkpoints[s] + 1
      BY <1>0, <3>1, <3>3 DEF BatchFollows
    <3>5. checkpoints[s] + Len(returned[s]) <= records[s]
      BY <3>1 DEF BatchIsThere
    <3> QED
      BY <1>1, <3>1, <3>3, <3>4, <3>5
  <2> QED
    BY <1>6, <2>4, <2>5, <2>6, <2>7 DEF Worker
<1> QED
  BY <1>3, <1>4, <1>5, <1>6 DEF KinesisNext, Main

(* What the variables of the log stand for.                                 *)
HandledOf == [s \in Shards |-> {handled[s][i] - 1 : i \in 1 .. Len(handled[s])}]
PositionOf == [s \in Shards |-> IF checkpoints[s] = NoCheckpoint THEN Len(handled[s]) ELSE checkpoints[s]]
Covered(s) == IF worker[s] = "invoked" THEN Len(handled[s]) - 1 ELSE Len(handled[s])
LogView ==
  /\ \A s \in Shards : Len(handled[s]) \in Nat
  /\ HandledOf = [s \in Shards |-> 0 .. Len(handled[s]) - 1]
  /\ PositionOf = [s \in Shards |-> Covered(s)]

LEMMA ViewIsSo == KinesisInv => LogView
<1> SUFFICES ASSUME KinesisInv PROVE LogView
  OBVIOUS
<1>0. KinesisTypeOK /\ Position /\ HandledOnceInOrder
  BY DEF KinesisInv
<1>1. \A s \in Shards : Len(handled[s]) \in Nat /\ checkpoints[s] \in Int
  BY <1>0, Fields
<1>2. ASSUME NEW s \in Shards
      PROVE  {handled[s][i] - 1 : i \in 1 .. Len(handled[s])} = 0 .. Len(handled[s]) - 1
  <2>1. \A i \in 1 .. Len(handled[s]) : handled[s][i] = i
    BY <1>0 DEF HandledOnceInOrder
  <2>2. Len(handled[s]) \in Nat
    BY <1>1
  <2>3. {handled[s][i] - 1 : i \in 1 .. Len(handled[s])} = {i - 1 : i \in 1 .. Len(handled[s])}
    BY <2>1
  <2>4. ASSUME NEW j \in 0 .. Len(handled[s]) - 1 PROVE j \in {i - 1 : i \in 1 .. Len(handled[s])}
    <3>1. j + 1 \in 1 .. Len(handled[s]) /\ j = (j + 1) - 1
      BY <2>2
    <3> QED
      BY <3>1
  <2>5. ASSUME NEW j \in {i - 1 : i \in 1 .. Len(handled[s])} PROVE j \in 0 .. Len(handled[s]) - 1
    BY <2>2
  <2> QED
    BY <2>3, <2>4, <2>5
<1>3. ASSUME NEW s \in Shards
      PROVE  (IF checkpoints[s] = NoCheckpoint THEN Len(handled[s]) ELSE checkpoints[s]) = Covered(s)
  <2>1. worker[s] \in {"none", "invoked", "done"} \/ Reading(s)
    BY <1>0 DEF KinesisTypeOK, Reading
  <2> QED
    BY <1>0, <1>1, <2>1 DEF Position, Reading, Covered
<1> QED
  BY <1>1, <1>2, <1>3 DEF LogView, HandledOf, PositionOf

LEMMA KinesisInitMaps == KinesisInit => Log!Init
<1> SUFFICES ASSUME KinesisInit PROVE Log!Init
  OBVIOUS
<1>1. \A s \in Shards : {handled[s][i] - 1 : i \in 1 .. Len(handled[s])} = {}
  BY DEF KinesisInit
<1>2. \A s \in Shards : (IF checkpoints[s] = NoCheckpoint THEN Len(handled[s]) ELSE checkpoints[s]) = 0
  BY DEF KinesisInit
<1> QED
  BY <1>1, <1>2 DEF KinesisInit, Log!Init

LEMMA KinesisNextMaps ==
  KinesisInv /\ KinesisInv' /\ BatchIsThere /\ [KinesisNext]_kinesisVars => [Log!Next]_(Log!vars)
<1> SUFFICES ASSUME KinesisInv, KinesisInv', BatchIsThere, [KinesisNext]_kinesisVars
             PROVE  Log!Next \/ UNCHANGED Log!vars
  OBVIOUS
<1>0. KinesisTypeOK /\ SentOnce /\ Position
  BY DEF KinesisInv
<1> USE DEF stream, finding, working, shardHistory, Others
<1>1. LogView /\ LogView'
  <2>1. KinesisInv' => LogView'
    BY ViewIsSo, PTL
  <2> QED
    BY <2>1, ViewIsSo
<1>2. /\ \A s \in Shards : Len(handled[s]) \in Nat
      /\ HandledOf = [s \in Shards |-> 0 .. Len(handled[s]) - 1]
      /\ PositionOf = [s \in Shards |-> Covered(s)]
      /\ HandledOf' = [s \in Shards |-> 0 .. Len(handled'[s]) - 1]
      /\ PositionOf' = [s \in Shards |-> Covered(s)']
  BY <1>1 DEF LogView
<1>3. ASSUME UNCHANGED <<records, handled>>, \A s \in Shards : worker'[s] = "invoked" <=> worker[s] = "invoked"
      PROVE  UNCHANGED Log!vars
  <2>1. UNCHANGED <<HandledOf, PositionOf>>
    BY <1>2, <1>3 DEF Covered
  <2> QED
    BY <1>3, <2>1 DEF Log!vars, HandledOf, PositionOf
<1>4. CASE Reshard \/ Interrupt \/ Finder \/ RangeEnds \/ WaitEnds \/ UNCHANGED kinesisVars
  <2>1. UNCHANGED <<records, handled, worker>>
    BY <1>4 DEF Reshard, Interrupt, Finder, ListShards, SendShard, AllSent, FinderReturns, FinderEnds,
       RangeEnds, WaitEnds, kinesisVars
  <2> QED
    BY <1>3, <2>1
<1>5. ASSUME NEW s \in Shards, Put(s) PROVE Log!Next
  <2>1. records' = [records EXCEPT ![s] = @ + 1] /\ UNCHANGED <<handled, worker, checkpoints>>
    BY <1>5 DEF Put
  <2>2. Log!Append(s)
    BY <2>1 DEF Log!Append
  <2> QED
    BY <2>2 DEF Log!Next
<1>6. CASE StartWorker
  <2>1. worker' = [worker EXCEPT ![shardc[1]] = "scan"] /\ shardc # <<>> /\ UNCHANGED <<records, handled>>
    BY <1>6 DEF StartWorker
  <2>2. started[shardc[1]] = 0 /\ shardc[1] \in Shards
    BY <1>0, <2>1 DEF SentOnce, KinesisTypeOK
  <2>3. worker[shardc[1]] = "none"
    BY <1>0, <2>2 DEF SentOnce
  <2> QED
    BY <1>0, <1>3, <2>1, <2>3 DEF KinesisTypeOK
<1>7. ASSUME NEW s \in Shards, GetIterator(s) \/ GetRecords(s) \/ BatchDone(s) \/ ScanAgain(s)
      PROVE  UNCHANGED Log!vars
  <2>1. PICK from, to : /\ from # "invoked" /\ to # "invoked" /\ At(s, from) /\ Enter(s, to)
                        /\ UNCHANGED <<records, handled>>
    BY <1>7 DEF GetIterator, GetRecords, BatchDone, ScanAgain
  <2> QED
    BY <1>0, <1>3, <2>1 DEF At, Enter, KinesisTypeOK
<1>8. ASSUME NEW s \in Shards, consumeMessage(s) PROVE Log!Next
  <2>0. PICK n \in Nat : n = Len(handled[s])
    BY <1>2
  <2>1. /\ worker[s] = "record" /\ worker' = [worker EXCEPT ![s] = "invoked"] /\ returned[s] # <<>>
        /\ handled' = [handled EXCEPT ![s] = Append(@, Head(returned[s]))]
        /\ UNCHANGED <<records, checkpoints>>
    BY <1>8 DEF consumeMessage, At, Enter
  <2>2. /\ Len(returned[s]) \in Nat \ {0} /\ Head(returned[s]) \in Records
        /\ handled[s] \in Seq(Records) /\ records[s] \in Nat
    BY <1>0, <2>1, Fields, TailFacts
  <2>3. /\ Len(handled'[s]) = n + 1
        /\ \A q \in Shards : q # s => handled'[q] = handled[q]
    BY <1>0, <2>0, <2>1, <2>2, AppendFacts DEF KinesisTypeOK
  <2>4. n \in 0 .. records[s] - 1
    <3>1. n = checkpoints[s] /\ checkpoints[s] + Len(returned[s]) <= records[s]
      BY <1>0, <2>0, <2>1 DEF Position, Reading, BatchIsThere
    <3> QED
      BY <2>2, <3>1
  <2>5. HandledOf' = [HandledOf EXCEPT ![s] = @ \union {n}] /\ 0 .. n - 1 \subseteq HandledOf[s]
    <3>1. 0 .. (n + 1) - 1 = (0 .. n - 1) \union {n}
      OBVIOUS
    <3> QED
      BY <1>2, <2>0, <2>3, <3>1
  <2>6. PositionOf' = PositionOf
    <3>1. Covered(s)' = Covered(s)
      BY <1>0, <2>0, <2>1, <2>3 DEF Covered, KinesisTypeOK
    <3>2. \A q \in Shards : q # s => Covered(q)' = Covered(q)
      BY <1>0, <2>1, <2>3 DEF Covered, KinesisTypeOK
    <3> QED
      BY <1>2, <3>1, <3>2
  <2>7. Log!Handle(s, n)
    BY <2>1, <2>5, <2>6 DEF Log!Handle, Log!HandledBefore, HandledOf, PositionOf
  <2> QED
    BY <2>4, <2>7 DEF Log!Next
<1>9. ASSUME NEW s \in Shards, StoreCheckpoint(s) PROVE Log!Next
  <2>0. PICK n \in Nat : n = Len(handled[s])
    BY <1>2
  <2>1. /\ worker[s] = "invoked" /\ worker' = [worker EXCEPT ![s] = "record"]
        /\ UNCHANGED <<records, handled>>
    BY <1>9 DEF StoreCheckpoint, At, Enter
  <2>2. n \in 1 .. records[s]
    <3>1. n = checkpoints[s] + 1 /\ Len(returned[s]) > 0 /\ checkpoints[s] # NoCheckpoint
      BY <1>0, <2>0, <2>1 DEF Position
    <3>2. checkpoints[s] + Len(returned[s]) <= records[s]
      BY <2>1 DEF BatchIsThere
    <3>3. checkpoints[s] \in Nat /\ records[s] \in Nat /\ Len(returned[s]) \in Nat
      BY <1>0, <3>1, Fields
    <3> QED
      BY <3>1, <3>2, <3>3
  <2>3. /\ \A q \in Shards : Covered(q)' = IF q = s THEN n ELSE Covered(q)
        /\ Covered(s) = n - 1
    BY <1>0, <2>0, <2>1 DEF Covered, KinesisTypeOK
  <2>4. PositionOf' = [PositionOf EXCEPT ![s] = n] /\ PositionOf[s] < n
    <3>1. PositionOf' = [q \in Shards |-> IF q = s THEN n ELSE Covered(q)]
      BY <1>2, <2>3
    <3>2. PositionOf[s] < n
      BY <1>2, <2>3
    <3>3. [PositionOf EXCEPT ![s] = n] = [q \in Shards |-> IF q = s THEN n ELSE Covered(q)]
      BY <1>2
    <3> QED
      BY <3>1, <3>2, <3>3
  <2>5. HandledOf' = HandledOf /\ 0 .. n - 1 \subseteq HandledOf[s] /\ n - 1 \in HandledOf[s]
    <3>1. HandledOf' = HandledOf /\ HandledOf[s] = 0 .. n - 1
      BY <1>2, <2>0, <2>1
    <3> QED
      BY <2>2, <3>1
  <2>6. Log!Move(s, n)
    BY <2>1, <2>4, <2>5 DEF Log!Move, Log!HandledBefore, HandledOf, PositionOf
  <2> QED
    BY <2>2, <2>6 DEF Log!Next
<1> QED
  BY <1>4, <1>5, <1>6, <1>7, <1>8, <1>9 DEF KinesisNext, Main, Worker

--------------------------------------------------------------------------------
(* Theorems *)

(* The variables keep their types.                                          *)
THEOREM KinesisTypeCorrect == KinesisSpec => []KinesisTypeOK
BY KinesisInitInv, KinesisNextInv, PTL DEF KinesisSpec, KinesisInv

(* However often findNewShards finds a shard, whatever is added, closed and *)
(* waits in the channel, the shard has one worker in the life of the        *)
(* process.                                                                 *)
THEOREM OneWorker == KinesisSpec => []OneWorkerPerShard
<1>1. KinesisInv => OneWorkerPerShard
  BY DEF KinesisInv, SentOnce, OneWorkerPerShard
<1> QED
  BY <1>1, KinesisInitInv, KinesisNextInv, PTL DEF KinesisSpec

(* The records of a shard are handled once each and in their order, over    *)
(* all the scans of consumeMessage and whatever the size of their batches.  *)
THEOREM InOrderOnce == KinesisSpec => []HandledOnceInOrder
BY KinesisInitInv, KinesisNextInv, PTL DEF KinesisSpec, KinesisInv

(* The checkpoint a scan starts after covers records that were handled, and *)
(* none is left in a shard that is given up as closed.                      *)
THEOREM CheckpointIsSafe == KinesisSpec => []CheckpointIsHandled
<1>1. KinesisInv => CheckpointIsHandled
  <2> SUFFICES ASSUME KinesisInv, NEW s \in Shards
               PROVE  /\ checkpoints[s] # NoCheckpoint => checkpoints[s] <= Len(handled[s])
                      /\ worker[s] = "done" /\ checkpoints[s] = NoCheckpoint => Len(handled[s]) = records[s]
    BY DEF CheckpointIsHandled
  <2>1. KinesisTypeOK /\ Position
    BY DEF KinesisInv
  <2>2. checkpoints[s] \in Int /\ Len(handled[s]) \in Nat
    BY <2>1, Fields
  <2>3. worker[s] \in {"none", "invoked", "done"} \/ Reading(s)
    BY <2>1 DEF KinesisTypeOK, Reading
  <2>4. checkpoints[s] # NoCheckpoint =>
          Len(handled[s]) = checkpoints[s] \/ Len(handled[s]) = checkpoints[s] + 1
    BY <2>1, <2>3 DEF Position
  <2> QED
    BY <2>1, <2>2, <2>4 DEF Position
<1> QED
  BY <1>1, KinesisInitInv, KinesisNextInv, PTL DEF KinesisSpec

(* In every shard the process is a consumer of a log: it handles what is    *)
(* there, one record after the other, and its checkpoint moves forward over *)
(* what was handled, whatever requests fail and scans begin anew.           *)
THEOREM KinesisImplementsLogConsumer == KinesisSpec => RefinesLogConsumer
<1>1. KinesisInit => BatchIsThere
  BY DEF KinesisInit, BatchIsThere
<1>2. KinesisInv /\ BatchIsThere /\ [KinesisNext]_kinesisVars => BatchIsThere'
  BY BatchStays
<1> QED
  BY <1>1, <1>2, KinesisInitInv, KinesisNextInv, KinesisInitMaps, KinesisNextMaps, PTL
     DEF KinesisSpec, RefinesLogConsumer, Log!Spec

================================================================================
