------------------------- MODULE RedisConnector_proofs -------------------------
(***************************************************************************)
(* Proofs about the Redis connector, for any number of replicas, messages  *)
(* and crashes: it handles a message at most once and forgets none outside *)
(* of a failed call or a crash.                                            *)
(***************************************************************************)
EXTENDS RedisConnector, TLAPS

(* No two replicas have the same message in hand.                           *)
Exclusive == \A q, r \in Replicas : message[q] = message[r] /\ message[r] # None => q = r

(* What was handled was popped, and only what was handled has an outcome.   *)
HandledWasPopped ==
  /\ handled \subseteq 1 .. popped
  /\ \A m \in Messages : outcome[m] # "none" => m \in handled

(* A message in hand is handled after "invoke" only, and not concluded.     *)
InHand ==
  \A r \in Replicas :
    /\ step[r] = "invoke" => message[r] \notin handled
    /\ step[r] \in {"body", "error", "response"} => message[r] \in handled
    /\ message[r] # None => outcome[message[r]] = "none" /\ message[r] \notin lost

(* Only what was popped is lost.                                            *)
LostWasPopped == lost \subseteq 1 .. popped

IInv == TypeOK /\ Exclusive /\ HandledWasPopped /\ InHand /\ LostWasPopped /\ LostOnlyInCalls

LEMMA InitInv == Init => IInv
<1> SUFFICES ASSUME Init PROVE IInv
  OBVIOUS
<1>1. TypeOK
  BY BoundsAssumption DEF Init, TypeOK, Messages, None
<1>2. Exclusive /\ HandledWasPopped /\ InHand /\ LostWasPopped /\ LostOnlyInCalls
  BY DEF Init, Exclusive, HandledWasPopped, InHand, LostWasPopped, LostOnlyInCalls, Messages, None
<1> QED
  BY <1>1, <1>2 DEF IInv

--------------------------------------------------------------------------------
(* Every step keeps the types. *)

LEMMA HandRange ==
  ASSUME TypeOK, NEW r \in Replicas, step[r] \notin {"check", "pop", "done"}
  PROVE  message[r] \in 1 .. popped /\ message[r] \in Messages
<1>1. message[r] \in 0 .. popped /\ message[r] # 0
  BY DEF TypeOK, None
<1>2. popped \in 0 .. MaxMessage
  BY BoundsAssumption DEF TypeOK
<1> QED
  BY <1>1, <1>2, BoundsAssumption DEF Messages

(* What becomes of step and message when a replica moves on.                *)
LEMMA GoTypes ==
  ASSUME TypeOK, NEW r \in Replicas, NEW from, Go(r, from, "check"),
         message' = [message EXCEPT ![r] = None], popped' = popped
  PROVE  /\ step' \in [Replicas -> {"check", "pop", "invoke", "body", "error", "response", "done"}]
         /\ message' \in [Replicas -> 0 .. popped']
         /\ \A q \in Replicas : message'[q] = None <=> step'[q] \in {"check", "pop", "done"}
<1>1. 0 \in 0 .. popped
  BY DEF TypeOK
<1> QED
  BY <1>1 DEF TypeOK, Go, None

LEMMA KeepTypes ==
  ASSUME TypeOK, NEW r \in Replicas, NEW from \in {"invoke", "body", "error", "response"},
         NEW to \in {"body", "error", "response"},
         Go(r, from, to), message' = message, popped' = popped
  PROVE  /\ step' \in [Replicas -> {"check", "pop", "invoke", "body", "error", "response", "done"}]
         /\ message' \in [Replicas -> 0 .. popped']
         /\ \A q \in Replicas : message'[q] = None <=> step'[q] \in {"check", "pop", "done"}
  BY DEF TypeOK, Go, None

LEMMA TypeStep == TypeOK /\ [Next]_vars => TypeOK'
<1> SUFFICES ASSUME TypeOK, [Next]_vars PROVE TypeOK'
  OBVIOUS
<1> USE BoundsAssumption DEF list, history
<1>1. CASE Push
  BY <1>1 DEF Push, TypeOK, Messages, None
<1>2. ASSUME NEW r \in Replicas, Signal(r) PROVE TypeOK'
  BY <1>2 DEF Signal, TypeOK, Messages, None
<1>3. ASSUME NEW r \in Replicas, Crash(r) PROVE TypeOK'
  <2>1. /\ step' \in [Replicas -> {"check", "pop", "invoke", "body", "error", "response", "done"}]
        /\ message' \in [Replicas -> 0 .. popped']
        /\ \A q \in Replicas : message'[q] = None <=> step'[q] \in {"check", "pop", "done"}
        /\ cancelled' \in [Replicas -> BOOLEAN]
    BY <1>3 DEF Crash, TypeOK, None
  <2>2. lost' \subseteq Messages
    <3>1. message[r] # None => message[r] \in Messages
      BY HandRange DEF TypeOK
    <3> QED
      BY <1>3, <3>1 DEF Crash, TypeOK
  <2>3. crashes' \in 0 .. MaxCrashes
    BY <1>3 DEF Crash, TypeOK
  <2> QED
    BY <1>3, <2>1, <2>2, <2>3 DEF Crash, TypeOK
<1>4. ASSUME NEW r \in Replicas, Check(r) PROVE TypeOK'
  BY <1>4 DEF Check, Go, TypeOK, Messages, None
<1>5. ASSUME NEW r \in Replicas, BLPop(r) PROVE TypeOK'
  BY <1>5 DEF BLPop, Go, TypeOK, Messages, None
<1>6. ASSUME NEW r \in Replicas, PopFails(r) PROVE TypeOK'
  <2>1. step' = [step EXCEPT ![r] = "check"] /\ step[r] = "pop" /\ message' = message
    BY <1>6 DEF PopFails, Go
  <2>2. /\ popped' \in 0 .. pushed' /\ pushed' \in 0 .. MaxMessage /\ lost' \subseteq Messages
        /\ message' \in [Replicas -> 0 .. popped']
    <3>1. popped' \in {popped, popped + 1} /\ popped' <= pushed /\ pushed' = pushed
      BY <1>6 DEF PopFails, Go, TypeOK
    <3>2. popped \in Nat /\ pushed \in 0 .. MaxMessage
      BY DEF TypeOK
    <3>3. 0 .. popped \subseteq 0 .. popped'
      BY <3>1, <3>2
    <3>4. lost' \subseteq Messages
      <4>1. popped < pushed => popped + 1 \in Messages
        BY <3>2 DEF Messages
      <4>2. lost' = lost \/ (popped < pushed /\ lost' = lost \union {popped + 1})
        BY <1>6 DEF PopFails
      <4> QED
        BY <4>1, <4>2 DEF TypeOK
    <3>5. message' \in [Replicas -> 0 .. popped']
      BY <2>1, <3>3 DEF TypeOK
    <3> QED
      BY <3>1, <3>2, <3>4, <3>5
  <2>3. /\ step' \in [Replicas -> {"check", "pop", "invoke", "body", "error", "response", "done"}]
        /\ \A q \in Replicas : message'[q] = None <=> step'[q] \in {"check", "pop", "done"}
    BY <2>1 DEF TypeOK
  <2> QED
    BY <1>6, <2>2, <2>3 DEF PopFails, Go, TypeOK
<1>7. ASSUME NEW r \in Replicas, Invoke(r) PROVE TypeOK'
  <2>1. message[r] \in Messages
    BY <1>7, HandRange DEF Invoke, Go
  <2>2. PICK to \in {"body", "error"} : Go(r, "invoke", to) /\ message' = message /\ popped' = popped
    BY <1>7 DEF Invoke
  <2> QED
    BY <1>7, <2>1, <2>2, KeepTypes DEF Invoke, Go, TypeOK
<1>8. ASSUME NEW r \in Replicas, ReadBody(r) PROVE TypeOK'
  <2>1. PICK to \in {"response", "error"} : Go(r, "body", to) /\ message' = message /\ popped' = popped
    BY <1>8 DEF ReadBody
  <2> QED
    BY <1>8, <2>1, KeepTypes DEF ReadBody, Go, TypeOK
<1>9. ASSUME NEW r \in Replicas, NEW from \in {"error", "response"}, NEW topicSet,
             Finish(r, from), RPush(message[r], from, topicSet, cancelled[r])
      PROVE  TypeOK'
  <2>1. message[r] \in Messages
    BY <1>9, HandRange DEF Finish, Go
  <2>2. outcome' \in [Messages -> {"none", "response", "error"}] /\ lost' \subseteq Messages
    BY <1>9, <2>1 DEF RPush, TypeOK
  <2> QED
    BY <1>9, <2>2, GoTypes DEF Finish, Go, TypeOK
<1>10. ASSUME NEW r \in Replicas, errorHandler(r) \/ responseHandler(r) PROVE TypeOK'
  BY <1>9, <1>10 DEF errorHandler, responseHandler
<1>11. CASE UNCHANGED vars
  BY <1>11 DEF vars, TypeOK
<1> QED
  BY <1>1, <1>2, <1>3, <1>4, <1>5, <1>6, <1>7, <1>8, <1>10, <1>11 DEF Next, Handle

--------------------------------------------------------------------------------
(* Every step keeps the invariant. *)

LEMMA NextInv == IInv /\ [Next]_vars => IInv'
<1> SUFFICES ASSUME IInv, [Next]_vars PROVE IInv'
  OBVIOUS
<1>0. TypeOK /\ TypeOK'
  BY TypeStep DEF IInv
<1> DEFINE Rest == Exclusive /\ HandledWasPopped /\ InHand /\ LostWasPopped /\ LostOnlyInCalls
<1>01. \A r \in Replicas : message[r] # None => message[r] \in 1 .. popped /\ message[r] \in Messages
  BY <1>0, HandRange DEF TypeOK
<1>02. popped \in Nat /\ 1 .. popped \subseteq Messages
  BY <1>0, BoundsAssumption DEF TypeOK, Messages
<1>03. Rest
  BY DEF IInv
<1> USE DEF list, history
<1>04. ASSUME NEW r \in Replicas, NEW to, step' = [step EXCEPT ![r] = to],
               message' = [message EXCEPT ![r] = None]
       PROVE  \A q \in Replicas :
                IF q = r THEN step'[q] = to /\ message'[q] = None
                ELSE step'[q] = step[q] /\ message'[q] = message[q]
  BY <1>0, <1>04 DEF TypeOK
<1>1. ASSUME Push PROVE Rest'
  BY <1>0, <1>03, <1>1
     DEF Push, Messages, Exclusive, HandledWasPopped, InHand, LostWasPopped, LostOnlyInCalls
<1>2. ASSUME NEW r \in Replicas, Signal(r) PROVE Rest'
  BY <1>03, <1>2
     DEF Signal, Exclusive, HandledWasPopped, InHand, LostWasPopped, LostOnlyInCalls
<1>3. ASSUME NEW r \in Replicas, Crash(r) PROVE Rest'
  <2>1. \A q \in Replicas :
          IF q = r THEN step'[q] = "check" /\ message'[q] = None
          ELSE step'[q] = step[q] /\ message'[q] = message[q]
    BY <1>04, <1>3 DEF Crash
  <2>2. /\ lost' = lost \union ({message[r]} \ {None})
        /\ popped' = popped /\ handled' = handled /\ outcome' = outcome
    BY <1>3 DEF Crash
  <2>3. Exclusive' /\ HandledWasPopped' /\ LostWasPopped'
    BY <1>01, <1>03, <2>1, <2>2 DEF Exclusive, HandledWasPopped, LostWasPopped
  <2>4. InHand'
    BY <1>03, <2>1, <2>2 DEF InHand, Exclusive, None
  <2>5. LostOnlyInCalls'
    BY <1>01, <1>03, <2>1, <2>2 DEF LostOnlyInCalls, InHand
  <2> QED
    BY <2>3, <2>4, <2>5
<1>4. ASSUME NEW r \in Replicas, Check(r) PROVE Rest'
  BY <1>0, <1>03, <1>4 DEF Check, Go, TypeOK, None,
     Exclusive, HandledWasPopped, InHand, LostWasPopped, LostOnlyInCalls
<1>5. ASSUME NEW r \in Replicas, BLPop(r) PROVE Rest'
  <2>1. \A q \in Replicas :
          IF q = r THEN step'[q] = "invoke" /\ message'[q] = popped + 1
          ELSE step'[q] = step[q] /\ message'[q] = message[q]
    BY <1>0, <1>5 DEF BLPop, Go, TypeOK
  <2>2. /\ popped' = popped + 1 /\ popped + 1 \in Messages
        /\ lost' = lost /\ handled' = handled /\ outcome' = outcome
    BY <1>0, <1>5, BoundsAssumption DEF BLPop, Go, TypeOK, Messages
  <2>3. /\ popped + 1 \notin 1 .. popped /\ 1 .. popped' = (1 .. popped) \union {popped + 1}
        /\ message[r] = None /\ popped + 1 # None
    BY <1>0, <1>02, <1>5, <2>2 DEF BLPop, Go, TypeOK, None
  <2>4. Exclusive' /\ HandledWasPopped' /\ LostWasPopped'
    BY <1>01, <1>03, <2>1, <2>2, <2>3 DEF Exclusive, HandledWasPopped, LostWasPopped
  <2>5. outcome[popped + 1] = "none" /\ popped + 1 \notin handled \union lost
    BY <1>03, <2>2, <2>3 DEF HandledWasPopped, LostWasPopped
  <2>6. InHand'
    BY <1>03, <2>1, <2>2, <2>3, <2>5 DEF InHand
  <2>7. LostOnlyInCalls'
    <3> SUFFICES ASSUME ResponseTopicSet /\ ErrorTopicSet, NEW m \in (1 .. popped) \union {popped + 1}
                 PROVE  \/ \E q \in Replicas : message'[q] = m
                        \/ outcome[m] # "none" <=> m \notin lost
      BY <2>2, <2>3 DEF LostOnlyInCalls
    <3> QED
      BY <1>01, <1>03, <2>1, <2>3 DEF LostOnlyInCalls, None
  <2> QED
    BY <2>4, <2>6, <2>7
<1>6. ASSUME NEW r \in Replicas, PopFails(r) PROVE Rest'
  <2>1. /\ step' = [step EXCEPT ![r] = "check"] /\ message' = message
        /\ handled' = handled /\ outcome' = outcome
    BY <1>6 DEF PopFails, Go
  <2>2. CASE popped' = popped /\ lost' = lost
    BY <1>0, <1>03, <2>1, <2>2 DEF TypeOK, None,
       Exclusive, HandledWasPopped, InHand, LostWasPopped, LostOnlyInCalls
  <2>3. CASE popped < pushed /\ popped' = popped + 1 /\ lost' = lost \union {popped + 1}
    <3>1. /\ popped + 1 \notin 1 .. popped /\ 1 .. popped' = (1 .. popped) \union {popped + 1}
          /\ popped + 1 \in Messages
      BY <1>0, <1>02, <2>3 DEF TypeOK, Messages
    <3>2. outcome[popped + 1] = "none"
      BY <1>03, <3>1 DEF HandledWasPopped
    <3>3. \A q \in Replicas : message[q] # popped + 1
      BY <1>0, <1>02 DEF TypeOK
    <3>4. Exclusive' /\ HandledWasPopped' /\ LostWasPopped'
      BY <1>03, <2>1, <2>3, <3>1 DEF Exclusive, HandledWasPopped, LostWasPopped
    <3>5. InHand'
      BY <1>0, <1>03, <2>1, <2>3, <3>3 DEF InHand, TypeOK
    <3>6. LostOnlyInCalls'
      BY <1>03, <2>1, <2>3, <3>1, <3>2 DEF LostOnlyInCalls
    <3> QED
      BY <3>4, <3>5, <3>6
  <2> QED
    BY <1>6, <2>2, <2>3 DEF PopFails
<1>7. ASSUME NEW r \in Replicas, Invoke(r) PROVE Rest'
  <2>1. /\ step' = [step EXCEPT ![r] = "body"] \/ step' = [step EXCEPT ![r] = "error"]
        /\ message' = message /\ handled' = handled \union {message[r]}
        /\ popped' = popped /\ outcome' = outcome /\ lost' = lost
    BY <1>7 DEF Invoke, Go
  <2>2. message[r] # None
    BY <1>0, <1>7 DEF Invoke, Go, TypeOK
  <2>3. Exclusive' /\ HandledWasPopped' /\ LostWasPopped' /\ LostOnlyInCalls'
    BY <1>01, <1>03, <2>1, <2>2 DEF Exclusive, HandledWasPopped, LostWasPopped, LostOnlyInCalls
  <2>4. \A q \in Replicas :
          IF q = r THEN step'[q] \in {"body", "error"} ELSE step'[q] = step[q]
    BY <1>0, <2>1 DEF TypeOK
  <2>5. \A q \in Replicas : step[q] = "invoke" => message[q] # None
    BY <1>0 DEF TypeOK
  <2>6. InHand'
    BY <1>03, <2>1, <2>2, <2>4, <2>5 DEF InHand, Exclusive
  <2> QED
    BY <2>3, <2>6
<1>8. ASSUME NEW r \in Replicas, ReadBody(r) PROVE Rest'
  BY <1>0, <1>03, <1>8 DEF ReadBody, Go, TypeOK, None,
     Exclusive, HandledWasPopped, InHand, LostWasPopped, LostOnlyInCalls
<1>9. ASSUME NEW r \in Replicas, NEW from \in {"error", "response"}, NEW topicSet \in BOOLEAN,
             ResponseTopicSet /\ ErrorTopicSet => topicSet,
             Finish(r, from), RPush(message[r], from, topicSet, cancelled[r])
      PROVE  Rest'
  <2>1. \A q \in Replicas :
          IF q = r THEN step'[q] = "check" /\ message'[q] = None
          ELSE step'[q] = step[q] /\ message'[q] = message[q]
    BY <1>04, <1>9 DEF Finish, Go
  <2>2. popped' = popped /\ handled' = handled /\ message[r] # None
    BY <1>0, <1>9 DEF Finish, Go, TypeOK
  <2>3. message[r] \in handled /\ outcome[message[r]] = "none" /\ message[r] \notin lost
    BY <1>03, <1>9, <2>2 DEF InHand, Finish, Go
  <2>4. \/ outcome' = outcome /\ lost' = lost /\ ~(ResponseTopicSet /\ ErrorTopicSet)
        \/ outcome' = [outcome EXCEPT ![message[r]] = from] /\ lost' = lost
        \/ outcome' = outcome /\ lost' = lost \union {message[r]}
    BY <1>9 DEF RPush
  <2>5. /\ \A m \in Messages : m # message[r] => (outcome'[m] = outcome[m] /\ (m \in lost' <=> m \in lost))
        /\ lost' \subseteq lost \union {message[r]}
    BY <1>0, <2>4 DEF TypeOK
  <2>6. ResponseTopicSet /\ ErrorTopicSet =>
          (outcome'[message[r]] # "none" <=> message[r] \notin lost')
    BY <1>0, <1>01, <2>2, <2>3, <2>4 DEF TypeOK
  <2>7. Exclusive' /\ LostWasPopped'
    BY <1>01, <1>03, <2>1, <2>2, <2>5 DEF Exclusive, LostWasPopped
  <2>8. HandledWasPopped'
    BY <1>03, <2>2, <2>3, <2>5 DEF HandledWasPopped
  <2>9. InHand'
    BY <1>01, <1>03, <2>1, <2>2, <2>5 DEF InHand, Exclusive, None
  <2>10. LostOnlyInCalls'
    BY <1>02, <1>03, <2>1, <2>2, <2>5, <2>6 DEF LostOnlyInCalls
  <2> QED
    BY <2>7, <2>8, <2>9, <2>10
<1>10. ASSUME NEW r \in Replicas, errorHandler(r) \/ responseHandler(r) PROVE Rest'
  BY <1>9, <1>10, ConfigAssumption DEF errorHandler, responseHandler
<1>11. ASSUME UNCHANGED vars PROVE Rest'
  BY <1>03, <1>11 DEF vars, Exclusive, HandledWasPopped, InHand, LostWasPopped, LostOnlyInCalls
<1> QED
  BY <1>0, <1>1, <1>2, <1>3, <1>4, <1>5, <1>6, <1>7, <1>8, <1>10, <1>11 DEF Next, Handle, IInv

--------------------------------------------------------------------------------
(* The theorems *)

(* The variables of the Redis connector keep their types.                   *)
THEOREM TypeCorrect == Spec => []TypeOK
<1> QED
  BY InitInv, NextInv, PTL DEF Spec, IInv

(* No path through consumeMessage forgets a message: what is popped and no  *)
(* more in hand has its outcome, or was lost in a failed call or a crash.   *)
THEOREM NothingIsForgotten == Spec => []LostOnlyInCalls
<1> QED
  BY InitInv, NextInv, PTL DEF Spec, IInv

--------------------------------------------------------------------------------
(* The connector implements AtMostOnce. *)

LEMMA InitMaps == Init => Promise!Init
  BY DEF Init, Promise!Init

LEMMA NextMaps == IInv /\ [Next]_vars => [Promise!Next]_(Promise!vars)
<1> SUFFICES ASSUME IInv, [Next]_vars PROVE [Promise!Next]_(Promise!vars)
  OBVIOUS
<1>0. TypeOK /\ HandledWasPopped /\ InHand
  BY DEF IInv
<1>01. \A r \in Replicas : message[r] # None => message[r] \in Messages /\ message[r] <= popped
  BY <1>0, HandRange DEF TypeOK
<1> USE DEF list, history, Promise!vars
<1>1. CASE Push
  <2>1. pushed + 1 \in Messages
    BY <1>0, <1>1, BoundsAssumption DEF Push, TypeOK, Messages
  <2> QED
    BY <1>1, <2>1 DEF Push, Promise!Next, Promise!Put
<1>2. ASSUME NEW r \in Replicas, Signal(r) \/ Crash(r) \/ Check(r) \/ ReadBody(r)
      PROVE  UNCHANGED Promise!vars
  BY <1>2 DEF Signal, Crash, Check, ReadBody, Go
<1>3. ASSUME NEW r \in Replicas, BLPop(r) \/ PopFails(r) PROVE [Promise!Next]_(Promise!vars)
  BY <1>3 DEF BLPop, PopFails, Go, Promise!Next, Promise!Take
<1>4. ASSUME NEW r \in Replicas, Invoke(r) PROVE Promise!Next
  <2>1. message[r] \in Messages /\ message[r] <= popped /\ message[r] \notin handled
    BY <1>0, <1>01, <1>4 DEF Invoke, Go, InHand, TypeOK
  <2>2. Promise!Handle(message[r])
    BY <1>4, <2>1 DEF Invoke, Go, Promise!Handle
  <2> QED
    BY <2>1, <2>2 DEF Promise!Next
<1>5. ASSUME NEW r \in Replicas, NEW from \in {"error", "response"}, NEW topicSet,
             Finish(r, from), RPush(message[r], from, topicSet, cancelled[r])
      PROVE  [Promise!Next]_(Promise!vars)
  <2>1. /\ message[r] \in Messages /\ message[r] \in handled
        /\ outcome[message[r]] = "none"
    BY <1>0, <1>01, <1>5 DEF Finish, Go, InHand, TypeOK
  <2>2. pushed' = pushed /\ popped' = popped /\ handled' = handled
    BY <1>5 DEF Finish, Go
  <2>3. CASE outcome' = outcome
    BY <2>2, <2>3
  <2>4. CASE outcome' = [outcome EXCEPT ![message[r]] = from]
    BY <2>1, <2>2, <2>4 DEF Promise!Next, Promise!Conclude
  <2> QED
    BY <1>5, <2>3, <2>4 DEF RPush
<1>6. CASE UNCHANGED vars
  BY <1>6 DEF vars
<1> QED
  BY <1>1, <1>2, <1>3, <1>4, <1>5, <1>6 DEF Next, Handle, errorHandler, responseHandler

(* Replicas take the messages in their order and never share one, none is   *)
(* handled twice, and none has two outcomes.                                *)
THEOREM ImplementsAtMostOnce == Spec => RefinesAtMostOnce
<1> QED
  BY InitMaps, NextMaps, InitInv, NextInv, PTL DEF Spec, RefinesAtMostOnce, Promise!Spec

================================================================================
