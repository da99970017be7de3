----------------------------- MODULE RedisConnector -----------------------------
(***************************************************************************)
(* The Redis connector (redis-http-connector/main.go): one goroutine per   *)
(* replica pops a message off the list, handles it and pushes the response *)
(* or the error to another list, until the context is cancelled by a       *)
(* signal.  The list and the client are external: a pop may fail with the  *)
(* message already gone from the list, and the client refuses to push once *)
(* the context is cancelled.  Messages are numbered as they are pushed.    *)
(***************************************************************************)
EXTENDS Integers

CONSTANTS
  Replicas,          \* the replicas of the connector
  ResponseTopicSet,  \* whether RESPONSE_TOPIC is set
  ErrorTopicSet,     \* whether ERROR_TOPIC is set
  MaxMessage,        \* bound: how many messages are pushed
  MaxCrashes         \* bound: how often replicas crash

ASSUME ConfigAssumption == ResponseTopicSet \in BOOLEAN /\ ErrorTopicSet \in BOOLEAN
ASSUME BoundsAssumption == MaxMessage \in Nat /\ MaxCrashes \in Nat

VARIABLES
  pushed,     \* external: how many messages have been pushed to the list
  popped,     \* external: how many of them have been popped, first in first out
  step,       \* step[r]: where the goroutine of r is
  message,    \* message[r]: the message it has in hand, None between messages
  cancelled,  \* cancelled[r]: whether its context is cancelled
  crashes,    \* how often replicas have crashed
  handled,    \* history: the messages HandleHTTPRequest was called for
  outcome,    \* history: outcome[m]: what was pushed for m
  lost        \* history: the messages whose pop failed, whose replica crashed
              \* with them in hand, or whose outcome could not be pushed

list == <<pushed, popped>>
history == <<handled, outcome, lost>>
vars == <<list, step, message, cancelled, crashes, history>>

Messages == 1 .. MaxMessage
None == 0

TypeOK ==
  /\ popped \in 0 .. pushed /\ pushed \in 0 .. MaxMessage
  /\ step \in [Replicas -> {"check", "pop", "invoke", "body", "error", "response", "done"}]
  /\ message \in [Replicas -> 0 .. popped]
  /\ \A r \in Replicas : message[r] = None <=> step[r] \in {"check", "pop", "done"}
  /\ cancelled \in [Replicas -> BOOLEAN]
  /\ crashes \in 0 .. MaxCrashes
  /\ handled \subseteq Messages /\ lost \subseteq Messages
  /\ outcome \in [Messages -> {"none", "response", "error"}]

Init ==
  /\ pushed = 0 /\ popped = 0
  /\ step = [r \in Replicas |-> "check"]
  /\ message = [r \in Replicas |-> None]
  /\ cancelled = [r \in Replicas |-> FALSE]
  /\ crashes = 0
  /\ handled = {} /\ lost = {}
  /\ outcome = [m \in Messages |-> "none"]

--------------------------------------------------------------------------------
(* Producers, signals and crashes *)

Push ==
  /\ pushed < MaxMessage
  /\ pushed' = pushed + 1
  /\ UNCHANGED <<popped, step, message, cancelled, crashes, history>>

(* The first signal cancels the context.                                    *)
Signal(r) ==
  /\ step[r] # "done" /\ ~cancelled[r]
  /\ cancelled' = [cancelled EXCEPT ![r] = TRUE]
  /\ UNCHANGED <<list, step, message, crashes, history>>

(* A crash, or the second signal, which exits; the replica starts anew.     *)
Crash(r) ==
  /\ crashes < MaxCrashes /\ step[r] # "done"
  /\ crashes' = crashes + 1
  /\ lost' = lost \union ({message[r]} \ {None})
  /\ step' = [step EXCEPT ![r] = "check"]
  /\ message' = [message EXCEPT ![r] = None]
  /\ cancelled' = [cancelled EXCEPT ![r] = FALSE]
  /\ UNCHANGED <<list, handled, outcome>>

--------------------------------------------------------------------------------
(* consumeMessage and the goroutine that calls it *)

Go(r, from, to) ==
  /\ step[r] = from
  /\ step' = [step EXCEPT ![r] = to]
  /\ UNCHANGED <<pushed, cancelled, crashes>>

\* Mutant of Check: the context is not looked at.
CheckNothing(r) == Go(r, "check", "pop") /\ UNCHANGED <<popped, message, history>>
(* The only way out of the loop: the goroutine compares the error with      *)
(* context.Canceled itself, and is done.                                    *)
Check(r) ==
  /\ Go(r, "check", IF cancelled[r] THEN "done" ELSE "pop")
  /\ UNCHANGED <<popped, message, history>>

BLPop(r) ==
  /\ popped < pushed
  /\ Go(r, "pop", "invoke")
  /\ popped' = popped + 1
  /\ message' = [message EXCEPT ![r] = popped + 1]
  /\ UNCHANGED history

(* The pop fails, the message being gone or not.  The error is wrapped, so  *)
(* consumeMessage is called again also when the context was cancelled.      *)
PopFails(r) ==
  /\ Go(r, "pop", "check")
  /\ \/ UNCHANGED <<popped, lost>>
     \/ popped < pushed /\ popped' = popped + 1 /\ lost' = lost \union {popped + 1}
  /\ UNCHANGED <<message, handled, outcome>>

(* HandleHTTPRequest returns its verdict (see Invocation).                  *)
Invoke(r) ==
  /\ Go(r, "invoke", "body") \/ Go(r, "invoke", "error")
  /\ handled' = handled \union {message[r]}
  /\ UNCHANGED <<popped, message, outcome, lost>>

\* Mutant of ReadBody: the loop goes on without errorHandler.
ReadBodyOrContinue(r) ==
  /\ \/ Go(r, "body", "response") /\ UNCHANGED message
     \/ Go(r, "body", "check") /\ message' = [message EXCEPT ![r] = None]
  /\ UNCHANGED <<popped, history>>
ReadBody(r) ==
  /\ Go(r, "body", "response") \/ Go(r, "body", "error")
  /\ UNCHANGED <<popped, message, history>>

(* RPush, if there is a topic for it.                                       *)
RPush(m, what, topicSet, isCancelled) ==
  IF ~topicSet THEN UNCHANGED <<outcome, lost>>
  ELSE \/ ~isCancelled /\ outcome' = [outcome EXCEPT ![m] = what] /\ UNCHANGED lost
       \/ lost' = lost \union {m} /\ UNCHANGED outcome

(* Whatever becomes of the push, the loop goes on to the next message.      *)
Finish(r, from) ==
  /\ Go(r, from, "check")
  /\ message' = [message EXCEPT ![r] = None]
  /\ UNCHANGED <<popped, handled>>

\* Mutant of errorHandler: a message that failed is put back.
errorHandlerPutsBack(r) ==
  /\ Go(r, "error", "invoke")
  /\ RPush(message[r], "error", ErrorTopicSet, cancelled[r])
  /\ UNCHANGED <<popped, handled, message>>
errorHandler(r) ==
  Finish(r, "error") /\ RPush(message[r], "error", ErrorTopicSet, cancelled[r])
responseHandler(r) ==
  Finish(r, "response") /\ RPush(message[r], "response", ResponseTopicSet, cancelled[r])

Handle(r) == Invoke(r) \/ ReadBody(r) \/ errorHandler(r) \/ responseHandler(r)

Next ==
  \/ Push
  \/ \E r \in Replicas : Signal(r) \/ Crash(r) \/ Check(r) \/ BLPop(r) \/ PopFails(r) \/ Handle(r)

Spec == Init /\ [][Next]_vars

(* The goroutines run, and the pop of a cancelled context returns: the      *)
(* client closes its connection.                                            *)
FairSpec ==
  /\ Spec
  /\ \A r \in Replicas :
       /\ WF_vars(Check(r) \/ Handle(r))
       /\ WF_vars(cancelled[r] /\ (BLPop(r) \/ PopFails(r)))

--------------------------------------------------------------------------------
(* Properties *)

Promise == INSTANCE AtMostOnce WITH put <- pushed, taken <- popped

(* The connector keeps the promise of AtMostOnce: replicas never share a    *)
(* message, none is handled again after an error, a crash or a restart of   *)
(* consumeMessage, and none has two outcomes.                               *)
RefinesAtMostOnce == Promise!Spec

(* What is popped and no more in hand has had its outcome pushed, unless    *)
(* the pop or the push failed or the replica crashed: no path through       *)
(* consumeMessage forgets a message, and what is lost was lost in a call.   *)
LostOnlyInCalls ==
  ResponseTopicSet /\ ErrorTopicSet =>
    \A m \in 1 .. popped :
      \/ \E r \in Replicas : message[r] = m
      \/ outcome[m] # "none" <=> m \notin lost

(* A signal ends the process, also from within a pop, whose wrapped error   *)
(* sends the goroutine through consumeMessage once more; a restart on an    *)
(* error of Redis must not turn it into an endless loop.                    *)
SignalEndsReplica == \A r \in Replicas : cancelled[r] ~> (step[r] = "done" \/ ~cancelled[r])

================================================================================
