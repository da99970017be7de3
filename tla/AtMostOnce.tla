------------------------------- MODULE AtMostOnce -------------------------------
(***************************************************************************)
(* What a connector promises that takes its messages away from the source  *)
(* before it handles them: they are taken in the order in which they were  *)
(* put, each is handled at most once, and only what has been handled has   *)
(* an outcome, a response or an error but not both.  A message may be lost *)
(* between any two of these steps.                                         *)
(***************************************************************************)
EXTENDS Integers

CONSTANT Messages  \* 1 .. some number, in the order in which they are put

VARIABLES
  put,      \* how many messages have been put
  taken,    \* how many of them have been taken
  handled,  \* the messages for which the function has been called
  outcome   \* outcome[m]: "none", "response" or "error"

vars == <<put, taken, handled, outcome>>

Init ==
  /\ put = 0 /\ taken = 0
  /\ handled = {}
  /\ outcome = [m \in Messages |-> "none"]

Put == put + 1 \in Messages /\ put' = put + 1 /\ UNCHANGED <<taken, handled, outcome>>

Take == taken < put /\ taken' = taken + 1 /\ UNCHANGED <<put, handled, outcome>>

Handle(m) ==
  /\ m <= taken /\ m \notin handled
  /\ handled' = handled \union {m}
  /\ UNCHANGED <<put, taken, outcome>>

Conclude(m) ==
  /\ m \in handled /\ outcome[m] = "none"
  /\ \E o \in {"response", "error"} : outcome' = [outcome EXCEPT ![m] = o]
  /\ UNCHANGED <<put, taken, handled>>

Next == Put \/ Take \/ \E m \in Messages : Handle(m) \/ Conclude(m)

Spec == Init /\ [][Next]_vars

================================================================================
