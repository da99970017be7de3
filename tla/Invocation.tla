------------------------------ MODULE Invocation ------------------------------
(***************************************************************************)
(* What every connector relies on when it calls common.HandleHTTPRequest:  *)
(* the call posts the message a bounded number of times, and then returns  *)
(* exactly one verdict, a response or an error.  A response is returned    *)
(* only after a POST, and nothing is posted once the verdict is known.     *)
(* Module HandleHTTPRequest is the retry loop, shown to implement this.    *)
(***************************************************************************)
EXTENDS Integers

CONSTANTS
  Calls,    \* the calls of HandleHTTPRequest, one per handled message
  Budget    \* Budget[c]: how many times call c may post its message, a natural

VARIABLES
  posts,    \* posts[c]: how often call c has posted its message so far
  verdict   \* verdict[c]: what call c has returned, or "pending"

vars == <<posts, verdict>>

Verdicts == {"pending", "response", "error"}

Init ==
  /\ posts = [c \in Calls |-> 0]
  /\ verdict = [c \in Calls |-> "pending"]

Post(c) ==
  /\ verdict[c] = "pending"
  /\ posts[c] < Budget[c]
  /\ posts' = [posts EXCEPT ![c] = @ + 1]
  /\ UNCHANGED verdict

Respond(c) ==
  /\ verdict[c] = "pending"
  /\ posts[c] > 0
  /\ verdict' = [verdict EXCEPT ![c] = "response"]
  /\ UNCHANGED posts

Fail(c) ==
  /\ verdict[c] = "pending"
  /\ verdict' = [verdict EXCEPT ![c] = "error"]
  /\ UNCHANGED posts

Next == \E c \in Calls : Post(c) \/ Respond(c) \/ Fail(c)

Spec == Init /\ [][Next]_vars

===============================================================================
