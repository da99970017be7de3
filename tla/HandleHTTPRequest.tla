--------------------------- MODULE HandleHTTPRequest ---------------------------
(***************************************************************************)
(* The retry loop of common.HandleHTTPRequest (common/util.go), run by     *)
(* several goroutines at once: each posts its message to the endpoint up   *)
(* to MaxRetries + 1 times and returns the response of a successful        *)
(* attempt, or an error that describes the last one.                       *)
(*                                                                         *)
(* A response is abstracted to its status code; Nil is the nil response of *)
(* an attempt that failed in the transport.                                *)
(***************************************************************************)
EXTENDS Integers, Sequences

CONSTANTS
  Calls,       \* the calls of HandleHTTPRequest, of one connector or several
  MaxRetries,  \* MaxRetries[c]: ConnectorMetadata.MaxRetries of the connector
               \* that makes call c: any parsed integer, even a negative one
  Statuses     \* the status codes the endpoints may answer with

ASSUME RetriesAssumption == MaxRetries \in [Calls -> Int]
ASSUME StatusesAssumption == Statuses \subseteq 1..999

VARIABLES
  endpointValid,  \* whether http.NewRequest accepts the data.HTTPEndpoint of a call
  pc,             \* where each call is
  attempt,        \* the loop variable
  resp,           \* the local variable resp
  readable,       \* whether resp.Body can still be read
  verdict,        \* what the call returned, "pending" before it returns
  report,         \* which error it returned
  answers         \* history: what each attempt ended with

vars ==
  <<endpointValid, pc, attempt, resp, readable, verdict, report, answers>>

Nil == 0
Responses == Statuses \union {Nil}
Reports == {"none", "badRequest", "noResponse", "failureStatus", "unreadable"}

TypeOK ==
  /\ endpointValid \in [Calls -> BOOLEAN]
  /\ pc \in [Calls -> {"loop", "posted", "returned"}]
  /\ attempt \in [Calls -> Nat]
  /\ resp \in [Calls -> Responses]
  /\ readable \in [Calls -> BOOLEAN]
  /\ verdict \in [Calls -> {"pending", "response", "error"}]
  /\ report \in [Calls -> Reports]
  /\ answers \in [Calls -> Seq(Responses)]

Init ==
  /\ endpointValid \in [Calls -> BOOLEAN]
  /\ pc = [c \in Calls |-> "loop"]
  /\ attempt = [c \in Calls |-> 0]
  /\ resp = [c \in Calls |-> Nil]
  /\ readable = [c \in Calls |-> FALSE]
  /\ verdict = [c \in Calls |-> "pending"]
  /\ report = [c \in Calls |-> "none"]
  /\ answers = [c \in Calls |-> <<>>]

--------------------------------------------------------------------------------
(* The two tests the code makes on a status.  They differ on 300: the loop  *)
(* retries it, the test after the loop lets it through.                     *)

\* Mutant of IsSuccess: off by one, 200 is retried.
IsSuccessAbove200(s) == s > 200 /\ s < 300
IsSuccess(s) == s >= 200 /\ s < 300

IsFailure(s) == s = Nil \/ s < 200 \/ s > 300

\* Mutant of AttemptsLeft: the loop runs once more than allowed.
AttemptsLeftPlusOne(c) == attempt[c] <= MaxRetries[c] + 1
AttemptsLeft(c) == attempt[c] <= MaxRetries[c]

Return(c, v, why) ==
  /\ pc' = [pc EXCEPT ![c] = "returned"]
  /\ verdict' = [verdict EXCEPT ![c] = v]
  /\ report' = [report EXCEPT ![c] = why]

--------------------------------------------------------------------------------
(* http.NewRequest refuses the endpoint: the call returns at once. *)
RefuseRequest(c) ==
  /\ pc[c] = "loop"
  /\ AttemptsLeft(c)
  /\ ~endpointValid[c]
  /\ Return(c, "error", "badRequest")
  /\ UNCHANGED <<endpointValid, attempt, resp, readable, answers>>

(* The request is built, given its headers, and sent. *)
Post(c) ==
  /\ pc[c] = "loop"
  /\ AttemptsLeft(c)
  /\ endpointValid[c]
  /\ pc' = [pc EXCEPT ![c] = "posted"]
  /\ UNCHANGED <<endpointValid, attempt, resp, readable, verdict, report, answers>>

(* The client's Do comes back with response r, whose body may be read or    *)
(* is closed already; what the attempt ended with goes on record.           *)
DoReturns(c, r, canRead) ==
  /\ pc[c] = "posted"
  /\ resp' = [resp EXCEPT ![c] = r]
  /\ readable' = [readable EXCEPT ![c] = canRead]
  /\ answers' = [answers EXCEPT ![c] = Append(@, r)]
  /\ UNCHANGED endpointValid

Succeed(c, s) ==
  /\ IsSuccess(s)
  /\ DoReturns(c, s, TRUE)
  /\ Return(c, "response", "none")
  /\ UNCHANGED attempt

TryAgain(c) ==
  /\ attempt' = [attempt EXCEPT ![c] = @ + 1]
  /\ pc' = [pc EXCEPT ![c] = "loop"]
  /\ UNCHANGED <<verdict, report>>

FailWithStatus(c, s) ==
  /\ ~IsSuccess(s)
  /\ DoReturns(c, s, TRUE)
  /\ TryAgain(c)

\* Mutant of FailInTransport: the response of the attempt before survives.
FailInTransportKeepsResp(c) ==
  /\ pc[c] = "posted"
  /\ answers' = [answers EXCEPT ![c] = Append(@, Nil)]
  /\ TryAgain(c)
  /\ UNCHANGED <<endpointValid, resp, readable>>
(* Do returns an error and no response. *)
FailInTransport(c) ==
  /\ DoReturns(c, Nil, FALSE)
  /\ TryAgain(c)

(* Do gives up on a chain of redirects: it returns an error together with   *)
(* the last response, whose body it has closed.                             *)
FailRedirecting(c, s) ==
  /\ s \in {301, 302, 303, 307, 308}
  /\ DoReturns(c, s, FALSE)
  /\ TryAgain(c)

(* The attempts are used up; the last response decides. *)
ReturnLast(c) ==
  /\ pc[c] = "loop"
  /\ ~AttemptsLeft(c)
  /\ ~IsFailure(resp[c])
  /\ Return(c, "response", "none")
  /\ UNCHANGED <<endpointValid, attempt, resp, readable, answers>>

(* UpdateResponseDetails describes the last response, if its body is read.  *)
ReturnError(c) ==
  /\ pc[c] = "loop"
  /\ ~AttemptsLeft(c)
  /\ IsFailure(resp[c])
  /\ \/ resp[c] = Nil /\ Return(c, "error", "noResponse")
     \/ resp[c] # Nil /\ readable[c] /\ Return(c, "error", "failureStatus")
     \/ resp[c] # Nil /\ Return(c, "error", "unreadable")
  /\ UNCHANGED <<endpointValid, attempt, resp, readable, answers>>

Answer(c) ==
  \/ FailInTransport(c)
  \/ \E s \in Statuses : Succeed(c, s) \/ FailWithStatus(c, s) \/ FailRedirecting(c, s)

Step(c) == RefuseRequest(c) \/ Post(c) \/ Answer(c) \/ ReturnLast(c) \/ ReturnError(c)

Next == \E c \in Calls : Step(c)

Spec == Init /\ [][Next]_vars

--------------------------------------------------------------------------------
(* Safety *)

(* The statuses that mean the endpoint took the message, and those that a  *)
(* returned response may have.                                              *)
Accepted == 200 .. 299
Returned == 200 .. 300

(* The attempts the loop is meant to make when all of them fail. *)
AttemptLimit == [c \in Calls |-> IF MaxRetries[c] >= 0 THEN MaxRetries[c] + 1 ELSE 0]

LastAnswer(c) == IF answers[c] = <<>> THEN Nil ELSE answers[c][Len(answers[c])]

(* A message the endpoint has accepted (2xx) is never posted again by the   *)
(* same call: the accepted attempt is its last and the call has returned    *)
(* that answer (util.go: "Success, quit retrying").                         *)
NoPostAfterSuccess ==
  \A c \in Calls : \A i \in 1 .. Len(answers[c]) :
    answers[c][i] \in Accepted =>
      i = Len(answers[c]) /\ verdict[c] = "response" /\ resp[c] = answers[c][i]

(* An error is never returned early and never hides a success: if the       *)
(* request could be built, every permitted attempt was made and none was    *)
(* accepted by the endpoint.                                                *)
ErrorOnlyWhenExhausted ==
  \A c \in Calls :
    verdict[c] = "error" /\ endpointValid[c] =>
      /\ Len(answers[c]) = AttemptLimit[c]
      /\ \A i \in 1 .. Len(answers[c]) : answers[c][i] \notin Accepted

(* The connector acts on the outcome of the last attempt, not on one left   *)
(* over from an earlier attempt of the loop: a response is the last answer, *)
(* with a body that can be read, and is a success or the 300 which the loop *)
(* retries but the test after it accepts; an error says "empty response"    *)
(* only if the last attempt had none, and quotes the status of no other.    *)
OutcomeIsOfLastAttempt ==
  \A c \in Calls :
    /\ verdict[c] = "response" =>
         /\ answers[c] # <<>>
         /\ resp[c] = LastAnswer(c)
         /\ resp[c] \in Returned
         /\ readable[c]
    /\ report[c] = "noResponse" => LastAnswer(c) = Nil
    /\ report[c] = "failureStatus" =>
         resp[c] = LastAnswer(c) /\ resp[c] \notin Returned \union {Nil}

--------------------------------------------------------------------------------
(* Refinement *)

Posts == [c \in Calls |-> Len(answers[c]) + IF pc[c] = "posted" THEN 1 ELSE 0]

Abstract == INSTANCE Invocation WITH Budget <- AttemptLimit, posts <- Posts

(* The loop keeps the promise the connectors rely on: at most MaxRetries+1  *)
(* POSTs, one verdict, none without a POST if it is a response, and no POST *)
(* after the verdict.                                                       *)
RefinesInvocation == Abstract!Spec

================================================================================
