------------------------ MODULE HandleHTTPRequest_proofs ------------------------
(***************************************************************************)
(* Proofs that the retry loop keeps its safety properties and implements   *)
(* Invocation for every set of calls, every retry limit (negative ones     *)
(* too) and every set of statuses.                                         *)
(***************************************************************************)
EXTENDS HandleHTTPRequest, TLAPS

(* What holds of one call at every moment: how many answers it has got, and *)
(* that the local variable resp is the last of them.                        *)

Counted(c) ==
  /\ verdict[c] = "pending" <=> pc[c] # "returned"
  /\ pc[c] = "posted" => AttemptsLeft(c) /\ endpointValid[c]
  /\ pc[c] # "returned" => Len(answers[c]) = attempt[c] /\ report[c] = "none"
  /\ attempt[c] <= AttemptLimit[c]
  /\ Len(answers[c]) <= AttemptLimit[c]

LastKept(c) ==
  /\ resp[c] = LastAnswer(c)
  /\ verdict[c] # "response" =>
       \A i \in 1 .. Len(answers[c]) : answers[c][i] \notin Accepted
  /\ \A i \in 1 .. Len(answers[c]) - 1 : answers[c][i] \notin Accepted
  /\ resp[c] \in Returned => readable[c]

Outcome(c) ==
  /\ verdict[c] = "response" =>
       answers[c] # <<>> /\ resp[c] \in Returned /\ report[c] = "none"
  /\ verdict[c] = "error" /\ endpointValid[c] => Len(answers[c]) = AttemptLimit[c]
  /\ report[c] = "noResponse" => resp[c] = Nil
  /\ report[c] = "failureStatus" => resp[c] \notin Returned \union {Nil}

CallInv(c) == Counted(c) /\ LastKept(c) /\ Outcome(c)

IInv == TypeOK /\ \A c \in Calls : CallInv(c)

--------------------------------------------------------------------------------
(* Type correctness *)

LEMMA InitTyped == Init => TypeOK
  BY DEF Init, TypeOK, Responses, Reports

(* One lemma for the steps that end an attempt, one for those that return. *)

LEMMA DoReturnsTyped ==
  ASSUME NEW c \in Calls, NEW r \in Responses, NEW canRead \in BOOLEAN,
         TypeOK, DoReturns(c, r, canRead)
  PROVE  /\ endpointValid' \in [Calls -> BOOLEAN]
         /\ resp' \in [Calls -> Responses]
         /\ readable' \in [Calls -> BOOLEAN]
         /\ answers' \in [Calls -> Seq(Responses)]
  BY DEF TypeOK, DoReturns

LEMMA ReturnTyped ==
  ASSUME NEW c \in Calls, NEW v \in {"response", "error"}, NEW why \in Reports,
         TypeOK, Return(c, v, why)
  PROVE  /\ pc' \in [Calls -> {"loop", "posted", "returned"}]
         /\ verdict' \in [Calls -> {"pending", "response", "error"}]
         /\ report' \in [Calls -> Reports]
  BY DEF TypeOK, Return

LEMMA TryAgainTyped ==
  ASSUME NEW c \in Calls, TypeOK, TryAgain(c)
  PROVE  /\ attempt' \in [Calls -> Nat]
         /\ pc' \in [Calls -> {"loop", "posted", "returned"}]
         /\ verdict' = verdict
         /\ report' = report
  BY DEF TypeOK, TryAgain

LEMMA NextTyped == TypeOK /\ [Next]_vars => TypeOK'
<1> SUFFICES ASSUME TypeOK, [Next]_vars PROVE TypeOK'
  OBVIOUS
<1> Statuses \subseteq Responses /\ Nil \in Responses
  BY DEF Responses
<1>1. ASSUME NEW c \in Calls, RefuseRequest(c) PROVE TypeOK'
  <2>1. Return(c, "error", "badRequest") /\ "badRequest" \in Reports
    BY <1>1 DEF RefuseRequest, Reports
  <2> QED BY <1>1, <2>1, ReturnTyped DEF RefuseRequest, TypeOK
<1>2. ASSUME NEW c \in Calls, Post(c) PROVE TypeOK'
  BY <1>2 DEF Post, TypeOK
<1>3. ASSUME NEW c \in Calls, FailInTransport(c) PROVE TypeOK'
  <2>1. DoReturns(c, Nil, FALSE) /\ TryAgain(c)
    BY <1>3 DEF FailInTransport
  <2> QED BY <2>1, DoReturnsTyped, TryAgainTyped DEF TypeOK
<1>4. ASSUME NEW c \in Calls, NEW s \in Statuses, Succeed(c, s) PROVE TypeOK'
  <2>1. DoReturns(c, s, TRUE) /\ Return(c, "response", "none") /\ "none" \in Reports
    BY <1>4 DEF Succeed, Reports
  <2> QED BY <1>4, <2>1, DoReturnsTyped, ReturnTyped DEF Succeed, TypeOK
<1>5. ASSUME NEW c \in Calls, NEW s \in Statuses, FailWithStatus(c, s) PROVE TypeOK'
  <2>1. DoReturns(c, s, TRUE) /\ TryAgain(c)
    BY <1>5 DEF FailWithStatus
  <2> QED BY <2>1, DoReturnsTyped, TryAgainTyped DEF TypeOK
<1>6. ASSUME NEW c \in Calls, NEW s \in Statuses, FailRedirecting(c, s) PROVE TypeOK'
  <2>1. DoReturns(c, s, FALSE) /\ TryAgain(c)
    BY <1>6 DEF FailRedirecting
  <2> QED BY <2>1, DoReturnsTyped, TryAgainTyped DEF TypeOK
<1>7. ASSUME NEW c \in Calls, ReturnLast(c) PROVE TypeOK'
  <2>1. Return(c, "response", "none") /\ "none" \in Reports
    BY <1>7 DEF ReturnLast, Reports
  <2> QED BY <1>7, <2>1, ReturnTyped DEF ReturnLast, TypeOK
<1>8. ASSUME NEW c \in Calls, ReturnError(c) PROVE TypeOK'
  <2>1. PICK why \in Reports : Return(c, "error", why)
    BY <1>8 DEF ReturnError, Reports
  <2> QED BY <1>8, <2>1, ReturnTyped DEF ReturnError, TypeOK
<1>9. CASE UNCHANGED vars
  BY <1>9 DEF vars, TypeOK
<1> QED
  BY <1>1, <1>2, <1>3, <1>4, <1>5, <1>6, <1>7, <1>8, <1>9 DEF Next, Step, Answer

(* Every variable of the loop keeps its type. *)
THEOREM TypeCorrect == Spec => []TypeOK
<1>1. QED
  BY InitTyped, NextTyped, PTL DEF Spec

--------------------------------------------------------------------------------
(* A step of one call leaves the others alone *)

Untouched(d) ==
  /\ endpointValid'[d] = endpointValid[d]
  /\ pc'[d] = pc[d]
  /\ attempt'[d] = attempt[d]
  /\ resp'[d] = resp[d]
  /\ readable'[d] = readable[d]
  /\ verdict'[d] = verdict[d]
  /\ report'[d] = report[d]
  /\ answers'[d] = answers[d]

LEMMA UntouchedKeeps ==
  ASSUME NEW d \in Calls, CallInv(d), Untouched(d)
  PROVE  CallInv(d)'
  BY DEF CallInv, Counted, LastKept, Outcome, Untouched, AttemptsLeft, LastAnswer

LEMMA StepTouchesOne ==
  ASSUME NEW c \in Calls, NEW d \in Calls \ {c}, TypeOK, Step(c)
  PROVE  Untouched(d)
<1> USE DEF TypeOK, Untouched
<1>1. CASE RefuseRequest(c)
  BY <1>1 DEF RefuseRequest, Return
<1>2. CASE Post(c)
  BY <1>2 DEF Post
<1>3. CASE FailInTransport(c)
  BY <1>3 DEF FailInTransport, DoReturns, TryAgain
<1>4. ASSUME NEW s \in Statuses, Succeed(c, s) PROVE Untouched(d)
  BY <1>4 DEF Succeed, DoReturns, Return
<1>5. ASSUME NEW s \in Statuses, FailWithStatus(c, s) PROVE Untouched(d)
  BY <1>5 DEF FailWithStatus, DoReturns, TryAgain
<1>6. ASSUME NEW s \in Statuses, FailRedirecting(c, s) PROVE Untouched(d)
  BY <1>6 DEF FailRedirecting, DoReturns, TryAgain
<1>7. CASE ReturnLast(c)
  BY <1>7 DEF ReturnLast, Return
<1>8. CASE ReturnError(c)
  BY <1>8 DEF ReturnError, Return
<1> QED
  BY <1>1, <1>2, <1>3, <1>4, <1>5, <1>6, <1>7, <1>8 DEF Step, Answer

--------------------------------------------------------------------------------
(* The invariant *)

(* What the end of an attempt does to the history and to resp. *)
LEMMA AnswerAppended ==
  ASSUME NEW c \in Calls, NEW r \in Responses, NEW canRead \in BOOLEAN,
         TypeOK, DoReturns(c, r, canRead)
  PROVE  /\ answers'[c] \in Seq(Responses) /\ answers'[c] # <<>>
         /\ Len(answers'[c]) = Len(answers[c]) + 1
         /\ answers'[c][Len(answers'[c])] = r
         /\ \A i \in 1 .. Len(answers[c]) : answers'[c][i] = answers[c][i]
         /\ LastAnswer(c)' = r /\ resp'[c] = r /\ readable'[c] = canRead
         /\ endpointValid'[c] = endpointValid[c]
<1>1. answers'[c] = Append(answers[c], r) /\ answers[c] \in Seq(Responses)
  BY DEF DoReturns, TypeOK
<1>2. resp'[c] = r /\ readable'[c] = canRead /\ endpointValid'[c] = endpointValid[c]
  BY DEF DoReturns, TypeOK
<1> QED
  BY <1>1, <1>2 DEF LastAnswer

(* While the loop may go on, the attempt in hand is within the limit. *)
LEMMA WithinLimit ==
  ASSUME NEW c \in Calls, TypeOK, AttemptsLeft(c)
  PROVE  attempt[c] + 1 <= AttemptLimit[c] /\ AttemptLimit[c] \in Nat
  BY RetriesAssumption DEF TypeOK, AttemptsLeft, AttemptLimit

(* When it may not, they are used up. *)
LEMMA AtLimit ==
  ASSUME NEW c \in Calls, TypeOK, ~AttemptsLeft(c), attempt[c] <= AttemptLimit[c]
  PROVE  attempt[c] = AttemptLimit[c]
  BY RetriesAssumption DEF TypeOK, AttemptsLeft, AttemptLimit

(* The test after the loop, on the value resp holds: 300 is no failure. *)
LEMMA FailureRange ==
  ASSUME NEW c \in Calls, TypeOK
  PROVE  IsFailure(resp[c]) <=> resp[c] \notin Returned
<1>1. resp[c] \in Responses
  BY DEF TypeOK
<1>2. \A s \in Responses : s \in Int
  BY StatusesAssumption DEF Responses, Nil
<1> QED
  BY <1>1, <1>2 DEF IsFailure, Nil, Returned

(* The statuses the two tests of the code tell apart. *)
LEMMA StatusRanges ==
  /\ \A s \in Statuses : IsSuccess(s) <=> s \in Accepted
  /\ \A s \in {301, 302, 303, 307, 308} : s \notin Returned
  /\ Accepted \subseteq Returned
  /\ Nil \notin Returned
<1>1. \A s \in Statuses : s \in Int
  BY StatusesAssumption
<1>2. \A s \in Statuses : IsSuccess(s) <=> s \in Accepted
  BY <1>1 DEF IsSuccess, Accepted
<1>3. \A s \in {301, 302, 303, 307, 308} : s \notin Returned
  BY DEF Returned
<1>4. Accepted \subseteq Returned /\ Nil \notin Returned
  BY DEF Accepted, Returned, Nil
<1> QED
  BY <1>2, <1>3, <1>4

LEMMA HistoryLength ==
  ASSUME NEW c \in Calls, TypeOK
  PROVE  Len(answers[c]) \in Nat /\ attempt[c] \in Nat
<1>1. answers[c] \in Seq(Responses)
  BY DEF TypeOK
<1> QED
  BY <1>1 DEF TypeOK

LEMMA InitInv == Init => IInv
<1> SUFFICES ASSUME Init PROVE IInv
  OBVIOUS
<1>1. ASSUME NEW c \in Calls PROVE CallInv(c)
  <2>1. AttemptLimit[c] >= 0
    BY RetriesAssumption DEF AttemptLimit
  <2> QED
    BY <2>1, StatusRanges DEF Init, CallInv, Counted, LastKept, Outcome, LastAnswer
<1> QED
  BY <1>1, InitTyped DEF IInv

(* An attempt that fails without an acceptable answer keeps the invariant.  *)
LEMMA FailedAttempt ==
  ASSUME NEW c \in Calls, NEW r \in Responses, NEW canRead \in BOOLEAN,
         TypeOK, CallInv(c), DoReturns(c, r, canRead), TryAgain(c),
         r \notin Accepted, r \in Returned => canRead
  PROVE  CallInv(c)'
<1> Len(answers[c]) \in Nat /\ attempt[c] \in Nat
  BY HistoryLength
<1>1. pc[c] = "posted" /\ AttemptsLeft(c) /\ Len(answers[c]) = attempt[c]
      /\ verdict[c] = "pending" /\ report[c] = "none"
  BY DEF DoReturns, CallInv, Counted
<1>2. pc'[c] = "loop" /\ attempt'[c] = attempt[c] + 1
      /\ verdict'[c] = "pending" /\ report'[c] = "none"
  BY <1>1 DEF TryAgain, TypeOK
<1>3. Counted(c)'
  <2>1. Len(answers'[c]) = attempt'[c]
    BY <1>1, <1>2, AnswerAppended
  <2>2. attempt'[c] <= AttemptLimit[c]
    BY <1>1, <1>2, WithinLimit
  <2> QED
    BY <1>2, <2>1, <2>2 DEF Counted
<1>4. LastKept(c)'
  <2>1. \A i \in 1 .. Len(answers[c]) : answers[c][i] \notin Accepted
    BY <1>1 DEF CallInv, LastKept
  <2>2. /\ Len(answers'[c]) = Len(answers[c]) + 1
        /\ answers'[c][Len(answers'[c])] = r
        /\ \A i \in 1 .. Len(answers[c]) : answers'[c][i] = answers[c][i]
        /\ LastAnswer(c)' = r /\ resp'[c] = r /\ readable'[c] = canRead
    BY AnswerAppended
  <2>3. \A i \in 1 .. Len(answers'[c]) : answers'[c][i] \notin Accepted
    <3> TAKE i \in 1 .. Len(answers'[c])
    <3>1. CASE i = Len(answers'[c])
      BY <2>2, <3>1
    <3>2. CASE i \in 1 .. Len(answers[c])
      BY <2>1, <2>2, <3>2
    <3> QED
      BY <2>2, <3>1, <3>2
  <2>4. \A i \in 1 .. Len(answers'[c]) - 1 : answers'[c][i] \notin Accepted
    BY <2>2, <2>3
  <2> QED
    BY <2>2, <2>3, <2>4 DEF LastKept
<1>5. Outcome(c)'
  BY <1>2 DEF Outcome
<1> QED
  BY <1>3, <1>4, <1>5 DEF CallInv

(* A call that returns without a further answer. *)
LEMMA ReturnedFromLoop ==
  ASSUME NEW c \in Calls, NEW v \in {"response", "error"}, NEW why \in Reports,
         TypeOK, CallInv(c), pc[c] = "loop", Return(c, v, why),
         UNCHANGED <<endpointValid, attempt, resp, readable, answers>>
  PROVE  /\ Counted(c)' /\ LastKept(c)'
         /\ verdict'[c] = v /\ report'[c] = why
         /\ Len(answers[c]) = attempt[c] /\ attempt[c] <= AttemptLimit[c]
<1>1. pc'[c] = "returned" /\ verdict'[c] = v /\ report'[c] = why
  BY DEF Return, TypeOK
<1>2. verdict[c] = "pending"
  BY DEF CallInv, Counted
<1> QED
  BY <1>1, <1>2 DEF CallInv, Counted, LastKept, AttemptsLeft, LastAnswer

LEMMA StepKeepsCall ==
  ASSUME NEW c \in Calls, TypeOK, CallInv(c), Step(c)
  PROVE  CallInv(c)'
<1> Statuses \subseteq Responses /\ Nil \in Responses
  BY DEF Responses
<1> Len(answers[c]) \in Nat /\ attempt[c] \in Nat
  BY HistoryLength
<1>1. CASE RefuseRequest(c)
  <2>1. "badRequest" \in Reports
    BY DEF Reports
  <2> QED
    BY <1>1, <2>1, ReturnedFromLoop DEF RefuseRequest, CallInv, Outcome
<1>2. CASE Post(c)
  <2>1. pc'[c] = "posted"
    BY <1>2 DEF Post, TypeOK
  <2> QED
    BY <1>2, <2>1 DEF Post, CallInv, Counted, LastKept, Outcome, AttemptsLeft, LastAnswer
<1>3. CASE FailInTransport(c)
  <2>1. Nil \notin Accepted /\ Nil \notin Returned
    BY StatusRanges
  <2> QED
    BY <1>3, <2>1, FailedAttempt DEF FailInTransport
<1>4. ASSUME NEW s \in Statuses, Succeed(c, s) PROVE CallInv(c)'
  <2>0. s \in Accepted
    BY <1>4, StatusRanges DEF Succeed
  <2>1. /\ DoReturns(c, s, TRUE) /\ Return(c, "response", "none")
        /\ attempt' = attempt /\ s \in Accepted
    BY <1>4, <2>0 DEF Succeed
  <2>2. pc[c] = "posted" /\ AttemptsLeft(c) /\ Len(answers[c]) = attempt[c]
        /\ verdict[c] = "pending"
    BY <2>1 DEF DoReturns, CallInv, Counted
  <2>3. pc'[c] = "returned" /\ verdict'[c] = "response" /\ report'[c] = "none"
    BY <2>1 DEF Return, TypeOK
  <2>4. Counted(c)'
    <3>1. Len(answers'[c]) = attempt[c] + 1
      BY <2>1, <2>2, AnswerAppended
    <3>2. attempt[c] + 1 <= AttemptLimit[c] /\ AttemptLimit[c] \in Nat
      BY <2>2, WithinLimit
    <3>3. attempt'[c] <= AttemptLimit[c]
      BY <2>1, <3>2
    <3> QED
      BY <2>3, <3>1, <3>2, <3>3 DEF Counted
  <2>5. LastKept(c)'
    <3>1. \A i \in 1 .. Len(answers[c]) : answers[c][i] \notin Accepted
      BY <2>2 DEF CallInv, LastKept
    <3>2. /\ Len(answers'[c]) = Len(answers[c]) + 1
          /\ \A i \in 1 .. Len(answers[c]) : answers'[c][i] = answers[c][i]
          /\ LastAnswer(c)' = s /\ resp'[c] = s /\ readable'[c] = TRUE
      BY <2>1, AnswerAppended
    <3>3. \A i \in 1 .. Len(answers'[c]) - 1 : answers'[c][i] \notin Accepted
      BY <3>1, <3>2
    <3> QED
      BY <2>3, <3>2, <3>3 DEF LastKept
  <2>6. Outcome(c)'
    <3>1. s \in Returned
      BY <2>1, StatusRanges
    <3>2. answers'[c] # <<>> /\ resp'[c] = s
      BY <2>1, AnswerAppended
    <3> QED
      BY <2>3, <3>1, <3>2 DEF Outcome
  <2> QED
    BY <2>4, <2>5, <2>6 DEF CallInv
<1>5. ASSUME NEW s \in Statuses, FailWithStatus(c, s) PROVE CallInv(c)'
  <2>1. s \notin Accepted
    BY <1>5, StatusRanges DEF FailWithStatus
  <2> QED
    BY <1>5, <2>1, FailedAttempt DEF FailWithStatus
<1>6. ASSUME NEW s \in Statuses, FailRedirecting(c, s) PROVE CallInv(c)'
  <2>1. s \notin Accepted /\ s \notin Returned
    BY <1>6, StatusRanges DEF FailRedirecting
  <2> QED
    BY <1>6, <2>1, FailedAttempt DEF FailRedirecting
<1>7. CASE ReturnLast(c)
  <2>1. resp[c] \in Returned /\ resp'[c] = resp[c] /\ answers'[c] = answers[c]
    BY <1>7, FailureRange DEF ReturnLast
  <2>2. answers[c] # <<>>
    BY <2>1, StatusRanges DEF CallInv, LastKept, LastAnswer
  <2>3. "none" \in Reports
    BY DEF Reports
  <2> QED
    BY <1>7, <2>1, <2>2, <2>3, ReturnedFromLoop DEF ReturnLast, CallInv, Outcome
<1>8. CASE ReturnError(c)
  <2>1. PICK why \in Reports :
          /\ Return(c, "error", why)
          /\ why \in {"noResponse", "failureStatus", "unreadable"}
          /\ why = "noResponse" => resp[c] = Nil
          /\ why = "failureStatus" => resp[c] # Nil
    BY <1>8 DEF ReturnError, Reports
  <2>2. resp[c] \notin Returned
    BY <1>8, FailureRange DEF ReturnError
  <2>3. /\ Counted(c)' /\ LastKept(c)' /\ verdict'[c] = "error" /\ report'[c] = why
        /\ Len(answers[c]) = attempt[c] /\ attempt[c] <= AttemptLimit[c]
    BY <1>8, <2>1, ReturnedFromLoop DEF ReturnError
  <2>4. attempt[c] = AttemptLimit[c]
    BY <1>8, <2>3, AtLimit DEF ReturnError
  <2> QED
    BY <1>8, <2>1, <2>2, <2>3, <2>4 DEF ReturnError, CallInv, Outcome
<1> QED
  BY <1>1, <1>2, <1>3, <1>4, <1>5, <1>6, <1>7, <1>8 DEF Step, Answer

LEMMA NextInv == IInv /\ [Next]_vars => IInv'
<1> SUFFICES ASSUME IInv, [Next]_vars, NEW d \in Calls PROVE CallInv(d)'
  BY NextTyped DEF IInv
<1>1. ASSUME NEW c \in Calls, Step(c) PROVE CallInv(d)'
  <2>1. CASE c = d
    BY <1>1, <2>1, StepKeepsCall DEF IInv
  <2>2. CASE c # d
    BY <1>1, <2>2, StepTouchesOne, UntouchedKeeps DEF IInv
  <2> QED
    BY <2>1, <2>2
<1>2. CASE UNCHANGED vars
  BY <1>2, UntouchedKeeps DEF IInv, vars, Untouched
<1> QED
  BY <1>1, <1>2 DEF Next

(* The inductive invariant, for every set of calls, limits and statuses. *)
THEOREM Invariance == Spec => []IInv
  BY InitInv, NextInv, PTL DEF Spec

--------------------------------------------------------------------------------
(* The properties *)

(* Once the endpoint has accepted a message, the call posts it no more and  *)
(* has returned that very answer.                                           *)
THEOREM PostsEndWithSuccess == Spec => []NoPostAfterSuccess
<1>1. IInv => NoPostAfterSuccess
  <2> SUFFICES ASSUME IInv, NEW c \in Calls, NEW i \in 1 .. Len(answers[c]),
                      answers[c][i] \in Accepted
               PROVE  /\ i = Len(answers[c])
                      /\ verdict[c] = "response"
                      /\ resp[c] = answers[c][i]
    BY DEF NoPostAfterSuccess
  <2>1. LastKept(c) /\ Len(answers[c]) \in Nat
    BY HistoryLength DEF IInv, CallInv
  <2>2. i = Len(answers[c])
    BY <2>1 DEF LastKept
  <2>3. resp[c] = answers[c][i]
    BY <2>1, <2>2 DEF LastKept, LastAnswer
  <2> QED
    BY <2>1, <2>2, <2>3 DEF LastKept
<1> QED
  BY <1>1, Invariance, PTL

(* An error is returned only after every permitted attempt, none accepted.  *)
THEOREM ErrorsAreExhausted == Spec => []ErrorOnlyWhenExhausted
<1>1. IInv => ErrorOnlyWhenExhausted
  BY DEF IInv, CallInv, LastKept, Outcome, ErrorOnlyWhenExhausted
<1> QED
  BY <1>1, Invariance, PTL

(* A response, and the error's text, tell of the last attempt.              *)
THEOREM OutcomesAreOfLastAttempt == Spec => []OutcomeIsOfLastAttempt
<1>1. IInv => OutcomeIsOfLastAttempt
  BY DEF IInv, CallInv, LastKept, Outcome, OutcomeIsOfLastAttempt
<1> QED
  BY <1>1, Invariance, PTL

--------------------------------------------------------------------------------
(* The loop implements Invocation *)

LEMMA InitMaps == Init => Abstract!Init
<1> SUFFICES ASSUME Init PROVE Abstract!Init
  OBVIOUS
<1>1. ASSUME NEW c \in Calls PROVE Posts[c] = 0
  <2>1. Len(answers[c]) = 0 /\ pc[c] # "posted"
    BY DEF Init
  <2> QED
    BY <2>1 DEF Posts
<1>2. Posts = [c \in Calls |-> 0]
  BY <1>1 DEF Posts
<1> QED
  BY <1>2 DEF Init, Abstract!Init

(* How a step of one call changes its number of POSTs.                      *)
LEMMA PostsFollow ==
  ASSUME NEW c \in Calls, NEW n \in Nat, TypeOK, Step(c), Posts'[c] = n
  PROVE  Posts' = [Posts EXCEPT ![c] = n]
<1>1. \A d \in Calls \ {c} : Posts'[d] = Posts[d]
  BY StepTouchesOne DEF Untouched, Posts
<1> QED
  BY <1>1 DEF Posts

(* An answer does not change it: the POST counted as sent is now answered.  *)
LEMMA AnswerKeepsPosts ==
  ASSUME NEW c \in Calls, NEW r \in Responses, NEW canRead \in BOOLEAN,
         TypeOK, DoReturns(c, r, canRead), pc'[c] # "posted", Step(c)
  PROVE  Posts' = Posts /\ Posts[c] > 0
<1>1. pc[c] = "posted" /\ Len(answers'[c]) = Len(answers[c]) + 1 /\ Len(answers[c]) \in Nat
  BY AnswerAppended, HistoryLength DEF DoReturns
<1>2. Posts[c] = Len(answers[c]) + 1
  BY <1>1 DEF Posts
<1>3. Posts'[c] = Len(answers'[c])
  BY <1>1, AnswerAppended, HistoryLength DEF Posts
<1>4. Posts'[c] = Posts[c] /\ Posts[c] \in Nat /\ Posts[c] > 0
  BY <1>1, <1>2, <1>3
<1> QED
  BY <1>4, PostsFollow DEF Posts

(* Returning from the loop posts nothing, and settles a pending verdict.    *)
LEMMA ReturnKeepsPosts ==
  ASSUME NEW c \in Calls, NEW v \in {"response", "error"}, NEW why \in Reports,
         TypeOK, pc[c] = "loop", Return(c, v, why), UNCHANGED answers
  PROVE  Posts' = Posts
<1>1. \A d \in Calls : (pc'[d] = "posted") <=> (pc[d] = "posted")
  BY DEF Return, TypeOK
<1> QED
  BY <1>1 DEF Posts

LEMMA VerdictFollows ==
  ASSUME NEW c \in Calls, NEW v \in {"response", "error"}, NEW why \in Reports,
         TypeOK, CallInv(c), pc[c] = "loop", Return(c, v, why)
  PROVE  verdict[c] = "pending" /\ verdict' = [verdict EXCEPT ![c] = v]
  BY DEF Return, CallInv, Counted

LEMMA FailedMapsToStutter ==
  ASSUME NEW c \in Calls, NEW r \in Responses, NEW canRead \in BOOLEAN,
         TypeOK, DoReturns(c, r, canRead), TryAgain(c), Step(c)
  PROVE  UNCHANGED Abstract!vars
<1>1. pc'[c] # "posted" /\ verdict' = verdict
  BY DEF TryAgain, TypeOK
<1> QED
  BY <1>1, AnswerKeepsPosts DEF Abstract!vars

LEMMA NextMaps == IInv /\ [Next]_vars => [Abstract!Next]_(Abstract!vars)
<1> SUFFICES ASSUME IInv, [Next]_vars, ~UNCHANGED Abstract!vars PROVE Abstract!Next
  OBVIOUS
<1> USE DEF Abstract!Next
<1>1. ASSUME NEW c \in Calls, Step(c) PROVE Abstract!Next
  <2>0. TypeOK /\ CallInv(c) /\ Len(answers[c]) \in Nat /\ "badRequest" \in Reports
        /\ "none" \in Reports
    BY HistoryLength DEF IInv, Reports
  <2>1. CASE RefuseRequest(c)
    <3>1. Posts' = Posts
      BY <2>0, <2>1, ReturnKeepsPosts DEF RefuseRequest
    <3> QED
      BY <2>0, <2>1, <3>1, VerdictFollows DEF RefuseRequest, Abstract!Fail
  <2>2. CASE Post(c)
    <3>1. Posts[c] = Len(answers[c]) /\ Posts'[c] = Len(answers[c]) + 1
      BY <2>0, <2>2 DEF Post, Posts, TypeOK
    <3>2. Posts' = [Posts EXCEPT ![c] = @ + 1]
      BY <1>1, <2>0, <3>1, PostsFollow
    <3>3. Posts[c] < AttemptLimit[c] /\ verdict[c] = "pending"
      <4>1. attempt[c] = Posts[c] /\ verdict[c] = "pending" /\ AttemptsLeft(c)
        BY <2>0, <2>2, <3>1 DEF Post, CallInv, Counted
      <4> QED
        BY <2>0, <3>1, <4>1, WithinLimit
    <3> QED
      BY <2>2, <3>2, <3>3 DEF Post, Abstract!Post
  <2>3. CASE FailInTransport(c)
    <3>1. DoReturns(c, Nil, FALSE) /\ TryAgain(c) /\ Nil \in Responses
      BY <2>3 DEF FailInTransport, Responses
    <3> QED
      BY <1>1, <2>0, <3>1, FailedMapsToStutter
  <2>4. ASSUME NEW s \in Statuses, Succeed(c, s) PROVE Abstract!Next
    <3>1. DoReturns(c, s, TRUE) /\ Return(c, "response", "none") /\ s \in Responses
      BY <2>4 DEF Succeed, Responses
    <3>2. pc'[c] # "posted"
      BY <2>0, <3>1 DEF Return, TypeOK
    <3>3. Posts' = Posts /\ Posts[c] > 0
      BY <1>1, <2>0, <3>1, <3>2, AnswerKeepsPosts
    <3>4. verdict[c] = "pending" /\ verdict' = [verdict EXCEPT ![c] = "response"]
      BY <2>0, <3>1 DEF DoReturns, Return, CallInv, Counted
    <3> QED
      BY <3>3, <3>4 DEF Abstract!Respond
  <2>5. ASSUME NEW s \in Statuses, FailWithStatus(c, s) PROVE Abstract!Next
    <3>1. DoReturns(c, s, TRUE) /\ TryAgain(c) /\ s \in Responses
      BY <2>5 DEF FailWithStatus, Responses
    <3> QED
      BY <1>1, <2>0, <3>1, FailedMapsToStutter
  <2>6. ASSUME NEW s \in Statuses, FailRedirecting(c, s) PROVE Abstract!Next
    <3>1. DoReturns(c, s, FALSE) /\ TryAgain(c) /\ s \in Responses
      BY <2>6 DEF FailRedirecting, Responses
    <3> QED
      BY <1>1, <2>0, <3>1, FailedMapsToStutter
  <2>7. CASE ReturnLast(c)
    <3>1. Posts' = Posts
      BY <2>0, <2>7, ReturnKeepsPosts DEF ReturnLast
    <3>2. answers[c] # <<>>
      BY <2>0, <2>7, FailureRange, StatusRanges
         DEF ReturnLast, CallInv, LastKept, LastAnswer
    <3>3. Len(answers[c]) > 0
      BY <2>0, <3>2 DEF TypeOK
    <3>4. Posts[c] > 0
      <4>0. pc[c] # "posted"
        BY <2>7 DEF ReturnLast
      <4>1. Posts[c] = Len(answers[c])
        BY <2>0, <4>0 DEF Posts
      <4> QED
        BY <3>3, <4>1
    <3> QED
      BY <2>0, <2>7, <3>1, <3>4, VerdictFollows DEF ReturnLast, Abstract!Respond
  <2>8. CASE ReturnError(c)
    <3>1. PICK why \in Reports : Return(c, "error", why)
      BY <2>8 DEF ReturnError, Reports
    <3>2. Posts' = Posts
      BY <2>0, <2>8, <3>1, ReturnKeepsPosts DEF ReturnError
    <3> QED
      BY <2>0, <2>8, <3>1, <3>2, VerdictFollows DEF ReturnError, Abstract!Fail
  <2> QED
    BY <1>1, <2>1, <2>2, <2>3, <2>4, <2>5, <2>6, <2>7, <2>8 DEF Step, Answer
<1>2. CASE UNCHANGED vars
  BY <1>2 DEF vars, Posts, Abstract!vars
<1> QED
  BY <1>1, <1>2 DEF Next

(* The retry loop implements Invocation, which is all the connectors assume *)
(* of it.                                                                   *)
THEOREM ImplementsInvocation == Spec => RefinesInvocation
<1> QED
  BY InitMaps, NextMaps, Invariance, PTL DEF Spec, RefinesInvocation, Abstract!Spec

=================================================================================
