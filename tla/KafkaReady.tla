------------------------------- MODULE KafkaReady -------------------------------
(***************************************************************************)
(* The life of one process of the Kafka connector                          *)
(* (kafka-http-connector/main.go, main and Setup): the main goroutine, the *)
(* goroutine that calls client.Consume again and again, the channel        *)
(* conn.ready with which the second tells the first that a session is set  *)
(* up, and the signal that ends it all.  What a session does is module     *)
(* KafkaClaim.  Sarama's Consume, which calls Setup at most once and       *)
(* returns when all its claims have, is external.  (The prefix of Init,    *)
(* Next and so on lets a module extend this one and KafkaClaim.)           *)
(***************************************************************************)
EXTENDS Integers

CONSTANT MaxConsume  \* bound: how often client.Consume is called

ASSUME MaxConsumeAssumption == MaxConsume \in Nat \ {0}

VARIABLES
  main,       \* where the main goroutine is
  consumer,   \* where the consumer goroutine is
  ready,      \* the field conn.ready: channels are numbered as they are made
  awaited,    \* the channel main has loaded from it, 0 before it has
  closed,     \* the channels that are closed
  claims,     \* whether ConsumeClaim is running in the session
  cancelled,  \* whether ctx is cancelled
  sigterm,    \* "none", "pending" in the channel, or "received"
  producer,   \* whether the producer is open
  process     \* "running", or how it ended: "exited", "killed", "panicked"

processVars ==
  <<main, consumer, ready, awaited, closed, claims, cancelled, sigterm, producer, process>>

ProcessTypeOK ==
  /\ main \in {"await", "up", "select", "wait", "close", "done"}
  /\ consumer \in {"consume", "session", "returned", "done"}
  /\ ready \in 1 .. MaxConsume
  /\ awaited \in 0 .. MaxConsume
  /\ closed \subseteq 1 .. MaxConsume
  /\ claims \in BOOLEAN /\ cancelled \in BOOLEAN /\ producer \in BOOLEAN
  /\ sigterm \in {"none", "pending", "received"}
  /\ process \in {"running", "exited", "killed", "panicked"}

ProcessInit ==
  /\ main = "await"
  /\ consumer = "consume"
  /\ ready = 1
  /\ awaited = 0
  /\ closed = {}
  /\ claims = FALSE
  /\ cancelled = FALSE
  /\ sigterm = "none"
  /\ producer = TRUE
  /\ process = "running"

Running == process = "running"

--------------------------------------------------------------------------------
(* The main goroutine *)

(* "<-conn.ready" loads the field, unsynchronised with the other goroutine, *)
(* and then waits on the channel it has loaded, whatever becomes of the     *)
(* field.                                                                   *)
LoadReady ==
  /\ Running /\ main = "await" /\ awaited = 0
  /\ awaited' = ready
  /\ UNCHANGED <<main, consumer, ready, closed, claims, cancelled, sigterm, producer, process>>

PassReady ==
  /\ Running /\ main = "await" /\ awaited \in closed
  /\ main' = "up"
  /\ UNCHANGED <<consumer, ready, awaited, closed, claims, cancelled, sigterm, producer, process>>

Notify ==
  /\ Running /\ main = "up"
  /\ main' = "select"
  /\ UNCHANGED <<consumer, ready, awaited, closed, claims, cancelled, sigterm, producer, process>>

(* The select ends by the signal: nothing else cancels ctx. *)
SelectAndCancel ==
  /\ Running /\ main = "select" /\ sigterm = "pending"
  /\ sigterm' = "received"
  /\ cancelled' = TRUE
  /\ main' = "wait"
  /\ UNCHANGED <<consumer, ready, awaited, closed, claims, producer, process>>

(* wg.Wait, client.Close and the deferred producer.Close. *)
WaitAndClose ==
  /\ Running /\ main = "wait" /\ consumer = "done"
  /\ main' = "close" /\ producer' = FALSE
  /\ UNCHANGED <<consumer, ready, awaited, closed, claims, cancelled, sigterm, process>>

Exit ==
  /\ Running /\ main = "close"
  /\ main' = "done" /\ process' = "exited"
  /\ UNCHANGED <<consumer, ready, awaited, closed, claims, cancelled, sigterm, producer>>

--------------------------------------------------------------------------------
(* The consumer goroutine *)

\* Mutant of Setup: conn.ready is left open.
SetupLeavingOpen ==
  /\ Running /\ consumer = "consume"
  /\ consumer' = "session" /\ claims' = TRUE
  /\ UNCHANGED <<main, ready, awaited, closed, cancelled, sigterm, producer, process>>
(* Sarama calls Setup, which closes conn.ready; the claims start.  Closing  *)
(* a closed channel panics.                                                 *)
Setup ==
  /\ Running /\ consumer = "consume"
  /\ IF ready \in closed
       THEN process' = "panicked" /\ UNCHANGED <<consumer, closed, claims>>
       ELSE /\ closed' = closed \union {ready}
            /\ consumer' = "session" /\ claims' = TRUE
            /\ UNCHANGED process
  /\ UNCHANGED <<main, ready, awaited, cancelled, sigterm, producer>>

(* Consume returns before there is a session: it failed, or ctx is done.    *)
ConsumeFails ==
  /\ Running /\ consumer = "consume"
  /\ consumer' = "returned"
  /\ UNCHANGED <<main, ready, awaited, closed, claims, cancelled, sigterm, producer, process>>

(* The claims of a session are drained when it ends: the group is           *)
(* rebalanced, a heartbeat fails, or ctx is done.                           *)
ClaimsEnd ==
  /\ Running /\ claims
  /\ claims' = FALSE
  /\ UNCHANGED <<main, consumer, ready, awaited, closed, cancelled, sigterm, producer, process>>

ConsumeReturns ==
  /\ Running /\ consumer = "session" /\ ~claims
  /\ consumer' = "returned"
  /\ UNCHANGED <<main, ready, awaited, closed, claims, cancelled, sigterm, producer, process>>

\* Mutant of ConsumeAgain: conn.ready is not made anew.
ConsumeAgainWithOldChannel ==
  /\ Running /\ consumer = "returned" /\ ~cancelled
  /\ consumer' = "consume"
  /\ UNCHANGED <<main, ready, awaited, closed, claims, cancelled, sigterm, producer, process>>
ConsumeAgain ==
  /\ Running /\ consumer = "returned" /\ ~cancelled
  /\ ready < MaxConsume
  /\ ready' = ready + 1
  /\ consumer' = "consume"
  /\ UNCHANGED <<main, awaited, closed, claims, cancelled, sigterm, producer, process>>

\* Mutant of ConsumerDone: the goroutine never looks at ctx.Err().
ConsumerDoneNever == FALSE /\ UNCHANGED processVars
ConsumerDone ==
  /\ Running /\ consumer = "returned" /\ cancelled
  /\ consumer' = "done"
  /\ UNCHANGED <<main, ready, awaited, closed, claims, cancelled, sigterm, producer, process>>

--------------------------------------------------------------------------------
(* The signal kills the process as long as main has not called Notify. *)
Signal ==
  /\ Running /\ sigterm = "none"
  /\ IF main \in {"await", "up"}
       THEN process' = "killed" /\ UNCHANGED sigterm
       ELSE sigterm' = "pending" /\ UNCHANGED process
  /\ UNCHANGED <<main, consumer, ready, awaited, closed, claims, cancelled, producer>>

Main == LoadReady \/ PassReady \/ Notify \/ SelectAndCancel \/ WaitAndClose \/ Exit
Consumer == Setup \/ ConsumeFails \/ ConsumeReturns \/ ConsumeAgain \/ ConsumerDone

ProcessNext == Main \/ Consumer \/ ClaimsEnd \/ Signal

ProcessSpec == ProcessInit /\ [][ProcessNext]_processVars

(* Both goroutines run, and a session whose context is done ends.  Nothing  *)
(* is assumed of sessions while ctx is not cancelled, nor of the signal.    *)
ProcessFairSpec ==
  /\ ProcessSpec
  /\ WF_processVars(Main)
  /\ WF_processVars(Consumer)
  /\ WF_processVars(cancelled /\ ClaimsEnd)

--------------------------------------------------------------------------------
(* Properties *)

(* Setup never closes a channel twice, over any sequence of sessions, failed*)
(* calls of Consume and late loads of the field by main.                    *)
NeverPanics == process # "panicked"

(* Messages are handled only while the producer that publishes their        *)
(* responses and errors is open.                                            *)
ProducerOutlivesClaims == claims /\ Running => producer

(* A signal taken by the handler ends the process in the orderly way, after *)
(* the session in progress.                                                 *)
SignalIsObeyed == (sigterm = "pending") ~> (process = "exited")

(* The comment on "<-conn.ready" says that main awaits the consumer's       *)
(* set-up.  When a session is set up main goes on, with the one exception   *)
(* of a Consume that failed before its Setup while main was waiting: main   *)
(* is then left on a channel that has been replaced and that nobody closes, *)
(* and a signal kills the process in mid-session.                           *)
LeftBehind == awaited # 0 /\ awaited < ready /\ awaited \notin closed
UpWhenSetUp ==
  (consumer = "session") ~>
    (main # "await" \/ ~Running \/ LeftBehind \/ ready = MaxConsume)

================================================================================
