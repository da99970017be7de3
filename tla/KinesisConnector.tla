---------------------------- MODULE KinesisConnector ----------------------------
(***************************************************************************)
(* The Kinesis connector (aws-kinesis-http-connector/main.go): a goroutine *)
(* that looks for new shards and sends them over a channel, the main       *)
(* goroutine that starts a worker for each, the workers, which scan their  *)
(* shard from a checkpoint kept in memory, and the context and channel     *)
(* closing that end them all.  The stream is external: shards are added    *)
(* and closed, records are put, requests fail.  (The prefix of Init, Next  *)
(* and so on lets a module extend this one and SQSConnector.)              *)
(***************************************************************************)
EXTENDS Integers, Sequences, FiniteSets

CONSTANTS
  Shards,      \* the shards the stream may come to have
  maxRecords,  \* conn.maxRecords: how many records one request returns
  MaxRecord    \* bound: how many records a shard gets

ASSUME LimitsAssumption == maxRecords \in Nat \ {0} /\ MaxRecord \in Nat

VARIABLES
  listed,       \* external: the shards the stream has (one page of them)
  open,         \* external: those of them that still take records
  records,      \* external: records[s]: how many records s has, 1 .. records[s]
  finder,       \* where findNewShards is
  pending,      \* what its inner loop has yet to look at
  shards,       \* its map of the shards it has sent
  shardc,       \* the channel of shards, of capacity 1
  closed,       \* whether shardc is closed
  main,         \* where pullRecords and main are
  checkpoints,  \* checkpoints[s]: last record of s stored, None if not in the map
  worker,       \* worker[s]: where the worker of s is
  returned,     \* returned[s]: the records its last request returned, yet to handle
  atEnd,        \* atEnd[s]: whether that request returned no next iterator
  cancelled,    \* whether the context is cancelled
  started,      \* history: started[s]: how many workers s has had
  handled       \* history: handled[s]: the records of s handled, in order

stream == <<listed, open, records>>
finding == <<finder, pending, shards>>
working == <<checkpoints, worker, returned, atEnd>>
shardHistory == <<started, handled>>
kinesisVars == <<stream, finding, shardc, closed, main, working, cancelled, shardHistory>>

NoCheckpoint == -1
Records == 1 .. MaxRecord

KinesisTypeOK ==
  /\ open \subseteq listed /\ listed \subseteq Shards
  /\ records \in [Shards -> 0 .. MaxRecord]
  /\ finder \in {"select", "send", "returned", "done"}
  /\ pending \subseteq Shards /\ shards \subseteq Shards
  /\ shardc \in Seq(Shards) /\ Len(shardc) <= 1
  /\ closed \in BOOLEAN
  /\ main \in {"range", "wait", "done"}
  /\ checkpoints \in [Shards -> {NoCheckpoint} \union 0 .. MaxRecord]
  /\ worker \in [Shards -> {"none", "scan", "fetch", "record", "invoked", "select", "done"}]
  /\ returned \in [Shards -> Seq(Records)]
  /\ atEnd \in [Shards -> BOOLEAN]
  /\ cancelled \in BOOLEAN
  /\ started \in [Shards -> Nat]
  /\ handled \in [Shards -> Seq(Records)]

KinesisInit ==
  /\ listed \in SUBSET Shards
  /\ open = listed
  /\ records = [s \in Shards |-> 0]
  /\ finder = "select"
  /\ pending = {}
  /\ shards = {}
  /\ shardc = <<>>
  /\ closed = FALSE
  /\ main = "range"
  /\ checkpoints = [s \in Shards |-> NoCheckpoint]
  /\ worker = [s \in Shards |-> "none"]
  /\ returned = [s \in Shards |-> <<>>]
  /\ atEnd = [s \in Shards |-> FALSE]
  /\ cancelled = FALSE
  /\ started = [s \in Shards |-> 0]
  /\ handled = [s \in Shards |-> <<>>]

--------------------------------------------------------------------------------
(* The stream, and the signal *)

Reshard ==
  /\ \/ \E s \in Shards \ listed :
          listed' = listed \union {s} /\ open' = open \union {s}
     \/ \E s \in open : open' = open \ {s} /\ UNCHANGED listed
  /\ UNCHANGED <<records, finding, shardc, closed, main, working, cancelled, shardHistory>>

Put(s) ==
  /\ s \in open /\ records[s] < MaxRecord
  /\ records' = [records EXCEPT ![s] = @ + 1]
  /\ UNCHANGED <<listed, open, finding, shardc, closed, main, working, cancelled, shardHistory>>

Interrupt ==
  /\ main # "done"
  /\ cancelled' = TRUE
  /\ UNCHANGED <<stream, finding, shardc, closed, main, working, shardHistory>>

--------------------------------------------------------------------------------
(* findNewShards and the goroutine around it *)

\* Mutant of ListShards: shards that are closed are left out.
ListShardsOpen ==
  /\ finder = "select" /\ ~cancelled
  /\ finder' = "send"
  /\ pending' = open
  /\ UNCHANGED <<stream, shards, shardc, closed, main, working, cancelled, shardHistory>>
(* The ticker fires and listShards succeeds. *)
ListShards ==
  /\ finder = "select" /\ ~cancelled
  /\ finder' = "send"
  /\ pending' = listed
  /\ UNCHANGED <<stream, shards, shardc, closed, main, working, cancelled, shardHistory>>

\* Mutant of SendShard: shards that were sent before are sent again.
SendShardAgain(s) ==
  /\ finder = "send" /\ s \in pending
  /\ pending' = pending \ {s}
  /\ Len(shardc) < 1
  /\ shards' = shards \union {s}
  /\ shardc' = Append(shardc, s)
  /\ UNCHANGED <<stream, finder, closed, main, working, cancelled, shardHistory>>
(* Only a shard that is not in the map yet is sent; the send waits for room *)
(* in the channel, whatever happens to the context.                         *)
SendShard(s) ==
  /\ finder = "send" /\ s \in pending
  /\ pending' = pending \ {s}
  /\ IF s \in shards
       THEN UNCHANGED <<shards, shardc>>
       ELSE /\ Len(shardc) < 1
            /\ shards' = shards \union {s}
            /\ shardc' = Append(shardc, s)
  /\ UNCHANGED <<stream, finder, closed, main, working, cancelled, shardHistory>>

AllSent ==
  /\ finder = "send" /\ pending = {}
  /\ finder' = "select"
  /\ UNCHANGED <<stream, pending, shards, shardc, closed, main, working, cancelled, shardHistory>>

(* The context is done, or listShards fails, as it does when the context is *)
(* done.                                                                    *)
FinderReturns ==
  /\ finder = "select"
  /\ finder' = "returned"
  /\ UNCHANGED <<stream, pending, shards, shardc, closed, main, working, cancelled, shardHistory>>

\* Mutant of FinderEnds: the channel stays open.
FinderEndsLeavingOpen ==
  /\ finder = "returned"
  /\ finder' = "done" /\ cancelled' = TRUE
  /\ UNCHANGED <<stream, pending, shards, shardc, closed, main, working, shardHistory>>
FinderEnds ==
  /\ finder = "returned"
  /\ finder' = "done" /\ cancelled' = TRUE /\ closed' = TRUE
  /\ UNCHANGED <<stream, pending, shards, shardc, main, working, shardHistory>>

--------------------------------------------------------------------------------
(* pullRecords: the loop over the channel *)

StartWorker ==
  /\ main = "range" /\ shardc # <<>>
  /\ LET s == Head(shardc) IN
       /\ checkpoints' = [checkpoints EXCEPT ![s] = 0]
       /\ worker' = [worker EXCEPT ![s] = "scan"]
       /\ started' = [started EXCEPT ![s] = @ + 1]
  /\ shardc' = Tail(shardc)
  /\ UNCHANGED <<stream, finding, closed, main, returned, atEnd, cancelled, handled>>

RangeEnds ==
  /\ main = "range" /\ shardc = <<>> /\ closed
  /\ main' = "wait"
  /\ UNCHANGED <<stream, finding, shardc, closed, working, cancelled, shardHistory>>

(* wg.Wait, and main returns. *)
WaitEnds ==
  /\ main = "wait"
  /\ \A s \in Shards : worker[s] \in {"none", "done"}
  /\ main' = "done" /\ cancelled' = TRUE
  /\ UNCHANGED <<stream, finding, shardc, closed, working, shardHistory>>

--------------------------------------------------------------------------------
(* pullRecords: a worker *)

At(s, from) == worker[s] = from /\ main # "done"
Enter(s, to) == worker' = [worker EXCEPT ![s] = to]
Others == UNCHANGED <<stream, finding, shardc, closed, main, cancelled, started>>

(* The checkpoint is loaded and the iterator requested; without the one, or *)
(* if the request fails, the worker returns and nothing starts it again.    *)
(* A request may succeed and yet bring no iterator.                         *)
GetIterator(s) ==
  /\ At(s, "scan")
  /\ \/ checkpoints[s] # NoCheckpoint /\ ~cancelled /\ (Enter(s, "fetch") \/ Enter(s, "select"))
     \/ Enter(s, "done")
  /\ UNCHANGED <<checkpoints, returned, atEnd, handled>> /\ Others

\* Mutant of After: a scan starts over from the oldest record.
AfterTrimHorizon(s) == 1
After(s) == checkpoints[s] + 1

(* Up to maxRecords records, perhaps none, after the checkpoint; there is   *)
(* no next iterator when a closed shard has been read to its end.           *)
GetRecords(s) ==
  /\ At(s, "fetch")
  /\ \/ /\ ~cancelled
        /\ \E n \in 0 .. maxRecords :
             /\ After(s) + n - 1 <= records[s]
             /\ returned' = [returned EXCEPT ![s] = [i \in 1 .. n |-> After(s) + i - 1]]
             /\ atEnd' = [atEnd EXCEPT
                            ![s] = s \notin open /\ After(s) + n - 1 = records[s]]
        /\ Enter(s, "record")
     \/ Enter(s, "done") /\ UNCHANGED <<returned, atEnd>>
  /\ UNCHANGED <<checkpoints, handled>> /\ Others

(* consumeMessage: the invocation, then what it leaves behind.  The write   *)
(* of the outcome may fail, and does when the context is done; nothing      *)
(* depends on it.                                                           *)
consumeMessage(s) ==
  /\ At(s, "record") /\ returned[s] # <<>>
  /\ handled' = [handled EXCEPT ![s] = Append(@, Head(returned[s]))]
  /\ Enter(s, "invoked")
  /\ UNCHANGED <<checkpoints, returned, atEnd>> /\ Others

\* Mutant of StoreCheckpoint: the checkpoint is that of the batch.
StoreCheckpointOfBatch(s) ==
  /\ At(s, "invoked")
  /\ checkpoints' = [checkpoints EXCEPT ![s] = returned[s][Len(returned[s])]]
  /\ returned' = [returned EXCEPT ![s] = Tail(@)]
  /\ Enter(s, "record")
  /\ UNCHANGED <<atEnd, handled>> /\ Others
StoreCheckpoint(s) ==
  /\ At(s, "invoked")
  /\ checkpoints' = [checkpoints EXCEPT ![s] = Head(returned[s])]
  /\ returned' = [returned EXCEPT ![s] = Tail(@)]
  /\ Enter(s, "record")
  /\ UNCHANGED <<atEnd, handled>> /\ Others

(* A closed shard is forgotten. *)
BatchDone(s) ==
  /\ At(s, "record") /\ returned[s] = <<>>
  /\ IF atEnd[s] /\ checkpoints[s] # NoCheckpoint
       THEN checkpoints' = [checkpoints EXCEPT ![s] = NoCheckpoint] /\ Enter(s, "done")
       ELSE UNCHANGED checkpoints /\ Enter(s, "select")
  /\ UNCHANGED <<returned, atEnd, handled>> /\ Others

(* Ten seconds are over, or the context is done.  If both, either may win.  *)
ScanAgain(s) ==
  /\ At(s, "select")
  /\ Enter(s, "scan") \/ (cancelled /\ Enter(s, "done"))
  /\ UNCHANGED <<checkpoints, returned, atEnd, handled>> /\ Others

Worker(s) ==
  \/ GetIterator(s) \/ GetRecords(s) \/ consumeMessage(s) \/ StoreCheckpoint(s)
  \/ BatchDone(s) \/ ScanAgain(s)

Finder == ListShards \/ (\E s \in Shards : SendShard(s)) \/ AllSent \/ FinderReturns \/ FinderEnds

Main == StartWorker \/ RangeEnds \/ WaitEnds

KinesisNext ==
  \/ Reshard \/ Interrupt \/ Finder \/ Main
  \/ \E s \in Shards : Put(s) \/ Worker(s)

KinesisSpec == KinesisInit /\ [][KinesisNext]_kinesisVars

(* The goroutines run, requests return, and a record that is there is       *)
(* returned by some request of a worker that goes on asking; such a worker  *)
(* is given an iterator now and then.                                       *)
KinesisFairSpec ==
  /\ KinesisSpec
  /\ WF_kinesisVars(Finder) /\ WF_kinesisVars(Main)
  /\ \A s \in Shards :
       /\ WF_kinesisVars(Worker(s))
       /\ SF_kinesisVars(GetRecords(s) /\ returned'[s] # <<>>)
       /\ SF_kinesisVars(GetIterator(s) /\ worker'[s] = "fetch")

--------------------------------------------------------------------------------
(* Properties *)

(* However often findNewShards lists the same shards, a shard has only one  *)
(* worker in the life of the process: two would share its checkpoint.       *)
OneWorkerPerShard == \A s \in Shards : started[s] <= 1

(* A worker handles the records of its shard once each and in their order,  *)
(* over all its scans, short and empty batches included.                    *)
HandledOnceInOrder ==
  \A s \in Shards : \A i \in 1 .. Len(handled[s]) : handled[s][i] = i

(* The checkpoint never runs ahead of what has been handled, and a shard is *)
(* given up as closed only when all its records have been.                  *)
CheckpointIsHandled ==
  \A s \in Shards :
    /\ checkpoints[s] # NoCheckpoint => checkpoints[s] <= Len(handled[s])
    /\ worker[s] = "done" /\ checkpoints[s] = NoCheckpoint => Len(handled[s]) = records[s]

Log == INSTANCE LogConsumer WITH
  Partitions <- Shards,
  FromStart <- TRUE,
  end <- records,
  handled <- [s \in Shards |-> {handled[s][i] - 1 : i \in 1 .. Len(handled[s])}],
  position <- [s \in Shards |-> IF checkpoints[s] = NoCheckpoint THEN Len(handled[s])
                                ELSE checkpoints[s]]

(* The process keeps the promise of LogConsumer in every shard: the         *)
(* checkpoint moves forward one handled record after another, and never     *)
(* back, whichever requests fail and scans begin anew.  (The checkpoint of  *)
(* a shard that is not yet, or no more, in the map counts as its handled    *)
(* records.)                                                                *)
RefinesLogConsumer == Log!Spec

(* When the context is cancelled, by a signal or because shards could not   *)
(* be listed, all goroutines end and so does the process: none is stuck on  *)
(* the channel or on wg.Wait.                                               *)
CancelEndsProcess == cancelled ~> (main = "done")

(* Every record of every shard is handled, also of shards that appear late  *)
(* or were closed before they were found (main.go: "scan each shards for    *)
(* any new records"), unless the worker has ended.  One failed request ends *)
(* it, and the shard is then scanned no more while the process runs on.     *)
EveryRecordIsHandled ==
  \A s \in Shards : \A n \in Records :
    (s \in listed /\ n <= records[s]) ~>
      (n <= Len(handled[s]) \/ worker[s] = "done" \/ cancelled)

================================================================================
