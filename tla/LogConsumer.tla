------------------------------ MODULE LogConsumer ------------------------------
(***************************************************************************)
(* What a connector promises that reads partitions of a log, where nothing *)
(* is removed: it handles only records that are there, and none before     *)
(* those ahead of it have been handled; and the position from which it     *)
(* goes on, in a later session or after a crash, only moves forward, over  *)
(* records that have been handled, at least the last.  A record that is    *)
(* handled but not covered by the position may be handled again.  A        *)
(* consumer that is not to begin at the start of the log may skip records. *)
(***************************************************************************)
EXTENDS Integers

CONSTANTS
  Partitions,  \* the partitions, or shards, of the log
  FromStart    \* whether the consumer begins at the start of the log

VARIABLES
  end,      \* end[p]: how many records p has: 0 .. end[p] - 1
  handled,  \* handled[p]: the records of p that were handled
  position  \* position[p]: where a new session of p goes on

vars == <<end, handled, position>>

Init ==
  /\ end = [p \in Partitions |-> 0]
  /\ handled = [p \in Partitions |-> {}]
  /\ position = [p \in Partitions |-> 0]

HandledBefore(p, o) == FromStart => 0 .. o - 1 \subseteq handled[p]

Append(p) ==
  /\ end' = [end EXCEPT ![p] = @ + 1]
  /\ UNCHANGED <<handled, position>>

Handle(p, o) ==
  /\ HandledBefore(p, o)
  /\ handled' = [handled EXCEPT ![p] = @ \union {o}]
  /\ UNCHANGED <<end, position>>

Move(p, o) ==
  /\ position[p] < o /\ o - 1 \in handled[p] /\ HandledBefore(p, o)
  /\ position' = [position EXCEPT ![p] = o]
  /\ UNCHANGED <<end, handled>>

Next ==
  \E p \in Partitions :
    \/ Append(p)
    \/ \E o \in 0 .. end[p] - 1 : Handle(p, o)
    \/ \E o \in 1 .. end[p] : Move(p, o)

Spec == Init /\ [][Next]_vars

================================================================================
