------------------------------ MODULE AtLeastOnce ------------------------------
(***************************************************************************)
(* What a connector promises that acknowledges its messages only when they *)
(* are dealt with: a message may be delivered again and again, each        *)
(* delivery may conclude once (what that takes is the connector's: see its *)
(* refinement mapping), and the source gives a message up only when one of *)
(* its deliveries has concluded.  A message concluded but not given up is  *)
(* the duplicate that the user of the connector has to expect.             *)
(***************************************************************************)
EXTENDS Integers

CONSTANT Messages

VARIABLES
  source,     \* source[m]: "absent", "kept" or "removed"
  delivered,  \* delivered[m]: how often m has been delivered
  concluded   \* concluded[m]: how many of its deliveries have concluded

vars == <<source, delivered, concluded>>

Init ==
  /\ source \in [Messages -> {"absent", "kept"}]
  /\ delivered = [m \in Messages |-> 0]
  /\ concluded = [m \in Messages |-> 0]

Put(m) ==
  /\ source[m] = "absent"
  /\ source' = [source EXCEPT ![m] = "kept"]
  /\ UNCHANGED <<delivered, concluded>>

(* Several messages may be delivered at once.                               *)
Deliver(batch) ==
  /\ \A m \in batch : source[m] # "absent"
  /\ delivered' = [m \in Messages |-> IF m \in batch THEN delivered[m] + 1 ELSE delivered[m]]
  /\ UNCHANGED <<source, concluded>>

Conclude(m) ==
  /\ concluded[m] < delivered[m]
  /\ concluded' = [concluded EXCEPT ![m] = @ + 1]
  /\ UNCHANGED <<source, delivered>>

Remove(m) ==
  /\ source[m] = "kept" /\ concluded[m] > 0
  /\ source' = [source EXCEPT ![m] = "removed"]
  /\ UNCHANGED <<delivered, concluded>>

Next ==
  \/ \E batch \in SUBSET Messages : Deliver(batch)
  \/ \E m \in Messages : Put(m) \/ Conclude(m) \/ Remove(m)

Spec == Init /\ [][Next]_vars

================================================================================
