--------------------- MODULE NatsStreamingConnector_proofs ---------------------
(***************************************************************************)
(* Proofs about the NATS Streaming connector, for any members, messages,   *)
(* deliveries, crashes and interrupts, with or without the two topics.     *)
(***************************************************************************)
EXTENDS NatsStreamingConnector, FiniteSetTheorems, TLAPS

Waiting(r) == {inbox[r][i] : i \in 1 .. Len(inbox[r])}

(* The server knows the group while it has members.  Until it forgets it,   *)
(* it goes on where it was.                                                 *)
Group ==
  /\ \A r \in Members : IsMember(r) => durable
  /\ everAcked \subseteq 1 .. published
  /\ ~forgotten => /\ everAcked = acked
                   /\ ~durable => lastSent = 0
                   /\ \A m \in Messages : m > lastSent => deliveries[m] = 0

(* Only a member is given messages; a process that begins has none in hand. *)
HandsByMain ==
  \A r \in Members : /\ ~IsMember(r) => Waiting(r) = {}
                     /\ main[r] \in {"subscribe", "exited"} => current[r] = None

(* What is in hand or answered was sent, to a member by the group it is in. *)
AreSent ==
  /\ \A r \in Members : \A d \in InHand(r) :
       d[2] <= deliveries[d[1]] /\ (IsMember(r) => d[1] <= lastSent)
  /\ \A d \in answered : d[2] <= deliveries[d[1]]

(* A delivery is in one place.                                              *)
InOneHand ==
  /\ \A r, q \in Members : r # q => InHand(r) \intersect InHand(q) = {}
  /\ \A r \in Members : /\ current[r] \notin Waiting(r)
                        /\ \A i, j \in 1 .. Len(inbox[r]) : inbox[r][i] = inbox[r][j] => i = j

(* A delivery in hand is answered just when its acknowledgement is due.     *)
AnsweredByStep ==
  \A r \in Members :
    /\ Waiting(r) \intersect answered = {}
    /\ current[r] \in answered <=> step[r] \in {"ack", "ackError"}
    /\ step[r] = "ackError" => current[r] \in excused

(* While the group is not forgotten, a delivery after which the message was *)
(* sent again is excused if it is in hand or answered, and an answered one  *)
(* that is not in hand any more is acknowledged or excused.                 *)
RepeatsAreExcused ==
  ~forgotten =>
    /\ \A r \in Members : \A d \in InHand(r) : d[2] < deliveries[d[1]] => d \in excused
    /\ \A d \in answered :
         /\ d[2] < deliveries[d[1]] => d \in excused
         /\ d \in excused \/ d[1] \in acked \/ \E r \in Members : d \in InHand(r)

Rest == Group /\ HandsByMain /\ AreSent /\ InOneHand /\ AnsweredByStep /\ RepeatsAreExcused
IInv == TypeOK /\ Rest

--------------------------------------------------------------------------------
(* Facts about deliveries *)

LEMMA IsDelivery ==
  \A d \in Deliveries : /\ d # None /\ d = <<d[1], d[2]>> /\ d[1] \in Messages /\ d[1] \in Nat
                        /\ d[2] \in Nat \ {0} /\ d[2] <= MaxDeliveries
<1> SUFFICES ASSUME NEW d \in Deliveries
             PROVE  /\ d # None /\ d = <<d[1], d[2]>> /\ d[1] \in Messages /\ d[1] \in Nat
                    /\ d[2] \in Nat \ {0} /\ d[2] <= MaxDeliveries
  OBVIOUS
<1>1. PICK m \in Messages, n \in 1 .. MaxDeliveries : d = <<m, n>>
  BY DEF Deliveries
<1>2. m \in Nat /\ n \in Nat \ {0} /\ n <= MaxDeliveries
  BY BoundsAssumption DEF Messages
<1> QED
  BY <1>1, <1>2 DEF None

LEMMA Hands ==
  ASSUME TypeOK, NEW r \in Members
  PROVE  /\ inbox[r] \in Seq(Deliveries) /\ current[r] \in Deliveries \union {None}
         /\ Waiting(r) \subseteq Deliveries /\ InHand(r) \subseteq Deliveries
         /\ InHand(r) = Waiting(r) \union ({current[r]} \ {None})
         /\ current[r] # None => current[r] \in InHand(r)
         /\ current[r] = None <=> step[r] = "idle"
<1>1. /\ inbox[r] \in Seq(Deliveries) /\ current[r] \in Deliveries \union {None}
      /\ current[r] = None <=> step[r] = "idle"
  BY DEF TypeOK
<1>2. \A i \in 1 .. Len(inbox[r]) : inbox[r][i] \in Deliveries
  BY <1>1
<1>3. Waiting(r) \subseteq Deliveries
  BY <1>2 DEF Waiting
<1>4. InHand(r) = Waiting(r) \union ({current[r]} \ {None})
  BY DEF InHand, Waiting
<1> QED
  BY <1>1, <1>3, <1>4

LEMMA Counts ==
  ASSUME TypeOK
  PROVE  /\ published \in Nat /\ lastSent \in Nat /\ lastSent <= published /\ published <= MaxMessage
         /\ \A m \in Messages : m \in Nat /\ m > 0 /\ deliveries[m] \in Nat
  BY BoundsAssumption DEF TypeOK, Messages

LEMMA InitInv == Init => IInv
<1> SUFFICES ASSUME Init PROVE IInv
  OBVIOUS
<1>1. <<>> \in Seq(Deliveries) /\ Len(<<>>) = 0 /\ \A i \in 1 .. 0 : FALSE
  OBVIOUS
<1>2. TypeOK
  <2>1. 0 \in 0 .. MaxMessage /\ 0 \in 0 .. 0 /\ 0 \in 0 .. MaxDeliveries /\ 0 \in 0 .. MaxEnds
    BY BoundsAssumption
  <2> QED
    BY <1>1, <2>1 DEF Init, TypeOK
<1>3. \A r \in Members : Waiting(r) = {} /\ InHand(r) = {}
  BY <1>1 DEF Init, Waiting, InHand
<1>4. Group /\ HandsByMain /\ RepeatsAreExcused /\ AreSent
  BY <1>3 DEF Init, Group, HandsByMain, RepeatsAreExcused, AreSent, IsMember
<1>5. InOneHand
  BY <1>1, <1>3 DEF Init, InOneHand
<1>6. AnsweredByStep
  BY <1>3 DEF Init, AnsweredByStep
<1> QED
  BY <1>2, <1>4, <1>5, <1>6 DEF IInv, Rest

--------------------------------------------------------------------------------
(* Letting go of deliveries *)

(* What all steps have in common that send, take up and answer nothing: a   *)
(* member may let go of its deliveries, of those that were answered only    *)
(* when they are excused or acknowledged.                                   *)
LetGo ==
  /\ \A r \in Members : inbox'[r] = inbox[r] \/ inbox'[r] = <<>>
  /\ \A r \in Members :
       \/ current'[r] = current[r] /\ step'[r] = step[r]
       \/ current'[r] = None /\ step'[r] = "idle"
       \/ /\ current'[r] = current[r] /\ step[r] = "ack" /\ step'[r] = "ackError"
          /\ current[r] \in excused'
  /\ excused \subseteq excused' /\ answered' = answered /\ deliveries' = deliveries
  /\ \A r \in Members : IsMember(r)' => InHand(r)' = {} \/ (IsMember(r) /\ lastSent' = lastSent)
  /\ ~forgotten' =>
       /\ ~forgotten /\ acked \subseteq acked'
       /\ \A r \in Members : \A d \in InHand(r) \intersect answered :
            d \in excused' \/ d[1] \in acked' \/ d \in InHand(r)'

LEMMA LetGoKeeps ==
  ASSUME IInv, LetGo
  PROVE  AreSent' /\ InOneHand' /\ AnsweredByStep' /\ RepeatsAreExcused'
<1>0. TypeOK /\ AreSent /\ InOneHand /\ AnsweredByStep /\ RepeatsAreExcused /\ answered \subseteq Deliveries
  BY DEF IInv, Rest, TypeOK
<1>1. ASSUME NEW r \in Members
      PROVE  /\ Waiting(r)' \subseteq Waiting(r)
             /\ current'[r] \in {current[r], None}
             /\ InHand(r)' \subseteq InHand(r)
  <2>1. Waiting(r)' \subseteq Waiting(r)
    BY DEF LetGo, Waiting
  <2>2. current'[r] \in {current[r], None}
    BY DEF LetGo
  <2>3. InHand(r)' = Waiting(r)' \union ({current'[r]} \ {None})
    BY DEF InHand, Waiting
  <2>4. InHand(r) = Waiting(r) \union ({current[r]} \ {None})
    BY DEF InHand, Waiting
  <2> QED
    BY <2>1, <2>2, <2>3, <2>4
<1>2. AreSent'
  BY <1>0, <1>1 DEF LetGo, AreSent
<1>3. InOneHand'
  <2>1. \A r, q \in Members : r # q => InHand(r)' \intersect InHand(q)' = {}
    BY <1>0, <1>1 DEF InOneHand
  <2>2. ASSUME NEW r \in Members
        PROVE  /\ current'[r] \notin Waiting(r)'
               /\ \A i, j \in 1 .. Len(inbox'[r]) : inbox'[r][i] = inbox'[r][j] => i = j
    <3>1. current[r] \notin Waiting(r) /\ None \notin Waiting(r)
      BY <1>0, Hands, IsDelivery DEF InOneHand
    <3>2. \A i, j \in 1 .. Len(inbox'[r]) : inbox'[r][i] = inbox'[r][j] => i = j
      BY <1>0 DEF LetGo, InOneHand
    <3> QED
      BY <1>1, <3>1, <3>2
  <2> QED
    BY <2>1, <2>2 DEF InOneHand
<1>4. AnsweredByStep'
  <2> SUFFICES ASSUME NEW r \in Members
               PROVE  /\ Waiting(r)' \intersect answered' = {}
                      /\ current'[r] \in answered' <=> step'[r] \in {"ack", "ackError"}
                      /\ step'[r] = "ackError" => current'[r] \in excused'
    BY DEF AnsweredByStep
  <2>1. /\ Waiting(r) \intersect answered = {}
        /\ current[r] \in answered <=> step[r] \in {"ack", "ackError"}
        /\ step[r] = "ackError" => current[r] \in excused
        /\ None \notin answered
    BY <1>0, IsDelivery DEF AnsweredByStep
  <2> QED
    BY <1>1, <2>1 DEF LetGo
<1>5. RepeatsAreExcused'
  <2> SUFFICES ASSUME ~forgotten'
               PROVE  /\ \A r \in Members : \A d \in InHand(r)' : d[2] < deliveries[d[1]] => d \in excused'
                      /\ \A d \in answered :
                           /\ d[2] < deliveries[d[1]] => d \in excused'
                           /\ d \in excused' \/ d[1] \in acked' \/ \E r \in Members : d \in InHand(r)'
    BY DEF RepeatsAreExcused, LetGo
  <2>1. ~forgotten /\ excused \subseteq excused' /\ acked \subseteq acked'
    BY DEF LetGo
  <2>2. ASSUME NEW d \in answered, d \notin excused', d[1] \notin acked'
        PROVE  \E r \in Members : d \in InHand(r)'
    <3>1. PICK r \in Members : d \in InHand(r)
      BY <1>0, <2>1, <2>2 DEF RepeatsAreExcused
    <3> QED
      BY <2>2, <3>1 DEF LetGo
  <2> QED
    BY <1>0, <1>1, <2>1, <2>2 DEF RepeatsAreExcused
<1> QED
  BY <1>2, <1>3, <1>4, <1>5

--------------------------------------------------------------------------------
(* The steps of the processes that let go of deliveries, or move nothing    *)

LEMMA PublishStep ==
  ASSUME IInv, Publish
  PROVE  IInv'
<1>1. /\ published' = published + 1 /\ published' \in 0 .. MaxMessage
      /\ UNCHANGED <<durable, lastSent, acked, owner, deliveries, inbox, current, step, main, ends,
                     answered, reported, excused, everAcked, forgotten>>
  BY BoundsAssumption DEF IInv, TypeOK, Publish, callback, history
<1>2. TypeOK'
  <2>1. lastSent \in 0 .. published'
    BY <1>1, Counts DEF IInv
  <2> QED
    BY <1>1, <2>1 DEF IInv, TypeOK
<1>3. Group'
  <2>1. 1 .. published \subseteq 1 .. published'
    BY <1>1, Counts DEF IInv
  <2> QED
    BY <1>1, <2>1 DEF IInv, Rest, Group, IsMember
<1>4. HandsByMain'
  BY <1>1 DEF IInv, Rest, HandsByMain, IsMember, Waiting
<1>5. LetGo
  BY <1>1 DEF LetGo, IsMember, InHand
<1> QED
  BY <1>2, <1>3, <1>4, <1>5, LetGoKeeps DEF IInv, Rest

LEMMA CrashStep ==
  ASSUME IInv, NEW r \in Members, Crash(r)
  PROVE  IInv'
<1>1. /\ \A q \in Members : /\ main'[q] = IF q = r THEN "subscribe" ELSE main[q]
                            /\ inbox'[q] = IF q = r THEN <<>> ELSE inbox[q]
                            /\ current'[q] = IF q = r THEN None ELSE current[q]
                            /\ step'[q] = IF q = r THEN "idle" ELSE step[q]
      /\ excused' = excused \union InHand(r)
      /\ UNCHANGED <<published, durable, lastSent, acked, deliveries, answered, reported, everAcked, forgotten>>
  BY DEF IInv, TypeOK, Crash
<1>2. TypeOK'
  <2>1. /\ ends' \in 0 .. MaxEnds /\ owner' \in [Messages -> Members \union {Nobody}]
        /\ inbox' \in [Members -> Seq(Deliveries)]
    BY BoundsAssumption DEF IInv, TypeOK, Crash, Disown
  <2>2. /\ current' \in [Members -> Deliveries \union {None}]
        /\ step' \in [Members -> {"idle", "error", "response", "ack", "ackError"}]
        /\ main' \in [Members -> {"subscribe", "running", "interrupted", "unsubscribed", "closed", "exited"}]
    BY DEF IInv, TypeOK, Crash
  <2>3. excused' \subseteq Deliveries
    BY <1>1, Hands DEF IInv, TypeOK
  <2>4. \A q \in Members : (current'[q] = None) = (step'[q] = "idle")
    BY <1>1 DEF IInv, TypeOK
  <2> QED
    BY <1>1, <2>1, <2>2, <2>3, <2>4 DEF IInv, TypeOK
<1>3. Group'
  BY <1>1 DEF IInv, Rest, Group, IsMember
<1>4. \A q \in Members : /\ Waiting(q)' = IF q = r THEN {} ELSE Waiting(q)
                         /\ InHand(q)' = IF q = r THEN {} ELSE InHand(q)
  BY <1>1 DEF Waiting, InHand
<1>5. HandsByMain'
  BY <1>1, <1>4 DEF IInv, Rest, HandsByMain, IsMember
<1>6. LetGo
  BY <1>1, <1>4 DEF LetGo, IsMember
<1> QED
  BY <1>2, <1>3, <1>5, <1>6, LetGoKeeps DEF IInv, Rest

LEMMA SubscribeStep ==
  ASSUME IInv, NEW r \in Members, Subscribe(r)
  PROVE  IInv'
<1>1. /\ \A q \in Members : main'[q] = IF q = r THEN "running" ELSE main[q]
      /\ main[r] = "subscribe" /\ durable' = TRUE
      /\ IF durable THEN UNCHANGED <<lastSent, acked>> ELSE lastSent' = 0 /\ acked' = {}
      /\ UNCHANGED <<published, owner, deliveries, inbox, current, step, ends,
                     answered, reported, excused, everAcked, forgotten>>
  BY DEF IInv, TypeOK, Subscribe, callback, history
<1>2. TypeOK'
  <2>1. main' \in [Members -> {"subscribe", "running", "interrupted", "unsubscribed", "closed", "exited"}]
    BY DEF IInv, TypeOK, Subscribe
  <2>2. lastSent' \in 0 .. published /\ acked' \subseteq 1 .. lastSent'
    <3>1. CASE durable
      BY <1>1, <3>1 DEF IInv, TypeOK
    <3>2. CASE ~durable
      BY <1>1, <3>2, Counts DEF IInv
    <3> QED
      BY <3>1, <3>2
  <2> QED
    BY <1>1, <2>1, <2>2 DEF IInv, TypeOK
<1>3. ~durable /\ ~forgotten => lastSent = 0 /\ acked = {}
  BY DEF IInv, Rest, Group, TypeOK
<1>4. Group'
  BY <1>1, <1>3 DEF IInv, Rest, Group, IsMember
<1>5. \A q \in Members : Waiting(q)' = Waiting(q) /\ InHand(q)' = InHand(q)
  BY <1>1 DEF Waiting, InHand
<1>6. Waiting(r) = {} /\ current[r] = None /\ InHand(r) = {}
  BY <1>1, Hands DEF IInv, Rest, HandsByMain, IsMember
<1>7. HandsByMain'
  BY <1>1, <1>5, <1>6 DEF IInv, Rest, HandsByMain, IsMember
<1>8. \A q \in Members : IsMember(q)' => InHand(q)' = {} \/ (IsMember(q) /\ lastSent' = lastSent)
  BY <1>1, <1>5, <1>6 DEF IInv, Rest, Group, IsMember
<1>9. LetGo
  BY <1>1, <1>3, <1>5, <1>8 DEF LetGo
<1> QED
  BY <1>2, <1>4, <1>7, <1>9, LetGoKeeps DEF IInv, Rest

(* An interrupt and the closing of the connection: only main moves.         *)
LEMMA MainStep ==
  ASSUME IInv, NEW r \in Members, Interrupt(r) \/ CloseConnection(r)
  PROVE  IInv'
<1>1. /\ \A q \in Members : q # r => main'[q] = main[q]
      /\ \/ main[r] = "running" /\ main'[r] = "interrupted"
         \/ main[r] = "unsubscribed" /\ main'[r] = "closed"
      /\ UNCHANGED <<published, durable, lastSent, acked, owner, deliveries, inbox, current, step,
                     answered, reported, excused, everAcked, forgotten>>
  BY DEF IInv, TypeOK, Interrupt, CloseConnection, server, callback, history
<1>2. TypeOK'
  <2>1. ends' \in 0 .. MaxEnds
    BY BoundsAssumption DEF IInv, TypeOK, Interrupt, CloseConnection
  <2>2. main' \in [Members -> {"subscribe", "running", "interrupted", "unsubscribed", "closed", "exited"}]
    BY DEF IInv, TypeOK, Interrupt, CloseConnection
  <2> QED
    BY <1>1, <2>1, <2>2 DEF IInv, TypeOK
<1>3. \A q \in Members : /\ IsMember(q)' = IsMember(q)
                         /\ Waiting(q)' = Waiting(q) /\ InHand(q)' = InHand(q)
  BY <1>1 DEF Waiting, InHand, IsMember
<1>4. Group'
  BY <1>1, <1>3 DEF IInv, Rest, Group
<1>5. HandsByMain'
  BY <1>1, <1>3 DEF IInv, Rest, HandsByMain
<1>6. LetGo
  BY <1>1, <1>3 DEF LetGo
<1> QED
  BY <1>2, <1>4, <1>5, <1>6, LetGoKeeps DEF IInv, Rest

LEMMA UnsubscribeStep ==
  ASSUME IInv, NEW r \in Members, Unsubscribe(r)
  PROVE  IInv'
<1>1. /\ \A q \in Members : /\ main'[q] = IF q = r THEN "unsubscribed" ELSE main[q]
                            /\ inbox'[q] = IF q = r THEN <<>> ELSE inbox[q]
      /\ main[r] = "interrupted"
      /\ excused' = excused \union Waiting(r)
      /\ durable' \in {TRUE, \E q \in Members \ {r} : IsMember(q)}
      /\ forgotten' = (forgotten \/ ~durable')
      /\ UNCHANGED <<published, lastSent, acked, deliveries, current, step, ends, answered, reported, everAcked>>
  BY DEF IInv, TypeOK, Unsubscribe, Waiting
<1>2. TypeOK'
  <2>1. /\ owner' \in [Messages -> Members \union {Nobody}]
        /\ inbox' \in [Members -> Seq(Deliveries)]
    BY DEF IInv, TypeOK, Unsubscribe, Disown
  <2>2. main' \in [Members -> {"subscribe", "running", "interrupted", "unsubscribed", "closed", "exited"}]
    BY DEF IInv, TypeOK, Unsubscribe
  <2>3. excused' \subseteq Deliveries
    BY <1>1, Hands DEF IInv, TypeOK
  <2>4. durable' \in BOOLEAN /\ forgotten' \in BOOLEAN
    BY <1>1 DEF IInv, TypeOK
  <2> QED
    BY <1>1, <2>1, <2>2, <2>3, <2>4 DEF IInv, TypeOK
<1>3. \A q \in Members : IsMember(q)' => q # r /\ IsMember(q)
  BY <1>1 DEF IsMember
<1>4. Group'
  BY <1>1, <1>3 DEF IInv, Rest, Group
<1>5. \A q \in Members : /\ Waiting(q)' = IF q = r THEN {} ELSE Waiting(q)
                         /\ q # r => InHand(q)' = InHand(q)
                         /\ InHand(q)' = Waiting(q)' \union ({current[q]} \ {None})
  BY <1>1 DEF Waiting, InHand
<1>6. HandsByMain'
  BY <1>1, <1>5 DEF IInv, Rest, HandsByMain, IsMember
<1>7. \A q \in Members : \A d \in InHand(q) : d \in excused' \/ d \in InHand(q)'
  BY <1>1, <1>5, Hands DEF IInv
<1>8. LetGo
  BY <1>1, <1>3, <1>7 DEF LetGo
<1> QED
  BY <1>2, <1>4, <1>6, <1>8, LetGoKeeps DEF IInv, Rest

LEMMA ExitStep ==
  ASSUME IInv, NEW r \in Members, Exit(r)
  PROVE  IInv'
<1>1. /\ \A q \in Members : /\ main'[q] = IF q = r THEN "exited" ELSE main[q]
                            /\ current'[q] = IF q = r THEN None ELSE current[q]
                            /\ step'[q] = IF q = r THEN "idle" ELSE step[q]
      /\ main[r] = "closed"
      /\ excused' = excused \union InHand(r)
      /\ UNCHANGED <<published, durable, lastSent, acked, owner, deliveries, inbox, ends,
                     answered, reported, everAcked, forgotten>>
  BY DEF IInv, TypeOK, Exit, server
<1>2. TypeOK'
  <2>1. /\ current' \in [Members -> Deliveries \union {None}]
        /\ step' \in [Members -> {"idle", "error", "response", "ack", "ackError"}]
        /\ main' \in [Members -> {"subscribe", "running", "interrupted", "unsubscribed", "closed", "exited"}]
    BY DEF IInv, TypeOK, Exit
  <2>2. excused' \subseteq Deliveries
    BY <1>1, Hands DEF IInv, TypeOK
  <2>3. \A q \in Members : (current'[q] = None) = (step'[q] = "idle")
    BY <1>1 DEF IInv, TypeOK
  <2> QED
    BY <1>1, <2>1, <2>2, <2>3 DEF IInv, TypeOK
<1>3. \A q \in Members : IsMember(q)' = IsMember(q)
  BY <1>1 DEF IsMember
<1>4. Group'
  BY <1>1, <1>3 DEF IInv, Rest, Group
<1>5. \A q \in Members : /\ Waiting(q)' = Waiting(q)
                         /\ q # r => InHand(q)' = InHand(q)
  BY <1>1 DEF Waiting, InHand
<1>6. HandsByMain'
  BY <1>1, <1>3, <1>5 DEF IInv, Rest, HandsByMain
<1>7. \A q \in Members : \A d \in InHand(q) : d \in excused' \/ d \in InHand(q)'
  BY <1>1, <1>5
<1>8. LetGo
  BY <1>1, <1>3, <1>7 DEF LetGo
<1> QED
  BY <1>2, <1>4, <1>6, <1>8, LetGoKeeps DEF IInv, Rest

--------------------------------------------------------------------------------
(* The callback *)

LEMMA InvokeStep ==
  ASSUME IInv, NEW r \in Members, Invoke(r)
  PROVE  IInv'
<1> DEFINE d == Head(inbox[r])
<1>1. /\ step[r] = "idle" /\ inbox[r] # <<>> /\ current[r] = None
      /\ inbox[r] \in Seq(Deliveries)
  BY Hands DEF Invoke, IInv
<1>2. /\ d \in Deliveries /\ d = inbox[r][1] /\ Len(inbox[r]) \in Nat \ {0}
      /\ Tail(inbox[r]) \in Seq(Deliveries) /\ Len(Tail(inbox[r])) = Len(inbox[r]) - 1
      /\ \A i \in 1 .. Len(Tail(inbox[r])) : Tail(inbox[r])[i] = inbox[r][i + 1]
  BY <1>1
<1> HIDE DEF d
<1>3. PICK verdict \in {"response", "error"} : step' = [step EXCEPT ![r] = verdict]
  BY DEF Invoke
<1>4. /\ \A q \in Members : /\ inbox'[q] = IF q = r THEN Tail(inbox[q]) ELSE inbox[q]
                            /\ current'[q] = IF q = r THEN d ELSE current[q]
                            /\ step'[q] = IF q = r THEN verdict ELSE step[q]
      /\ UNCHANGED <<published, durable, lastSent, acked, owner, deliveries, main, ends,
                     answered, reported, excused, everAcked, forgotten>>
  BY <1>3 DEF IInv, TypeOK, Invoke, server, history, d
<1>5. TypeOK'
  <2>1. /\ inbox' \in [Members -> Seq(Deliveries)]
        /\ current' \in [Members -> Deliveries \union {None}]
        /\ step' \in [Members -> {"idle", "error", "response", "ack", "ackError"}]
    BY <1>2, <1>3 DEF IInv, TypeOK, Invoke, d
  <2>2. \A q \in Members : (current'[q] = None) = (step'[q] = "idle")
    BY <1>2, <1>4, IsDelivery DEF IInv, TypeOK
  <2> QED
    BY <1>4, <2>1, <2>2 DEF IInv, TypeOK
<1>6. Group'
  BY <1>4 DEF IInv, Rest, Group, IsMember
<1>7. \A q \in Members : q # r => Waiting(q)' = Waiting(q) /\ InHand(q)' = InHand(q)
  BY <1>4 DEF Waiting, InHand
<1>8. d \in Waiting(r) /\ Waiting(r)' = Waiting(r) \ {d}
  <2>1. d \in Waiting(r)
    BY <1>2 DEF Waiting
  <2>2. Waiting(r)' \subseteq Waiting(r) \ {d}
    <3> SUFFICES ASSUME NEW i \in 1 .. Len(Tail(inbox[r])) PROVE Tail(inbox[r])[i] \in Waiting(r) \ {d}
      BY <1>4 DEF Waiting
    <3>1. i + 1 \in 1 .. Len(inbox[r]) /\ 1 \in 1 .. Len(inbox[r]) /\ i + 1 # 1
      BY <1>2
    <3>2. inbox[r][i + 1] # inbox[r][1]
      BY <3>1 DEF IInv, Rest, InOneHand
    <3> QED
      BY <1>2, <3>1, <3>2 DEF Waiting
  <2>3. Waiting(r) \ {d} \subseteq Waiting(r)'
    <3> SUFFICES ASSUME NEW i \in 1 .. Len(inbox[r]), inbox[r][i] # d
                 PROVE  inbox[r][i] \in Waiting(r)'
      BY DEF Waiting
    <3>1. i - 1 \in 1 .. Len(Tail(inbox[r])) /\ (i - 1) + 1 = i
      BY <1>2
    <3>2. inbox[r][i] = inbox'[r][i - 1]
      BY <1>2, <1>4, <3>1
    <3> QED
      BY <1>4, <3>1, <3>2 DEF Waiting
  <2> QED
    BY <2>1, <2>2, <2>3
<1>9. InHand(r)' = InHand(r)
  <2>1. InHand(r)' = Waiting(r)' \union ({current'[r]} \ {None})
    BY DEF InHand, Waiting
  <2>2. InHand(r) = Waiting(r)
    BY <1>1, Hands DEF IInv
  <2> QED
    BY <1>2, <1>4, <1>8, <2>1, <2>2, IsDelivery
<1>10. HandsByMain'
  BY <1>4, <1>7, <1>8 DEF IInv, Rest, HandsByMain, IsMember
<1>11. AreSent' /\ RepeatsAreExcused'
  BY <1>4, <1>7, <1>9 DEF IInv, Rest, AreSent, RepeatsAreExcused, IsMember
<1>12. InOneHand'
  <2>1. \A p, q \in Members : p # q => InHand(p)' \intersect InHand(q)' = {}
    BY <1>7, <1>9 DEF IInv, Rest, InOneHand
  <2>2. \A q \in Members : current'[q] \notin Waiting(q)'
    BY <1>4, <1>7, <1>8 DEF IInv, Rest, InOneHand
  <2>3. ASSUME NEW q \in Members, NEW i \in 1 .. Len(inbox'[q]), NEW j \in 1 .. Len(inbox'[q]),
               inbox'[q][i] = inbox'[q][j]
        PROVE  i = j
    <3>1. CASE q # r
      BY <1>4, <2>3, <3>1 DEF IInv, Rest, InOneHand
    <3>2. CASE q = r
      <4>0. /\ inbox'[q] = Tail(inbox[r])
            /\ i \in 1 .. Len(Tail(inbox[r])) /\ j \in 1 .. Len(Tail(inbox[r]))
        BY <1>4, <3>2
      <4>1. /\ i + 1 \in 1 .. Len(inbox[r]) /\ j + 1 \in 1 .. Len(inbox[r])
            /\ i \in Int /\ j \in Int
        BY <1>2, <4>0
      <4>2. inbox[r][i + 1] = inbox[r][j + 1]
        BY <1>2, <2>3, <4>0
      <4>3. i + 1 = j + 1
        BY <4>1, <4>2 DEF IInv, Rest, InOneHand
      <4> QED
        BY <4>1, <4>3
    <3> QED
      BY <3>1, <3>2
  <2> QED
    BY <2>1, <2>2, <2>3 DEF InOneHand
<1>13. AnsweredByStep'
  BY <1>3, <1>4, <1>7, <1>8 DEF IInv, Rest, AnsweredByStep
<1> QED
  BY <1>5, <1>6, <1>10, <1>11, <1>12, <1>13 DEF IInv, Rest

(* The callback lets go of its delivery, or keeps it.                       *)
LEMMA ReturnStep ==
  ASSUME IInv, NEW r \in Members,
         \/ Return(r)
         \/ step[r] = "ack" /\ step' = [step EXCEPT ![r] = "ackError"] /\ UNCHANGED current,
         UNCHANGED <<inbox, main>>
  PROVE  /\ \A q \in Members : q # r => current'[q] = current[q] /\ step'[q] = step[q]
         /\ \/ current'[r] = None /\ step'[r] = "idle"
            \/ current'[r] = current[r] /\ step[r] = "ack" /\ step'[r] = "ackError"
         /\ current' \in [Members -> Deliveries \union {None}]
         /\ step' \in [Members -> {"idle", "error", "response", "ack", "ackError"}]
         /\ \A q \in Members : (current'[q] = None) = (step'[q] = "idle")
         /\ \A q \in Members : IsMember(q)' = IsMember(q)
         /\ HandsByMain'
         /\ \A q \in Members : \A d \in InHand(q) : d \in InHand(q)' \/ (q = r /\ d = current[r])
<1>1. /\ \A q \in Members : q # r => current'[q] = current[q] /\ step'[q] = step[q]
      /\ \/ current'[r] = None /\ step'[r] = "idle"
         \/ current'[r] = current[r] /\ step[r] = "ack" /\ step'[r] = "ackError"
      /\ current' \in [Members -> Deliveries \union {None}]
      /\ step' \in [Members -> {"idle", "error", "response", "ack", "ackError"}]
  BY DEF IInv, TypeOK, Return
<1>2. \A q \in Members : (current'[q] = None) = (step'[q] = "idle")
  <2>1. \A q \in Members : current[q] = None <=> step[q] = "idle"
    BY Hands DEF IInv
  <2> QED
    BY <1>1, <2>1
<1>3. \A q \in Members : IsMember(q)' = IsMember(q) /\ Waiting(q)' = Waiting(q)
  BY DEF IsMember, Waiting
<1>4. HandsByMain'
  BY <1>1, <1>3 DEF IInv, Rest, HandsByMain
<1>5. \A q \in Members : InHand(q)' = Waiting(q)' \union ({current'[q]} \ {None})
  BY DEF InHand, Waiting
<1>6. ASSUME NEW q \in Members, NEW d \in InHand(q)
      PROVE  d \in InHand(q)' \/ (q = r /\ d = current[r])
  BY <1>1, <1>3, <1>5, <1>6, Hands DEF IInv
<1> QED
  BY <1>1, <1>2, <1>3, <1>4, <1>6

LEMMA errorHandlerStep ==
  ASSUME IInv, NEW r \in Members, errorHandler(r)
  PROVE  IInv'
<1>1. /\ Return(r) /\ step[r] \in {"error", "ackError"} /\ reported' \subseteq Deliveries
      /\ UNCHANGED <<published, durable, lastSent, acked, owner, deliveries, inbox, main, ends,
                     answered, excused, everAcked, forgotten>>
  <2>1. current[r] \in Deliveries
    BY Hands DEF IInv, errorHandler
  <2> QED
    BY <2>1 DEF IInv, TypeOK, errorHandler, server
<1>2. /\ \A q \in Members : q # r => current'[q] = current[q] /\ step'[q] = step[q]
      /\ current'[r] = None /\ step'[r] = "idle"
      /\ current' \in [Members -> Deliveries \union {None}]
      /\ step' \in [Members -> {"idle", "error", "response", "ack", "ackError"}]
      /\ \A q \in Members : (current'[q] = None) = (step'[q] = "idle")
      /\ \A q \in Members : IsMember(q)' = IsMember(q)
      /\ HandsByMain'
      /\ \A q \in Members : \A d \in InHand(q) : d \in InHand(q)' \/ (q = r /\ d = current[r])
  BY <1>1, ReturnStep
<1>3. TypeOK'
  BY <1>1, <1>2 DEF IInv, TypeOK
<1>4. Group'
  BY <1>1, <1>2 DEF IInv, Rest, Group
<1>5. current[r] \in answered => current[r] \in excused
  BY <1>1 DEF IInv, Rest, AnsweredByStep
<1>6. LetGo
  BY <1>1, <1>2, <1>5 DEF LetGo
<1> QED
  BY <1>2, <1>3, <1>4, <1>6, LetGoKeeps DEF IInv, Rest

LEMMA responseHandlerStep ==
  ASSUME IInv, NEW r \in Members, responseHandler(r)
  PROVE  IInv'
<1>1. /\ step[r] = "response" /\ current[r] \in Deliveries /\ current[r] # None /\ current[r] \notin answered
      /\ current[r] \in InHand(r)
      /\ UNCHANGED <<published, durable, lastSent, acked, owner, deliveries, inbox, main, ends,
                     reported, everAcked, forgotten>>
  BY Hands, IsDelivery DEF IInv, Rest, AnsweredByStep, responseHandler, server
<1>2. CASE Return(r) /\ UNCHANGED <<answered, excused>>
  <2>2. /\ \A q \in Members : q # r => current'[q] = current[q] /\ step'[q] = step[q]
        /\ current'[r] = None /\ step'[r] = "idle"
        /\ current' \in [Members -> Deliveries \union {None}]
        /\ step' \in [Members -> {"idle", "error", "response", "ack", "ackError"}]
        /\ \A q \in Members : (current'[q] = None) = (step'[q] = "idle")
        /\ \A q \in Members : IsMember(q)' = IsMember(q)
        /\ HandsByMain'
        /\ \A q \in Members : \A d \in InHand(q) : d \in InHand(q)' \/ (q = r /\ d = current[r])
    BY <1>1, <1>2, ReturnStep
  <2>3. TypeOK'
    BY <1>1, <1>2, <2>2 DEF IInv, TypeOK
  <2>4. Group'
    BY <1>1, <2>2 DEF IInv, Rest, Group
  <2>5. LetGo
    BY <1>1, <1>2, <2>2 DEF LetGo
  <2> QED
    BY <2>2, <2>3, <2>4, <2>5, LetGoKeeps DEF IInv, Rest
<1>3. CASE /\ answered' = answered \union {current[r]}
           /\ step' = [step EXCEPT ![r] = "ack"] /\ UNCHANGED <<current, excused>>
  <2>1. /\ \A q \in Members : step'[q] = IF q = r THEN "ack" ELSE step[q]
        /\ step' \in [Members -> {"idle", "error", "response", "ack", "ackError"}]
    BY <1>3 DEF IInv, TypeOK
  <2>2. TypeOK'
    <3>1. \A q \in Members : (current'[q] = None) = (step'[q] = "idle")
      BY <1>1, <1>3, <2>1 DEF IInv, TypeOK
    <3> QED
      BY <1>1, <1>3, <2>1, <3>1 DEF IInv, TypeOK
  <2>3. \A q \in Members : /\ IsMember(q)' = IsMember(q)
                           /\ Waiting(q)' = Waiting(q) /\ InHand(q)' = InHand(q)
    BY <1>1, <1>3 DEF IsMember, Waiting, InHand
  <2>4. Group' /\ HandsByMain'
    BY <1>1, <1>3, <2>3 DEF IInv, Rest, Group, HandsByMain
  <2>5. AreSent' /\ InOneHand'
    BY <1>1, <1>3, <2>3 DEF IInv, Rest, AreSent, InOneHand
  <2>6. AnsweredByStep'
    <3>1. ASSUME NEW q \in Members, q # r PROVE current[r] \notin Waiting(q) /\ current[r] # current[q]
      <4>1. current[r] \notin InHand(q)
        BY <1>1, <3>1 DEF IInv, Rest, InOneHand
      <4> QED
        BY <1>1, <3>1, <4>1, Hands DEF IInv
    <3>2. current[r] \notin Waiting(r)
      BY DEF IInv, Rest, InOneHand
    <3> QED
      BY <1>1, <1>3, <2>1, <2>3, <3>1, <3>2 DEF IInv, Rest, AnsweredByStep
  <2>7. RepeatsAreExcused'
    BY <1>1, <1>3, <2>3 DEF IInv, Rest, RepeatsAreExcused
  <2> QED
    BY <2>2, <2>4, <2>5, <2>6, <2>7 DEF IInv, Rest
<1>4. CASE /\ answered' = answered \union {current[r]}
           /\ Return(r) /\ excused' = excused \union {current[r]}
  <2>1. /\ \A q \in Members : q # r => current'[q] = current[q] /\ step'[q] = step[q]
        /\ current'[r] = None /\ step'[r] = "idle"
        /\ current' \in [Members -> Deliveries \union {None}]
        /\ step' \in [Members -> {"idle", "error", "response", "ack", "ackError"}]
        /\ \A q \in Members : (current'[q] = None) = (step'[q] = "idle")
        /\ \A q \in Members : IsMember(q)' = IsMember(q)
        /\ HandsByMain'
        /\ \A q \in Members : \A d \in InHand(q) : d \in InHand(q)' \/ (q = r /\ d = current[r])
    BY <1>1, <1>4, ReturnStep
  <2>2. TypeOK'
    BY <1>1, <1>4, <2>1 DEF IInv, TypeOK
  <2>3. Group'
    BY <1>1, <2>1 DEF IInv, Rest, Group
  <2>4. \A q \in Members : Waiting(q)' = Waiting(q) /\ InHand(q)' \subseteq InHand(q)
    <3>1. \A q \in Members : /\ Waiting(q)' = Waiting(q)
                             /\ InHand(q)' = Waiting(q) \union ({current'[q]} \ {None})
                             /\ InHand(q) = Waiting(q) \union ({current[q]} \ {None})
      BY <1>1 DEF Waiting, InHand
    <3> QED
      BY <2>1, <3>1
  <2>5. AreSent'
    BY <1>1, <1>4, <2>1, <2>4 DEF IInv, Rest, AreSent
  <2>6. InOneHand'
    <3>1. None \notin Waiting(r)
      BY Hands, IsDelivery DEF IInv
    <3> QED
      BY <1>1, <2>1, <2>4, <3>1 DEF IInv, Rest, InOneHand
  <2>7. AnsweredByStep'
    <3>1. ASSUME NEW q \in Members, q # r PROVE current[r] \notin Waiting(q) /\ current[r] # current[q]
      <4>1. current[r] \notin InHand(q)
        BY <1>1, <3>1 DEF IInv, Rest, InOneHand
      <4> QED
        BY <1>1, <3>1, <4>1, Hands DEF IInv
    <3>2. current[r] \notin Waiting(r) /\ None \notin answered
      BY IsDelivery DEF IInv, TypeOK, Rest, InOneHand
    <3> QED
      BY <1>1, <1>4, <2>1, <2>4, <3>1, <3>2 DEF IInv, Rest, AnsweredByStep
  <2>8. RepeatsAreExcused'
    <3> SUFFICES ASSUME ~forgotten
                 PROVE  /\ \A q \in Members : \A d \in InHand(q)' : d[2] < deliveries[d[1]] => d \in excused'
                        /\ \A d \in answered' :
                             /\ d[2] < deliveries[d[1]] => d \in excused'
                             /\ d \in excused' \/ d[1] \in acked \/ \E q \in Members : d \in InHand(q)'
      BY <1>1 DEF RepeatsAreExcused
    <3> QED
      BY <1>4, <2>1, <2>4 DEF IInv, Rest, RepeatsAreExcused
  <2> QED
    BY <2>1, <2>2, <2>3, <2>5, <2>6, <2>7, <2>8 DEF IInv, Rest
<1> QED
  BY <1>2, <1>3, <1>4 DEF responseHandler

LEMMA AckStep ==
  ASSUME IInv, NEW r \in Members, Ack(r)
  PROVE  IInv'
<1> DEFINE d == current[r]
           m == d[1]
<1>1. /\ step[r] = "ack" /\ d \in Deliveries /\ m \in Messages /\ d \in InHand(r) /\ d \in answered
      /\ UNCHANGED <<published, durable, lastSent, deliveries, inbox, main, ends, answered, reported, forgotten>>
  BY Hands, IsDelivery DEF IInv, Rest, AnsweredByStep, Ack
<1>2. \/ /\ IsMember(r) /\ Return(r) /\ UNCHANGED excused
         /\ acked' = acked \union {m} /\ everAcked' = everAcked \union {m}
         /\ owner' = [owner EXCEPT ![m] = Nobody]
      \/ /\ \/ Return(r)
            \/ step' = [step EXCEPT ![r] = "ackError"] /\ UNCHANGED current
         /\ excused' = excused \union {d}
         /\ UNCHANGED <<acked, everAcked, owner>>
  BY DEF Ack
<1> HIDE DEF d, m
<1>3. /\ \A q \in Members : q # r => current'[q] = current[q] /\ step'[q] = step[q]
      /\ \/ current'[r] = None /\ step'[r] = "idle"
         \/ current'[r] = current[r] /\ step[r] = "ack" /\ step'[r] = "ackError"
      /\ current' \in [Members -> Deliveries \union {None}]
      /\ step' \in [Members -> {"idle", "error", "response", "ack", "ackError"}]
      /\ \A q \in Members : (current'[q] = None) = (step'[q] = "idle")
      /\ \A q \in Members : IsMember(q)' = IsMember(q)
      /\ HandsByMain'
      /\ \A q \in Members : \A e \in InHand(q) : e \in InHand(q)' \/ (q = r /\ e = d)
  <2>1. \/ Return(r)
        \/ step[r] = "ack" /\ step' = [step EXCEPT ![r] = "ackError"] /\ UNCHANGED current
    BY <1>1, <1>2
  <2>2. UNCHANGED <<inbox, main>>
    BY <1>1
  <2> QED
    BY <2>1, <2>2, ReturnStep DEF d
<1>4. /\ IsMember(r) => m \in 1 .. lastSent
      /\ 1 .. lastSent \subseteq 1 .. published
  <2>1. IsMember(r) => m <= lastSent
    BY <1>1 DEF IInv, Rest, AreSent, m
  <2> QED
    BY <1>1, <2>1, Counts DEF IInv
<1>5. TypeOK'
  <2>1. /\ acked' \subseteq 1 .. lastSent /\ everAcked' \subseteq Messages /\ excused' \subseteq Deliveries
        /\ owner' \in [Messages -> Members \union {Nobody}]
    BY <1>1, <1>2, <1>4 DEF IInv, TypeOK
  <2> QED
    BY <1>1, <1>3, <2>1 DEF IInv, TypeOK
<1>6. Group'
  BY <1>1, <1>2, <1>3, <1>4 DEF IInv, Rest, Group
<1>7. LetGo
  <2>1. excused \subseteq excused' /\ acked \subseteq acked' /\ (d \in excused' \/ m \in acked')
    BY <1>2
  <2>2. step'[r] = "ackError" => d \in excused'
    BY <1>2, <1>3 DEF Return, IInv, TypeOK
  <2> QED
    BY <1>1, <1>3, <2>1, <2>2 DEF LetGo, d, m
<1> QED
  BY <1>3, <1>5, <1>6, <1>7, LetGoKeeps DEF IInv, Rest

--------------------------------------------------------------------------------
(* Sending *)

(* What a first and a repeated delivery have in common, until the group is  *)
(* forgotten: every delivery of the message before it is excused.           *)
Sends(m, r) ==
  /\ SendTo(m, r)
  /\ m <= lastSent' /\ lastSent <= lastSent' /\ lastSent' \in 0 .. published
  /\ excused \subseteq excused' /\ excused' \subseteq Deliveries
  /\ ~forgotten =>
       \A d \in Deliveries : d[1] = m =>
         /\ \A q \in Members : d \in InHand(q) => d \in excused'
         /\ d \in answered => d \in excused'

LEMMA SendKeeps ==
  ASSUME IInv, NEW r \in Members, NEW m \in Messages, Sends(m, r)
  PROVE  IInv'
<1> DEFINE new == <<m, deliveries[m] + 1>>
<1>0. /\ m \in Nat /\ deliveries[m] \in Nat /\ deliveries[m] < MaxDeliveries /\ IsMember(r)
      /\ lastSent \in Nat /\ lastSent' \in Nat /\ m <= lastSent' /\ lastSent <= lastSent' /\ lastSent' <= published
  BY Counts, BoundsAssumption DEF IInv, Sends, SendTo
<1>1. /\ new \in Deliveries /\ new # None /\ new[1] = m /\ new[2] = deliveries[m] + 1
  BY <1>0, BoundsAssumption DEF Deliveries, None
<1> HIDE DEF new
<1>2. /\ \A n \in Messages : deliveries'[n] = IF n = m THEN deliveries[n] + 1 ELSE deliveries[n]
      /\ \A q \in Members : inbox'[q] = IF q = r THEN Append(inbox[q], new) ELSE inbox[q]
      /\ UNCHANGED <<published, durable, acked, current, step, main, ends, answered, reported,
                     everAcked, forgotten>>
      /\ excused \subseteq excused' /\ excused' \subseteq Deliveries
  BY DEF IInv, TypeOK, Sends, SendTo, new
<1>3. TypeOK'
  <2>1. deliveries' \in [Messages -> 0 .. MaxDeliveries]
    BY <1>0, BoundsAssumption DEF IInv, TypeOK, Sends, SendTo
  <2>2. inbox' \in [Members -> Seq(Deliveries)]
    BY <1>1 DEF IInv, TypeOK, Sends, SendTo, new
  <2>3. owner' \in [Messages -> Members \union {Nobody}]
    BY DEF IInv, TypeOK, Sends, SendTo
  <2>4. lastSent' \in 0 .. published' /\ acked' \subseteq 1 .. lastSent'
    <3>1. 1 .. lastSent \subseteq 1 .. lastSent'
      BY <1>0
    <3> QED
      BY <1>2, <3>1 DEF IInv, TypeOK, Sends
  <2> QED
    BY <1>2, <2>1, <2>2, <2>3, <2>4 DEF IInv, TypeOK
<1>4. \A n \in Messages : n \in Nat /\ deliveries[n] \in Nat /\ deliveries[n] <= deliveries'[n]
  BY <1>0, <1>2, Counts DEF IInv
<1>5. Group'
  <2>1. durable /\ \A q \in Members : IsMember(q)' = IsMember(q)
    BY <1>0, <1>2 DEF IInv, Rest, Group, IsMember
  <2>2. ~forgotten => \A n \in Messages : n > lastSent' => deliveries'[n] = 0
    BY <1>0, <1>2, <1>4 DEF IInv, Rest, Group
  <2> QED
    BY <1>2, <2>1, <2>2 DEF IInv, Rest, Group
<1>6. /\ inbox[r] \in Seq(Deliveries) /\ Len(inbox[r]) \in Nat
      /\ Len(inbox'[r]) = Len(inbox[r]) + 1
      /\ inbox'[r][Len(inbox[r]) + 1] = new
      /\ \A i \in 1 .. Len(inbox[r]) : inbox'[r][i] = inbox[r][i]
  <2>1. inbox[r] \in Seq(Deliveries) /\ inbox'[r] = Append(inbox[r], new)
    BY <1>2, Hands DEF IInv
  <2> QED
    BY <1>1, <2>1
<1>7. \A q \in Members : q # r => Waiting(q)' = Waiting(q) /\ InHand(q)' = InHand(q)
  BY <1>2 DEF Waiting, InHand
<1>8. Waiting(r)' = Waiting(r) \union {new}
  <2>1. 1 .. Len(inbox'[r]) = (1 .. Len(inbox[r])) \union {Len(inbox[r]) + 1}
    BY <1>6
  <2>2. Waiting(r)' = {inbox'[r][i] : i \in 1 .. Len(inbox'[r])}
    BY DEF Waiting
  <2> QED
    BY <1>6, <2>1, <2>2 DEF Waiting
<1>9. InHand(r)' = InHand(r) \union {new}
  <2>1. InHand(r)' = Waiting(r)' \union ({current'[r]} \ {None})
    BY DEF InHand, Waiting
  <2>2. InHand(r) = Waiting(r) \union ({current[r]} \ {None})
    BY DEF InHand, Waiting
  <2> QED
    BY <1>2, <1>8, <2>1, <2>2
<1>10. /\ \A q \in Members : new \notin InHand(q) /\ new # current[q]
       /\ new \notin answered
  <2>1. /\ \A q \in Members : \A d \in InHand(q) : d[2] <= deliveries[d[1]]
        /\ \A d \in answered : d[2] <= deliveries[d[1]]
    BY DEF IInv, Rest, AreSent
  <2>2. ~ (new[2] <= deliveries[new[1]])
    BY <1>0, <1>1
  <2> QED
    BY <1>1, <2>1, <2>2, Hands DEF IInv
<1>11. HandsByMain'
  BY <1>0, <1>2, <1>7 DEF IInv, Rest, HandsByMain, IsMember
<1>12. AreSent'
  <2>1. ASSUME NEW q \in Members, NEW d \in InHand(q)
        PROVE  d[2] <= deliveries'[d[1]] /\ (IsMember(q)' => d[1] <= lastSent')
    <3>1. d \in Deliveries /\ d[2] <= deliveries[d[1]] /\ (IsMember(q) => d[1] <= lastSent)
      BY <2>1, Hands DEF IInv, Rest, AreSent
    <3>2. d[1] \in Messages /\ d[1] \in Nat /\ d[2] \in Nat /\ deliveries'[d[1]] \in Nat
      BY <1>3, <3>1, IsDelivery, BoundsAssumption DEF TypeOK
    <3> QED
      BY <1>0, <1>2, <1>4, <3>1, <3>2 DEF IsMember
  <2>2. ASSUME NEW d \in answered PROVE d[2] <= deliveries'[d[1]]
    <3>1. d \in Deliveries /\ d[2] <= deliveries[d[1]]
      BY DEF IInv, TypeOK, Rest, AreSent
    <3>2. d[1] \in Messages /\ d[2] \in Nat /\ deliveries'[d[1]] \in Nat
      BY <1>3, <3>1, IsDelivery, BoundsAssumption DEF TypeOK
    <3> QED
      BY <1>4, <3>1, <3>2
  <2>3. new[2] <= deliveries'[new[1]] /\ new[1] <= lastSent'
    BY <1>0, <1>1, <1>2
  <2> QED
    BY <1>2, <1>7, <1>9, <2>1, <2>2, <2>3 DEF AreSent
<1>13. InOneHand'
  <2>1. \A p, q \in Members : p # q => InHand(p)' \intersect InHand(q)' = {}
    BY <1>7, <1>9, <1>10 DEF IInv, Rest, InOneHand
  <2>2. \A q \in Members : current'[q] \notin Waiting(q)'
    BY <1>2, <1>7, <1>8, <1>10 DEF IInv, Rest, InOneHand
  <2>3. ASSUME NEW q \in Members, NEW i \in 1 .. Len(inbox'[q]), NEW j \in 1 .. Len(inbox'[q]),
               inbox'[q][i] = inbox'[q][j]
        PROVE  i = j
    <3>1. CASE q # r
      BY <1>2, <2>3, <3>1 DEF IInv, Rest, InOneHand
    <3>2. CASE q = r
      <4>1. \A k \in 1 .. Len(inbox[r]) : inbox[r][k] # new
        BY <1>10, Hands DEF IInv, Waiting
      <4>2. /\ i \in 1 .. Len(inbox[r]) \/ i = Len(inbox[r]) + 1
            /\ j \in 1 .. Len(inbox[r]) \/ j = Len(inbox[r]) + 1
        BY <1>6, <3>2
      <4> QED
        BY <1>6, <2>3, <3>2, <4>1, <4>2 DEF IInv, Rest, InOneHand
    <3> QED
      BY <3>1, <3>2
  <2> QED
    BY <2>1, <2>2, <2>3 DEF InOneHand
<1>14. AnsweredByStep'
  BY <1>2, <1>7, <1>8, <1>10 DEF IInv, Rest, AnsweredByStep
<1>15. RepeatsAreExcused'
  <2> SUFFICES ASSUME ~forgotten
               PROVE  /\ \A q \in Members : \A d \in InHand(q)' : d[2] < deliveries'[d[1]] => d \in excused'
                      /\ \A d \in answered :
                           /\ d[2] < deliveries'[d[1]] => d \in excused'
                           /\ d \in excused' \/ d[1] \in acked \/ \E q \in Members : d \in InHand(q)'
    BY <1>2 DEF RepeatsAreExcused
  <2>1. ASSUME NEW d \in Deliveries, d[2] < deliveries'[d[1]],
               d \in answered \/ \E q \in Members : d \in InHand(q)
        PROVE  d \in excused'
    <3>1. CASE d[1] = m
      BY <2>1, <3>1 DEF Sends
    <3>2. CASE d[1] # m
      BY <1>2, <2>1, <3>2, IsDelivery DEF IInv, Rest, RepeatsAreExcused
    <3> QED
      BY <3>1, <3>2
  <2>2. ~ (new[2] < deliveries'[new[1]])
    BY <1>0, <1>1, <1>2
  <2>3. \A d \in answered : d \in excused' \/ d[1] \in acked \/ \E q \in Members : d \in InHand(q)'
    BY <1>2, <1>7, <1>9 DEF IInv, Rest, RepeatsAreExcused
  <2>4. answered \subseteq Deliveries
    BY DEF IInv, TypeOK
  <2> QED
    BY <1>7, <1>9, <2>1, <2>2, <2>3, <2>4, Hands DEF IInv
<1> QED
  BY <1>3, <1>5, <1>11, <1>12, <1>13, <1>14, <1>15 DEF IInv, Rest

LEMMA DeliverStep ==
  ASSUME IInv, NEW r \in Members, Deliver(r)
  PROVE  IInv'
<1> DEFINE m == lastSent + 1
<1>1. m \in Messages /\ lastSent' = m /\ SendTo(m, r) /\ excused' = excused
  <2>1. /\ published \in Nat /\ lastSent \in Nat /\ MaxMessage \in Nat
        /\ lastSent < published /\ published <= MaxMessage
    BY Counts, BoundsAssumption DEF IInv, Deliver
  <2>2. m \in Messages
    BY <2>1 DEF Messages
  <2> QED
    BY <2>2 DEF Deliver
<1>2. lastSent' \in 0 .. published /\ m <= lastSent' /\ lastSent <= lastSent' /\ m > lastSent
  BY <1>1, Counts DEF IInv, Deliver
<1> HIDE DEF m
<1>3. ASSUME ~forgotten, NEW d \in Deliveries, d[1] = m
      PROVE  d \notin answered /\ \A q \in Members : d \notin InHand(q)
  <2>1. deliveries[m] = 0
    BY <1>1, <1>2, <1>3 DEF IInv, Rest, Group
  <2>2. ~ (d[2] <= deliveries[d[1]])
    BY <1>3, <2>1, IsDelivery
  <2> QED
    BY <2>2 DEF IInv, Rest, AreSent
<1>4. Sends(m, r)
  BY <1>1, <1>2, <1>3 DEF Sends, IInv, TypeOK
<1> QED
  BY <1>1, <1>4, SendKeeps

LEMMA RedeliverStep ==
  ASSUME IInv, NEW r \in Members, NEW m \in Messages, Redeliver(m, r)
  PROVE  IInv'
<1>1. /\ m \in 1 .. lastSent /\ m \notin acked /\ SendTo(m, r) /\ lastSent' = lastSent
      /\ excused' = excused \union UNION {InHand(q) \intersect DeliveriesOf(m) : q \in Members}
  BY DEF Redeliver
<1>2. lastSent' \in 0 .. published /\ m <= lastSent' /\ lastSent <= lastSent'
  BY <1>1, Counts DEF IInv, TypeOK
<1>3. excused \subseteq excused' /\ excused' \subseteq Deliveries
  BY <1>1 DEF IInv, TypeOK, DeliveriesOf
<1>4. \A q \in Members : \A d \in Deliveries : d[1] = m /\ d \in InHand(q) => d \in excused'
  BY <1>1 DEF DeliveriesOf
<1>5. ASSUME ~forgotten, NEW d \in answered, d[1] = m PROVE d \in excused'
  BY <1>1, <1>3, <1>4, <1>5 DEF IInv, TypeOK, Rest, RepeatsAreExcused
<1>6. Sends(m, r)
  BY <1>1, <1>2, <1>3, <1>4, <1>5 DEF Sends
<1> QED
  BY <1>6, SendKeeps

--------------------------------------------------------------------------------
(* The theorems *)

LEMMA StutterStep ==
  ASSUME IInv, UNCHANGED vars
  PROVE  IInv'
<1>1. TypeOK'
  BY DEF vars, server, callback, history, IInv, TypeOK
<1>2. \A q \in Members : /\ IsMember(q)' = IsMember(q)
                         /\ Waiting(q)' = Waiting(q) /\ InHand(q)' = InHand(q)
  BY DEF vars, callback, IsMember, Waiting, InHand
<1>3. Group' /\ HandsByMain'
  BY <1>2 DEF vars, server, callback, history, IInv, Rest, Group, HandsByMain
<1>4. LetGo
  BY <1>2 DEF vars, server, callback, history, LetGo
<1> QED
  BY <1>1, <1>3, <1>4, LetGoKeeps DEF IInv, Rest

LEMMA NextInv == IInv /\ [Next]_vars => IInv'
<1> SUFFICES ASSUME IInv, [Next]_vars PROVE IInv'
  OBVIOUS
<1>1. CASE Publish
  BY <1>1, PublishStep
<1>2. ASSUME NEW r \in Members, Deliver(r) \/ Crash(r) \/ Interrupt(r) \/ Main(r) PROVE IInv'
  BY <1>2, DeliverStep, CrashStep, MainStep, SubscribeStep, UnsubscribeStep, ExitStep DEF Main
<1>3. ASSUME NEW r \in Members, Callback(r) PROVE IInv'
  BY <1>3, InvokeStep, errorHandlerStep, responseHandlerStep, AckStep DEF Callback
<1>4. ASSUME NEW r \in Members, NEW m \in Messages, Redeliver(m, r) PROVE IInv'
  BY <1>4, RedeliverStep
<1>5. CASE UNCHANGED vars
  BY <1>5, StutterStep
<1> QED
  BY <1>1, <1>2, <1>3, <1>4, <1>5 DEF Next

(* Type correctness; with it, a callback is idle just when it handles no    *)
(* delivery, and what is acknowledged was sent.                             *)
THEOREM TypeCorrect == Spec => []TypeOK
<1>1. IInv => TypeOK
  BY DEF IInv
<1> QED
  BY InitInv, NextInv, <1>1, PTL DEF Spec

(* A response is published again only after a delivery that is excused (for *)
(* instance as publishing was reported to have failed although it had not), *)
(* or after the group was forgotten.                                        *)
THEOREM NoResponseRepeated == Spec => []ResponseIsNotRepeated
<1>1. IInv => ResponseIsNotRepeated
  <2> SUFFICES ASSUME IInv, NEW m \in Messages, NEW d \in answered \intersect DeliveriesOf(m),
                      NEW e \in answered \intersect DeliveriesOf(m), d[2] < e[2], ~forgotten
               PROVE  d \in excused
    BY DEF ResponseIsNotRepeated
  <2>1. d \in Deliveries /\ e \in Deliveries /\ d[1] = m /\ e[1] = m
    BY DEF DeliveriesOf
  <2>2. d[2] \in Nat /\ e[2] \in Nat /\ deliveries[m] \in Nat
    BY <2>1, IsDelivery, Counts DEF IInv
  <2>3. e[2] <= deliveries[m]
    BY <2>1 DEF IInv, Rest, AreSent
  <2> QED
    BY <2>1, <2>2, <2>3 DEF IInv, Rest, RepeatsAreExcused
<1> QED
  BY InitInv, NextInv, <1>1, PTL DEF Spec

(* While the group is not forgotten, which takes the successful             *)
(* unsubscription of its last member, no acknowledged message is sent again.*)
THEOREM AckedNotRedelivered == Spec => AckedIsNeverRedelivered
<1> DEFINE Kept == \A m \in everAcked : deliveries'[m] # deliveries[m] => forgotten
<1>1. ASSUME IInv, Next PROVE Kept
  <2> SUFFICES ASSUME NEW n \in everAcked, ~forgotten PROVE deliveries'[n] = deliveries[n]
    OBVIOUS
  <2>1. n \in Messages /\ n \in acked /\ n \in 1 .. lastSent /\ lastSent \in Nat
    BY <1>1, Counts DEF IInv, TypeOK, Rest, Group
  <2>2. ASSUME NEW r \in Members, NEW m, SendTo(m, r), m # n PROVE deliveries'[n] = deliveries[n]
    BY <1>1, <2>1, <2>2 DEF SendTo, IInv, TypeOK
  <2>3. CASE Publish
    BY <2>3 DEF Publish
  <2>4. ASSUME NEW r \in Members, Deliver(r) PROVE deliveries'[n] = deliveries[n]
    <3>1. SendTo(lastSent + 1, r) /\ lastSent + 1 # n
      BY <2>1, <2>4 DEF Deliver
    <3> QED
      BY <2>2, <3>1
  <2>5. ASSUME NEW r \in Members, NEW m \in Messages, Redeliver(m, r) PROVE deliveries'[n] = deliveries[n]
    <3>1. SendTo(m, r) /\ m # n
      BY <2>1, <2>5 DEF Redeliver
    <3> QED
      BY <2>2, <3>1
  <2>6. ASSUME NEW r \in Members, Crash(r) \/ Interrupt(r) \/ Main(r) PROVE deliveries'[n] = deliveries[n]
    BY <2>6 DEF Crash, Interrupt, Main, Subscribe, Unsubscribe, CloseConnection, Exit, server
  <2>7. ASSUME NEW r \in Members, Callback(r) PROVE deliveries'[n] = deliveries[n]
    BY <2>7 DEF Callback, Invoke, errorHandler, responseHandler, Ack, server
  <2> QED
    BY <1>1, <2>3, <2>4, <2>5, <2>6, <2>7 DEF Next
<1>2. IInv /\ [Next]_vars => [Kept]_vars
  BY <1>1
<1> QED
  BY InitInv, NextInv, <1>2, PTL DEF Spec, AckedIsNeverRedelivered

--------------------------------------------------------------------------------
(* The refinement of AtLeastOnce *)

Source(m) == IF m > published THEN "absent" ELSE IF m \in everAcked THEN "removed" ELSE "kept"
Concluded(m) == Cardinality(answered \intersect DeliveriesOf(m))

LEMMA OneMore ==
  ASSUME NEW m, NEW n \in Nat, NEW S \in SUBSET ({m} \X (1 .. n)), NEW d \in {m} \X (1 .. n), d \notin S
  PROVE  Cardinality(S) < n /\ Cardinality(S \union {d}) = Cardinality(S) + 1
<1>1. IsFiniteSet({m}) /\ Cardinality({m}) = 1
  BY FS_Singleton
<1>2. IsFiniteSet(1 .. n) /\ Cardinality(1 .. n) = n
  BY FS_Interval
<1>3. IsFiniteSet({m} \X (1 .. n)) /\ Cardinality({m} \X (1 .. n)) = n
  BY <1>1, <1>2, FS_Product
<1>4. IsFiniteSet(S) /\ Cardinality(S \union {d}) <= n
  BY <1>3, FS_Subset
<1>5. Cardinality(S \union {d}) = Cardinality(S) + 1
  BY <1>4, FS_AddElement
<1> QED
  BY <1>4, <1>5, FS_CardinalityType

LEMMA SomeCount ==
  ASSUME NEW m, NEW S \in SUBSET ({m} \X (1 .. MaxDeliveries)), NEW d \in S
  PROVE  Cardinality(S) > 0
<1>1. IsFiniteSet(1 .. MaxDeliveries)
  <2>1. MaxDeliveries \in Int
    BY BoundsAssumption
  <2> QED
    BY <2>1, FS_Interval
<1>2. IsFiniteSet(S)
  <2>1. IsFiniteSet({m})
    BY FS_Singleton
  <2>2. IsFiniteSet({m} \X (1 .. MaxDeliveries))
    BY <1>1, <2>1, FS_Product
  <2> QED
    BY <2>2, FS_Subset
<1> QED
  BY <1>2, FS_EmptySet, FS_CardinalityType

LEMMA InitMaps == Init => Promise!Init
<1> SUFFICES ASSUME Init PROVE Promise!Init
  OBVIOUS
<1>1. \A m \in Messages : answered \intersect DeliveriesOf(m) = {}
  BY DEF Init
<1>2. [m \in Messages |-> Concluded(m)] = [m \in Messages |-> 0]
  BY <1>1, FS_EmptySet DEF Concluded
<1>3. [m \in Messages |-> Source(m)] \in [Messages -> {"absent", "kept"}]
  BY DEF Init, Source
<1> QED
  BY <1>2, <1>3 DEF Init, Promise!Init, Source, Concluded

LEMMA NextMaps == IInv /\ [Next]_vars => [Promise!Next]_(Promise!vars)
<1> SUFFICES ASSUME IInv, [Next]_vars PROVE [Promise!Next]_(Promise!vars)
  OBVIOUS
<1>0. TypeOK /\ Group /\ AreSent /\ AnsweredByStep /\ answered \subseteq Deliveries
  BY DEF IInv, Rest, TypeOK
<1> DEFINE source == [m \in Messages |-> Source(m)]
           concluded == [m \in Messages |-> Concluded(m)]
<1>01. UNCHANGED <<source, deliveries, concluded>> => UNCHANGED Promise!vars
  BY DEF Promise!vars, Source, Concluded
<1>02. ASSUME answered' = answered PROVE concluded' = concluded
  BY <1>02 DEF Concluded, DeliveriesOf
<1>03. ASSUME published' = published, everAcked' = everAcked PROVE source' = source
  BY <1>03 DEF Source
<1> USE DEF server, callback, history
<1>1. CASE Publish
  <2>0. published \in Nat /\ MaxMessage \in Nat /\ published < MaxMessage
    BY <1>0, <1>1, Counts, BoundsAssumption DEF Publish
  <2>1. PICK m \in Messages : m = published + 1 /\ published' = m
    BY <1>1, <2>0 DEF Publish, Messages
  <2>2. m \notin everAcked /\ everAcked' = everAcked
    BY <1>0, <1>1, <2>0, <2>1 DEF Group, Publish
  <2>3. source[m] = "absent"
    BY <2>0, <2>1 DEF Source
  <2>4. source' = [source EXCEPT ![m] = "kept"]
    <3>1. ASSUME NEW n \in Messages, n # m PROVE Source(n)' = Source(n)
      <4>1. n \in Nat /\ (n > m <=> n > published)
        BY <1>0, <2>0, <2>1, <3>1, Counts
      <4> QED
        BY <2>1, <2>2, <4>1 DEF Source
    <3>2. Source(m)' = "kept"
      BY <2>0, <2>1, <2>2 DEF Source
    <3> QED
      BY <3>1, <3>2
  <2>5. concluded' = concluded /\ deliveries' = deliveries
    BY <1>1, <1>02 DEF Publish
  <2>6. Promise!Put(m)
    BY <2>3, <2>4, <2>5 DEF Promise!Put, Source, Concluded
  <2> QED
    BY <2>1, <2>6 DEF Promise!Next
<1>2. ASSUME NEW r \in Members, NEW m \in Messages, SendTo(m, r), m <= published
      PROVE  [Promise!Next]_(Promise!vars)
  <2>1. \A n \in {m} : source[n] # "absent"
    BY <1>0, <1>2, Counts DEF Source
  <2>2. source' = source /\ concluded' = concluded
    BY <1>2, <1>02, <1>03 DEF SendTo
  <2>3. deliveries' = [n \in Messages |-> IF n \in {m} THEN deliveries[n] + 1 ELSE deliveries[n]]
    BY <1>0, <1>2 DEF SendTo, TypeOK
  <2>4. Promise!Deliver({m})
    BY <2>1, <2>2, <2>3 DEF Promise!Deliver, Source, Concluded
  <2> QED
    BY <2>4 DEF Promise!Next
<1>3. ASSUME NEW r \in Members, Deliver(r) PROVE [Promise!Next]_(Promise!vars)
  <2>1. /\ published \in Nat /\ lastSent \in Nat /\ MaxMessage \in Nat
        /\ lastSent < published /\ published <= MaxMessage
    BY <1>0, <1>3, Counts, BoundsAssumption DEF Deliver
  <2>2. lastSent + 1 \in Messages /\ lastSent + 1 <= published
    BY <2>1 DEF Messages
  <2> QED
    BY <1>2, <1>3, <2>2 DEF Deliver
<1>4. ASSUME NEW r \in Members, NEW m \in Messages, Redeliver(m, r) PROVE [Promise!Next]_(Promise!vars)
  <2>1. m <= published
    BY <1>0, <1>4, Counts DEF Redeliver
  <2> QED
    BY <1>2, <1>4, <2>1 DEF Redeliver
<1>5. ASSUME NEW r \in Members,
             Crash(r) \/ Interrupt(r) \/ Main(r) \/ Invoke(r) \/ errorHandler(r)
      PROVE  UNCHANGED Promise!vars
  <2>1. UNCHANGED <<published, everAcked, deliveries, answered>>
    BY <1>5 DEF Crash, Interrupt, Main, Subscribe, Unsubscribe, CloseConnection, Exit, Invoke, errorHandler
  <2> QED
    BY <1>01, <1>02, <1>03, <2>1
<1>6. ASSUME NEW r \in Members, responseHandler(r) PROVE [Promise!Next]_(Promise!vars)
  <2> DEFINE d == current[r]
             m == d[1]
             S == answered \intersect DeliveriesOf(m)
  <2>1. source' = source /\ deliveries' = deliveries
    BY <1>6, <1>03 DEF responseHandler
  <2>2. CASE answered' = answered
    BY <1>01, <1>02, <2>1, <2>2
  <2>3. CASE answered' = answered \union {d}
    <3>1. d \in Deliveries /\ d \in InHand(r) /\ d \notin answered
      BY <1>0, <1>6, Hands DEF responseHandler, AnsweredByStep
    <3>2. m \in Messages /\ d[2] \in Nat \ {0} /\ deliveries[m] \in Nat /\ d[2] <= deliveries[m]
      BY <1>0, <3>1, IsDelivery, Counts DEF AreSent
    <3>3. d \in {m} \X (1 .. deliveries[m])
      BY <3>1, <3>2, IsDelivery
    <3>4. ASSUME NEW e \in S PROVE e \in {m} \X (1 .. deliveries[m])
      <4>1. e \in Deliveries /\ e[1] = m /\ e[2] <= deliveries[m]
        BY <1>0 DEF DeliveriesOf, AreSent
      <4>2. e = <<m, e[2]>> /\ e[2] \in Nat \ {0}
        BY <4>1, IsDelivery
      <4> QED
        BY <3>2, <4>1, <4>2
    <3>5. Cardinality(S) < deliveries[m] /\ Cardinality(S \union {d}) = Cardinality(S) + 1
      <4> DEFINE n == deliveries[m]
      <4>1. n \in Nat /\ d \in {m} \X (1 .. n) /\ S \in SUBSET ({m} \X (1 .. n)) /\ d \notin S
        BY <3>1, <3>2, <3>3, <3>4
      <4> HIDE DEF S, d, m, n
      <4>2. Cardinality(S) < n /\ Cardinality(S \union {d}) = Cardinality(S) + 1
        BY ONLY <4>1, OneMore
      <4> QED
        BY <4>2 DEF n
    <3>6. answered' \intersect DeliveriesOf(m) = S \union {d}
      BY <2>3, <3>1 DEF DeliveriesOf
    <3>7. \A n \in Messages : n # m => answered' \intersect DeliveriesOf(n) = answered \intersect DeliveriesOf(n)
      BY <2>3 DEF DeliveriesOf
    <3>8. \A n \in Messages : DeliveriesOf(n)' = DeliveriesOf(n)
      BY DEF DeliveriesOf
    <3>9. concluded[m] < deliveries[m] /\ concluded' = [concluded EXCEPT ![m] = @ + 1]
      BY <3>2, <3>5, <3>6, <3>7, <3>8 DEF Concluded
    <3>10. Promise!Conclude(m)
      BY <2>1, <3>9 DEF Promise!Conclude, Source, Concluded
    <3> QED
      BY <3>2, <3>10 DEF Promise!Next
  <2> QED
    BY <1>6, <2>2, <2>3 DEF responseHandler
<1>7. ASSUME NEW r \in Members, Ack(r) PROVE [Promise!Next]_(Promise!vars)
  <2>0. PICK d \in Deliveries, m \in Messages : d = current[r] /\ m = d[1]
    BY <1>0, <1>7, Hands, IsDelivery DEF Ack, AnsweredByStep
  <2> DEFINE S == answered \intersect DeliveriesOf(m)
  <2>1. concluded' = concluded /\ deliveries' = deliveries /\ published' = published
    BY <1>7, <1>02 DEF Ack
  <2>2. CASE everAcked' = everAcked
    BY <1>01, <1>03, <2>1, <2>2
  <2>3. CASE IsMember(r) /\ everAcked' = everAcked \union {m} /\ m \notin everAcked
    <3>1. d \in Deliveries /\ d \in InHand(r) /\ d \in answered
      BY <1>0, <1>7, <2>0, Hands DEF Ack, AnsweredByStep
    <3>2. m \in Messages /\ m \in Nat /\ m <= lastSent
      BY <1>0, <2>0, <2>3, <3>1, IsDelivery DEF AreSent
    <3>3. ~ (m > published)
      BY <1>0, <3>2, Counts
    <3>4. source[m] = "kept"
      BY <2>3, <3>2, <3>3 DEF Source
    <3>5. source' = [source EXCEPT ![m] = "removed"]
      <4>1. \A n \in Messages : Source(n)' = IF n = m THEN "removed" ELSE Source(n)
        BY <2>1, <2>3, <3>3 DEF Source
      <4> QED
        BY <4>1
    <3>6. concluded[m] > 0
      <4>1. d \in S
        BY <2>0, <3>1 DEF DeliveriesOf
      <4>2. S \in SUBSET ({m} \X (1 .. MaxDeliveries))
        BY DEF DeliveriesOf, Deliveries
      <4>3. Cardinality(S) > 0
        <5> HIDE DEF S
        <5> QED
          BY <4>1, <4>2, SomeCount
      <4> QED
        BY <3>2, <4>3 DEF Concluded
    <3>7. Promise!Remove(m)
      BY <2>1, <3>4, <3>5, <3>6 DEF Promise!Remove, Source, Concluded
    <3> QED
      BY <3>2, <3>7 DEF Promise!Next
  <2> QED
    BY <1>7, <2>0, <2>2, <2>3 DEF Ack
<1>8. CASE UNCHANGED vars
  BY <1>8, <1>01, <1>02, <1>03 DEF vars
<1> QED
  BY <1>1, <1>3, <1>4, <1>5, <1>6, <1>7, <1>8 DEF Next, Callback

(* The server takes a message as acknowledged only when the response of one *)
(* of its deliveries was published; the responses published for a message   *)
(* are never more than its deliveries.                                      *)
THEOREM ImplementsAtLeastOnce == Spec => RefinesAtLeastOnce
  BY InitMaps, NextMaps, InitInv, NextInv, PTL DEF Spec, RefinesAtLeastOnce, Promise!Spec

================================================================================
