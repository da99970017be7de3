---------------------------------- MODULE Kafka_proofs ----------------------------------
(***************************************************************************)
(* Proofs about the two modules of the Kafka connector.  The claims, for   *)
(* any number of replicas, messages, generations and crashes: the commit   *)
(* skips nothing, ends at a response and never goes back, a group that is  *)
(* not disturbed answers every message once, and the whole implements      *)
(* LogConsumer.  The process, however often Consume is called: no sequence *)
(* of sessions closes conn.ready twice, and the producer outlives the      *)
(* claims.                                                                 *)
(***************************************************************************)
EXTENDS KafkaClaim, KafkaReady, TLAPS

(* The offsets of a session are in order, and only a session that has       *)
(* fetched a message is handling one.                                       *)
InOrder ==
  \A m \in Members :
    /\ sess[m].start <= sess[m].mark /\ sess[m].mark <= sess[m].next
    /\ sess[m].next <= sess[m].fetched /\ sess[m].gen <= generation
    /\ sess[m].phase # "idle" => sess[m].gen > 0 /\ sess[m].next < sess[m].fetched

(* Every generation has at most one session, and the commit is not ahead of *)
(* the marks of the current one.                                            *)
OnePerGeneration ==
  \A m, n \in Members : sess[m].gen = sess[n].gen /\ sess[m].gen > 0 => m = n
CommitIsBehind ==
  \A m \in Members : sess[m].gen = generation => committed <= sess[m].mark

(* What a session has gone past is finished.                                *)
PassedIsFinished ==
  OffsetsInitial = "oldest" =>
    \A m \in Members : \A o \in Offsets : o < sess[m].next => o \in finished

(* A mark that has moved is that of a response.                             *)
MarkEndsAtResponse ==
  ResponseTopicSet =>
    \A m \in Members : sess[m].mark > sess[m].start => responses[sess[m].mark - 1] > 0

(* An undisturbed group has at most one session, and all responses lie below*)
(* its mark, or below the commit if the mark has not moved.                 *)
Undisturbed ==
  ~disturbed =>
    /\ \A m \in Members : sess[m].gen \in {0, generation}
    /\ \A o \in Offsets :
         /\ responses[o] \in {0, 1}
         /\ responses[o] > 0 =>
              \A m \in Members : sess[m].gen > 0 =>
                o < sess[m].mark /\ (sess[m].mark = sess[m].start => o < committed)
         /\ (\A m \in Members : sess[m].gen = 0) => (responses[o] > 0 => o < committed)

IInv ==
  /\ TypeOK /\ InOrder /\ OnePerGeneration /\ CommitIsBehind
  /\ PassedIsFinished /\ CommittedIsFinished
  /\ MarkEndsAtResponse /\ CommitEndsAtResponse
  /\ Undisturbed

LEMMA InitInv == Init => IInv
<1> SUFFICES ASSUME Init PROVE IInv
  OBVIOUS
<1>1. NoSession \in Sessions
  BY BoundsAssumption DEF NoSession, SessionAt, Sessions, Phases
<1>2. TypeOK
  <2>1. 0 \in 0 .. MaxOffset /\ 1 \in 1 .. MaxGeneration /\ 0 \in 0 .. MaxCrashes
    BY BoundsAssumption
  <2> QED
    BY <1>1, <2>1 DEF Init, TypeOK
<1>3. \A m \in Members : /\ sess[m].gen = 0 /\ sess[m].start = 0 /\ sess[m].mark = 0 /\ sess[m].next = 0
                         /\ sess[m].fetched = 0 /\ sess[m].phase = "idle"
  BY DEF Init, NoSession, SessionAt
<1>4. \A o \in Offsets : o \in Nat
  BY DEF Offsets
<1>5. InOrder /\ OnePerGeneration /\ CommitIsBehind
  BY <1>3 DEF Init, InOrder, OnePerGeneration, CommitIsBehind
<1>6. PassedIsFinished /\ CommittedIsFinished /\ MarkEndsAtResponse /\ CommitEndsAtResponse
  BY <1>3, <1>4 DEF Init, PassedIsFinished, CommittedIsFinished, MarkEndsAtResponse, CommitEndsAtResponse, NoOffset
<1>7. Undisturbed
  BY <1>3 DEF Init, Undisturbed
<1> QED
  BY <1>2, <1>5, <1>6, <1>7 DEF IInv

--------------------------------------------------------------------------------
(* Facts about sessions *)

LEMMA Fields ==
  ASSUME TypeOK
  PROVE  /\ \A m \in Members :
              /\ sess[m] \in Sessions
              /\ sess[m].gen \in Nat /\ sess[m].start \in Nat /\ sess[m].mark \in Nat
              /\ sess[m].next \in Nat /\ sess[m].fetched \in Nat /\ sess[m].fetched <= MaxOffset
              /\ sess[m].phase \in Phases
         /\ generation \in Nat \ {0} /\ committed \in Int /\ logEnd \in Nat /\ logEnd <= MaxOffset
         /\ \A o \in Offsets : o \in Nat /\ responses[o] \in Nat
<1>1. \A m \in Members : sess[m] \in Sessions
  BY DEF TypeOK
<1>2. \A s \in Sessions : /\ s.gen \in Nat /\ s.start \in Nat /\ s.mark \in Nat
                          /\ s.next \in Nat /\ s.fetched \in Nat /\ s.fetched <= MaxOffset
                          /\ s.phase \in Phases
  BY BoundsAssumption DEF Sessions
<1>3. generation \in Nat \ {0} /\ committed \in Int /\ logEnd \in Nat /\ logEnd <= MaxOffset
  BY BoundsAssumption DEF TypeOK, NoOffset
<1>4. \A o \in Offsets : o \in Nat /\ responses[o] \in Nat
  BY DEF TypeOK, Offsets
<1> QED
  BY <1>1, <1>2, <1>3, <1>4

(* The fields of the sessions after a step of replica m.                    *)
Same(n) == sess'[n] = sess[n]
SameBut(m, ph, over, fetched) ==
  \A n \in Members :
    IF n = m THEN /\ sess'[n].gen = sess[n].gen /\ sess'[n].start = sess[n].start
                  /\ sess'[n].mark = sess[n].mark /\ sess'[n].next = sess[n].next
                  /\ sess'[n].fetched = fetched /\ sess'[n].phase = ph
                  /\ sess'[n].cancelled = over
    ELSE Same(n)

LEMMA EnterFacts ==
  ASSUME TypeOK, NEW m \in Members, NEW ph \in Phases, Enter(m, ph)
  PROVE  /\ sess' \in [Members -> Sessions]
         /\ SameBut(m, ph, sess[m].cancelled, sess[m].fetched)
<1>1. sess' = [sess EXCEPT ![m].phase = ph] /\ sess \in [Members -> Sessions]
  BY DEF Enter, TypeOK
<1> QED
  BY <1>1 DEF SameBut, Same, Sessions

LEMMA FetchFacts ==
  ASSUME TypeOK, NEW m \in Members, Fetch(m)
  PROVE  /\ sess' \in [Members -> Sessions]
         /\ SameBut(m, sess[m].phase, sess[m].cancelled, sess[m].fetched + 1)
<1>1. sess' = [sess EXCEPT ![m].fetched = @ + 1] /\ sess \in [Members -> Sessions]
  BY DEF Fetch, TypeOK
<1>2. sess[m].fetched + 1 \in 0 .. MaxOffset
  BY Fields, BoundsAssumption DEF Fetch
<1> QED
  BY <1>1, <1>2 DEF SameBut, Same, Sessions

LEMMA CancelFacts ==
  ASSUME TypeOK, NEW m \in Members, CancelSession(m)
  PROVE  /\ sess' \in [Members -> Sessions]
         /\ SameBut(m, sess[m].phase, TRUE, sess[m].fetched)
<1>1. sess' = [sess EXCEPT ![m].cancelled = TRUE] /\ sess \in [Members -> Sessions]
  BY DEF CancelSession, TypeOK
<1> QED
  BY <1>1 DEF SameBut, Same, Sessions

LEMMA FinishFacts ==
  ASSUME TypeOK, InOrder, NEW m \in Members, NEW mark \in BOOLEAN, Finish(m, mark), ~In(m, "idle")
  PROVE  /\ sess' \in [Members -> Sessions]
         /\ \A n \in Members :
              IF n = m THEN /\ sess'[n].gen = sess[n].gen /\ sess'[n].start = sess[n].start
                            /\ sess'[n].next = sess[n].next + 1 /\ sess'[n].fetched = sess[n].fetched
                            /\ sess'[n].phase = "idle"
                            /\ sess'[n].mark = IF mark THEN sess[n].next + 1 ELSE sess[n].mark
              ELSE Same(n)
         /\ finished' = finished \union {sess[m].next} /\ sess[m].next \in Offsets
         /\ sess[m].gen > 0 /\ sess[m].next < sess[m].fetched
<1>1. /\ sess' = [sess EXCEPT ![m].phase = "idle", ![m].next = @ + 1,
                              ![m].mark = IF mark THEN sess[m].next + 1 ELSE @]
      /\ sess \in [Members -> Sessions]
  BY DEF Finish, TypeOK
<1>2. sess[m].gen > 0 /\ sess[m].next < sess[m].fetched
  BY DEF InOrder, In
<1>3. sess[m].next + 1 \in 0 .. MaxOffset /\ sess[m].next \in Offsets
  BY <1>2, Fields, BoundsAssumption DEF Offsets
<1>4. /\ sess' \in [Members -> Sessions]
      /\ \A n \in Members :
           IF n = m THEN /\ sess'[n].gen = sess[n].gen /\ sess'[n].start = sess[n].start
                         /\ sess'[n].next = sess[n].next + 1 /\ sess'[n].fetched = sess[n].fetched
                         /\ sess'[n].phase = "idle"
                         /\ sess'[n].mark = IF mark THEN sess[n].next + 1 ELSE sess[n].mark
           ELSE Same(n)
  BY <1>1, <1>3 DEF Sessions, Phases, Same
<1> QED
  BY <1>2, <1>3, <1>4 DEF Finish

(* A session that begins or ends.                                           *)
LEMMA SessionFacts ==
  ASSUME NEW m \in Members, sess \in [Members -> Sessions], NEW g \in 0 .. MaxGeneration,
         NEW o \in 0 .. MaxOffset, sess' = [sess EXCEPT ![m] = SessionAt(g, o)]
  PROVE  /\ sess' \in [Members -> Sessions]
         /\ \A n \in Members :
              IF n = m THEN /\ sess'[n].gen = g /\ sess'[n].start = o /\ sess'[n].mark = o
                            /\ sess'[n].next = o /\ sess'[n].fetched = o /\ sess'[n].phase = "idle"
              ELSE Same(n)
<1>1. SessionAt(g, o) \in Sessions
  BY DEF SessionAt, Sessions, Phases
<1> QED
  BY <1>1 DEF SessionAt, Same

LEMMA EndFacts ==
  ASSUME TypeOK, NEW m \in Members, sess' = [sess EXCEPT ![m] = NoSession]
  PROVE  /\ sess' \in [Members -> Sessions]
         /\ \A n \in Members :
              IF n = m THEN /\ sess'[n].gen = 0 /\ sess'[n].start = 0 /\ sess'[n].mark = 0
                            /\ sess'[n].next = 0 /\ sess'[n].fetched = 0 /\ sess'[n].phase = "idle"
              ELSE Same(n)
<1>1. 0 \in 0 .. MaxGeneration /\ 0 \in 0 .. MaxOffset
  BY BoundsAssumption
<1> QED
  BY <1>1, SessionFacts DEF NoSession, TypeOK

LEMMA RebalanceFacts ==
  ASSUME TypeOK, NEW m \in Members, Rebalance(m)
  PROVE  /\ sess' \in [Members -> Sessions] /\ StartOffset \in 0 .. MaxOffset
         /\ \A n \in Members :
              IF n = m THEN /\ sess'[n].gen = generation + 1 /\ sess'[n].start = StartOffset
                            /\ sess'[n].mark = StartOffset /\ sess'[n].next = StartOffset
                            /\ sess'[n].fetched = StartOffset /\ sess'[n].phase = "idle"
              ELSE Same(n)
         /\ generation' = generation + 1 /\ generation + 1 \in 1 .. MaxGeneration
         /\ StartOffset >= committed
<1>1. generation + 1 \in 1 .. MaxGeneration /\ generation + 1 \in 0 .. MaxGeneration
  BY BoundsAssumption DEF TypeOK, Rebalance
<1>2. StartOffset \in 0 .. MaxOffset /\ StartOffset >= committed
  BY BoundsAssumption DEF TypeOK, StartOffset, NoOffset
<1> HIDE DEF StartOffset
<1> QED
  BY <1>1, <1>2, SessionFacts DEF Rebalance, TypeOK

--------------------------------------------------------------------------------
(* Every step keeps the types. *)

LEMMA TypeStep == TypeOK /\ InOrder /\ [Next]_vars => TypeOK'
<1> SUFFICES ASSUME TypeOK, InOrder, [Next]_vars PROVE TypeOK'
  OBVIOUS
<1> USE DEF group, history, Unmoved
<1>1. CASE Produce
  BY <1>1, BoundsAssumption DEF Produce, TypeOK
<1>2. CASE StartRebalance
  BY <1>2 DEF StartRebalance, TypeOK
<1>3. ASSUME NEW m \in Members, Receive(m) \/ Respond(m) \/ Fail(m) \/ ReadBody(m) PROVE TypeOK'
  <2>1. PICK ph \in Phases : Enter(m, ph)
    BY <1>3 DEF Receive, Respond, Fail, ReadBody, Phases
  <2>2. UNCHANGED <<logEnd, committed, group, history, disturbed>>
    BY <1>3 DEF Receive, Respond, Fail, ReadBody
  <2>3. sess' \in [Members -> Sessions]
    BY <2>1, EnterFacts
  <2> QED
    BY <2>2, <2>3 DEF TypeOK
<1>4. ASSUME NEW m \in Members, errorHandler(m) \/ responseHandler(m) PROVE TypeOK'
  <2>1. PICK mark \in BOOLEAN : Finish(m, mark)
    BY <1>4 DEF errorHandler, responseHandler
  <2>2. sess' \in [Members -> Sessions] /\ finished' \subseteq Offsets /\ sess[m].next \in Offsets
    <3>1. ~In(m, "idle")
      BY <1>4 DEF errorHandler, responseHandler, In
    <3> QED
      BY <2>1, <3>1, FinishFacts DEF TypeOK
  <2>3. errors' \subseteq Offsets /\ responses' \in [Offsets -> Nat]
    <3>1. errors' = errors \/ errors' = errors \union {sess[m].next}
      BY <1>4 DEF errorHandler, responseHandler
    <3>2. \/ responses' = responses
          \/ responses' = [responses EXCEPT ![sess[m].next] = IF ResponseTopicSet THEN @ + 1 ELSE @]
      BY <1>4 DEF errorHandler, responseHandler
    <3> QED
      BY <2>2, <3>1, <3>2 DEF TypeOK
  <2>4. UNCHANGED <<logEnd, committed, group, disturbed>>
    BY <1>4 DEF errorHandler, responseHandler
  <2> QED
    BY <2>2, <2>3, <2>4 DEF TypeOK
<1>5. ASSUME NEW m \in Members, Fetch(m) PROVE TypeOK'
  <2>1. sess' \in [Members -> Sessions]
    BY <1>5, FetchFacts
  <2> QED
    BY <1>5, <2>1 DEF Fetch, TypeOK
<1>6. ASSUME NEW m \in Members, CancelSession(m) PROVE TypeOK'
  <2>1. sess' \in [Members -> Sessions]
    BY <1>6, CancelFacts
  <2> QED
    BY <1>6, <2>1 DEF CancelSession, TypeOK
<1>7. ASSUME NEW m \in Members, CommitMarks(m) PROVE committed' \in {NoOffset} \union 0 .. MaxOffset
  <2>1. sess[m].mark \in 0 .. MaxOffset
    BY DEF TypeOK, Sessions
  <2> QED
    BY <1>7, <2>1 DEF CommitMarks, TypeOK
<1>8. ASSUME NEW m \in Members, AutoCommit(m) PROVE TypeOK'
  BY <1>7, <1>8 DEF AutoCommit, TypeOK
<1>9. ASSUME NEW m \in Members, Release(m) PROVE TypeOK'
  <2>1. sess' \in [Members -> Sessions]
    BY <1>9, EndFacts DEF Release
  <2>2. committed' \in {NoOffset} \union 0 .. MaxOffset /\ disturbed' \in BOOLEAN
    BY <1>7, <1>9 DEF Release, TypeOK
  <2>3. UNCHANGED <<logEnd, group, history>>
    BY <1>9 DEF Release
  <2> QED
    BY <2>1, <2>2, <2>3 DEF TypeOK
<1>10. ASSUME NEW m \in Members, Rebalance(m) PROVE TypeOK'
  <2>1. sess' \in [Members -> Sessions] /\ generation' \in 1 .. MaxGeneration
    BY <1>10, RebalanceFacts
  <2>2. disturbed' \in BOOLEAN
    BY <1>10 DEF Rebalance
  <2> QED
    BY <1>10, <2>1, <2>2 DEF Rebalance, TypeOK
<1>11. ASSUME NEW m \in Members, Crash(m) PROVE TypeOK'
  <2>1. sess' \in [Members -> Sessions]
    BY <1>11, EndFacts DEF Crash
  <2>2. crashes' \in 0 .. MaxCrashes /\ joining' \in BOOLEAN
    BY <1>11, BoundsAssumption DEF Crash, TypeOK
  <2> QED
    BY <1>11, <2>1, <2>2 DEF Crash, TypeOK
<1>12. CASE UNCHANGED vars
  BY <1>12 DEF vars, TypeOK
<1> QED
  <2>1. ASSUME NEW m \in Members, ConsumeClaim(m) PROVE TypeOK'
    BY <1>3, <1>4, <2>1 DEF ConsumeClaim
  <2>2. ASSUME NEW m \in Members, Session(m) PROVE TypeOK'
    BY <1>5, <1>6, <1>9, <1>10, <2>2 DEF Session
  <2> QED
    BY <1>1, <1>2, <1>8, <1>11, <1>12, <2>1, <2>2 DEF Next

--------------------------------------------------------------------------------
(* Every step keeps the invariant. *)

Rest ==
  /\ InOrder /\ OnePerGeneration /\ CommitIsBehind
  /\ PassedIsFinished /\ CommittedIsFinished
  /\ MarkEndsAtResponse /\ CommitEndsAtResponse
  /\ Undisturbed

(* Steps that neither mark, commit nor conclude anything.                   *)
LEMMA KeepRest ==
  ASSUME TypeOK, Rest, NEW m \in Members, NEW ph, NEW over, NEW fetched \in Nat,
         SameBut(m, ph, over, fetched), sess[m].fetched <= fetched,
         ph # "idle" => sess[m].gen > 0 /\ sess[m].next < fetched,
         UNCHANGED <<committed, generation, finished, responses, disturbed>>
  PROVE  Rest'
<1>1. \A n \in Members :
        /\ sess'[n].gen = sess[n].gen /\ sess'[n].start = sess[n].start
        /\ sess'[n].mark = sess[n].mark /\ sess'[n].next = sess[n].next
        /\ IF n = m THEN sess'[n].fetched = fetched /\ sess'[n].phase = ph
           ELSE sess'[n].fetched = sess[n].fetched /\ sess'[n].phase = sess[n].phase
  BY DEF SameBut, Same
<1>2. InOrder'
  BY <1>1, Fields DEF Rest, InOrder
<1>3. OnePerGeneration' /\ CommitIsBehind'
  BY <1>1 DEF Rest, OnePerGeneration, CommitIsBehind
<1>4. PassedIsFinished' /\ CommittedIsFinished'
  BY <1>1 DEF Rest, PassedIsFinished, CommittedIsFinished
<1>5. MarkEndsAtResponse' /\ CommitEndsAtResponse'
  BY <1>1 DEF Rest, MarkEndsAtResponse, CommitEndsAtResponse
<1>6. Undisturbed'
  BY <1>1 DEF Rest, Undisturbed
<1> QED
  BY <1>2, <1>3, <1>4, <1>5, <1>6 DEF Rest

(* The loop body ends.                                                      *)
LEMMA FinishRest ==
  ASSUME TypeOK, Rest, NEW m \in Members, NEW mark \in BOOLEAN, Finish(m, mark), ~In(m, "idle"),
         UNCHANGED <<committed, generation, disturbed>>,
         \/ ~mark /\ responses' = responses
         \/ mark /\ responses' = [responses EXCEPT ![sess[m].next] = IF ResponseTopicSet THEN @ + 1 ELSE @]
  PROVE  Rest'
<1> DEFINE at == sess[m].next
<1>0. InOrder
  BY DEF Rest
<1>1. /\ \A n \in Members :
           IF n = m THEN /\ sess'[n].gen = sess[n].gen /\ sess'[n].start = sess[n].start
                         /\ sess'[n].next = at + 1 /\ sess'[n].fetched = sess[n].fetched
                         /\ sess'[n].phase = "idle"
                         /\ sess'[n].mark = IF mark THEN at + 1 ELSE sess[n].mark
           ELSE sess'[n] = sess[n]
      /\ finished' = finished \union {at} /\ at \in Offsets /\ at \in Nat
      /\ sess[m].gen > 0 /\ at < sess[m].fetched /\ sess[m].next = at
  BY <1>0, FinishFacts, Fields DEF Same
<1>2. /\ \A o \in Offsets : o # at => responses'[o] = responses[o]
      /\ responses[at] \in Nat
      /\ responses'[at] = IF mark /\ ResponseTopicSet THEN responses[at] + 1 ELSE responses[at]
  BY <1>1, Fields DEF TypeOK
<1>3. \A o \in Offsets : o \in Nat /\ responses[o] \in Nat
  BY Fields
<1>4. /\ sess[m].mark <= at /\ sess[m].start <= sess[m].mark
      /\ sess[m].mark \in Nat /\ sess[m].start \in Nat /\ sess[m].fetched \in Nat
  BY <1>0, Fields DEF InOrder
<1> HIDE DEF at
<1>5. InOrder'
  BY <1>0, <1>1, <1>4 DEF InOrder
<1>6. OnePerGeneration'
  BY <1>1 DEF Rest, OnePerGeneration
<1>7. CommitIsBehind'
  BY <1>1, <1>4, Fields DEF Rest, CommitIsBehind
<1>8. PassedIsFinished' /\ CommittedIsFinished'
  <2>1. \A o \in Offsets : o < at + 1 => o < at \/ o = at
    <3>1. at \in Nat
      BY <1>1
    <3>2. \A o \in Offsets : o \in Nat
      BY <1>3
    <3> QED
      BY <3>1, <3>2
  <2>2. PassedIsFinished'
    BY <1>1, <2>1 DEF Rest, PassedIsFinished
  <2>3. CommittedIsFinished'
    BY <1>1 DEF Rest, CommittedIsFinished
  <2> QED
    BY <2>2, <2>3
<1>9. MarkEndsAtResponse'
  <2> SUFFICES ASSUME ResponseTopicSet, NEW n \in Members, sess'[n].mark > sess'[n].start
               PROVE  responses'[sess'[n].mark - 1] > 0
    BY DEF MarkEndsAtResponse
  <2>1. CASE n = m /\ mark
    <3>1. sess'[n].mark - 1 = at
      BY <1>1, <2>1
    <3> QED
      BY <1>2, <2>1, <3>1
  <2>2. CASE ~(n = m /\ mark)
    <3>1. sess[n].mark > sess[n].start /\ sess'[n].mark = sess[n].mark
      BY <1>1, <2>2
    <3>2. responses[sess[n].mark - 1] > 0
      BY <3>1 DEF Rest, MarkEndsAtResponse
    <3>3. sess[n].mark - 1 \in Offsets
      <4>1. /\ sess[n].mark \in Nat /\ sess[n].start \in Nat /\ sess[n].mark <= MaxOffset
        BY <1>0, Fields, BoundsAssumption DEF InOrder
      <4> QED
        BY <3>1, <4>1, BoundsAssumption DEF Offsets
    <3> QED
      BY <1>2, <1>3, <3>1, <3>2, <3>3
  <2> QED
    BY <2>1, <2>2
<1>10. CommitEndsAtResponse'
  <2> SUFFICES ASSUME ResponseTopicSet, committed > 0 PROVE responses'[committed - 1] > 0
    BY DEF CommitEndsAtResponse
  <2>1. responses[committed - 1] > 0
    BY DEF Rest, CommitEndsAtResponse
  <2>2. committed - 1 \in Offsets
    BY BoundsAssumption DEF TypeOK, Offsets, NoOffset
  <2> QED
    BY <1>2, <1>3, <2>1, <2>2
<1>11. Undisturbed'
  <2> SUFFICES ASSUME ~disturbed PROVE
        /\ \A n \in Members : sess'[n].gen \in {0, generation}
        /\ \A o \in Offsets :
             /\ responses'[o] \in {0, 1}
             /\ responses'[o] > 0 =>
                  \A n \in Members : sess'[n].gen > 0 =>
                    o < sess'[n].mark /\ (sess'[n].mark = sess'[n].start => o < committed)
             /\ (\A n \in Members : sess'[n].gen = 0) => (responses'[o] > 0 => o < committed)
    BY DEF Undisturbed
  <2>1. /\ \A n \in Members : sess[n].gen \in {0, generation}
        /\ \A o \in Offsets :
             /\ responses[o] \in {0, 1}
             /\ responses[o] > 0 => o < sess[m].mark /\ (sess[m].mark = sess[m].start => o < committed)
    BY <1>1 DEF Rest, Undisturbed
  <2>2. responses[at] = 0
    BY <1>1, <1>3, <1>4, <2>1
  <2>3. \A n \in Members : sess[n].gen > 0 => n = m
    BY <1>1, <2>1 DEF Rest, OnePerGeneration
  <2>4. \A n \in Members : sess'[n].gen = sess[n].gen
    BY <1>1
  <2>5. \A o \in Offsets : responses'[o] \in {0, 1}
    BY <1>2, <2>1, <2>2
  <2>6. ASSUME NEW o \in Offsets, responses'[o] > 0
        PROVE  o < sess'[m].mark /\ (sess'[m].mark = sess'[m].start => o < committed)
    <3>1. CASE mark
      <4>1. o < at + 1
        BY <1>1, <1>2, <1>3, <1>4, <2>1, <2>6
      <4>2. sess'[m].mark = at + 1 /\ sess'[m].start = sess[m].start /\ sess[m].start < at + 1
        BY <1>1, <1>4, <3>1
      <4> QED
        BY <1>4, <4>1, <4>2
    <3>2. CASE ~mark
      BY <1>1, <1>2, <2>1, <2>2, <2>6, <3>2
    <3> QED
      BY <3>1, <3>2
  <2> QED
    BY <1>1, <2>1, <2>3, <2>4, <2>5, <2>6
<1> QED
  BY <1>5, <1>6, <1>7, <1>8, <1>9, <1>10, <1>11 DEF Rest

(* A commit, by a session that goes on.                                     *)
LEMMA CommitFacts ==
  ASSUME TypeOK, Rest, NEW m \in Members, CommitMarks(m)
  PROVE  /\ committed' >= committed /\ committed' \in Int
         /\ committed' = committed
            \/ (committed' = sess[m].mark /\ sess[m].mark > sess[m].start /\ sess[m].gen = generation)
         /\ finished' = finished => CommittedIsFinished'
         /\ responses' = responses => CommitEndsAtResponse'
         /\ \A n \in Members : sess[n].gen = generation => committed' <= sess[n].mark
<1>1. \/ committed' = committed
      \/ committed' = sess[m].mark /\ sess[m].mark > sess[m].start /\ sess[m].gen = generation
  BY DEF CommitMarks, Current
<1>2. committed \in Int /\ sess[m].mark \in Nat /\ generation > 0 /\ sess[m].next \in Nat /\ sess[m].start \in Nat
  BY Fields
<1>3. committed' >= committed /\ committed' \in Int
  BY <1>1, <1>2 DEF Rest, CommitIsBehind
<1>4. \A n \in Members : sess[n].gen = generation => committed' <= sess[n].mark
  BY <1>1, <1>2, Fields DEF Rest, CommitIsBehind, OnePerGeneration
<1>5. ASSUME finished' = finished PROVE CommittedIsFinished'
  <2>1. \A o \in Offsets : o < sess[m].mark => o < sess[m].next
    BY <1>2, Fields DEF Rest, InOrder
  <2> QED
    BY <1>1, <1>5, <2>1 DEF Rest, CommittedIsFinished, PassedIsFinished
<1>6. ASSUME responses' = responses PROVE CommitEndsAtResponse'
  BY <1>1, <1>6 DEF Rest, CommitEndsAtResponse, MarkEndsAtResponse
<1> QED
  BY <1>1, <1>3, <1>4, <1>5, <1>6

LEMMA NextInv == IInv /\ [Next]_vars => IInv'
<1> SUFFICES ASSUME IInv, [Next]_vars PROVE IInv'
  OBVIOUS
<1>0. TypeOK /\ Rest
  BY DEF IInv, Rest
<1>01. TypeOK'
  BY <1>0, TypeStep DEF Rest
<1> USE DEF group, history, Unmoved
<1>1. ASSUME Produce \/ StartRebalance PROVE Rest'
  <2>1. UNCHANGED <<committed, generation, sess, finished, responses, disturbed>>
    BY <1>1 DEF Produce, StartRebalance
  <2> QED
    BY <1>0, <2>1 DEF Rest, InOrder, OnePerGeneration, CommitIsBehind, PassedIsFinished, CommittedIsFinished,
       MarkEndsAtResponse, CommitEndsAtResponse, Undisturbed
<1>2. ASSUME NEW m \in Members, Receive(m) \/ Respond(m) \/ Fail(m) \/ ReadBody(m) PROVE Rest'
  <2>1. PICK ph \in Phases : Enter(m, ph)
    BY <1>2 DEF Receive, Respond, Fail, ReadBody, Phases
  <2>2. UNCHANGED <<committed, generation, finished, responses, disturbed>>
    BY <1>2 DEF Receive, Respond, Fail, ReadBody
  <2>3. sess[m].gen > 0 /\ sess[m].next < sess[m].fetched
    BY <1>0, <1>2 DEF Receive, HasSession, Respond, Fail, ReadBody, In, Rest, InOrder
  <2> QED
    BY <1>0, <2>1, <2>2, <2>3, EnterFacts, Fields, KeepRest
<1>3. ASSUME NEW m \in Members, errorHandler(m) \/ responseHandler(m) PROVE Rest'
  <2>1. ~In(m, "idle") /\ UNCHANGED <<committed, generation, disturbed>>
    BY <1>3 DEF errorHandler, responseHandler, In
  <2>2. \/ Finish(m, FALSE) /\ responses' = responses
        \/ /\ Finish(m, TRUE)
           /\ responses' = [responses EXCEPT ![sess[m].next] = IF ResponseTopicSet THEN @ + 1 ELSE @]
    BY <1>3 DEF errorHandler, responseHandler
  <2> QED
    BY <1>0, <2>1, <2>2, FinishRest
<1>4. ASSUME NEW m \in Members, Fetch(m) PROVE Rest'
  <2>1. SameBut(m, sess[m].phase, sess[m].cancelled, sess[m].fetched + 1)
    BY <1>0, <1>4, FetchFacts
  <2>2. UNCHANGED <<committed, generation, finished, responses, disturbed>>
    BY <1>4 DEF Fetch
  <2>3. /\ sess[m].fetched + 1 \in Nat /\ sess[m].fetched <= sess[m].fetched + 1
        /\ sess[m].phase # "idle" => sess[m].gen > 0 /\ sess[m].next < sess[m].fetched + 1
    BY <1>0, Fields DEF Rest, InOrder
  <2> QED
    BY <1>0, <2>1, <2>2, <2>3, KeepRest
<1>5. ASSUME NEW m \in Members, CancelSession(m) PROVE Rest'
  <2>1. SameBut(m, sess[m].phase, TRUE, sess[m].fetched)
    BY <1>0, <1>5, CancelFacts
  <2>2. UNCHANGED <<committed, generation, finished, responses, disturbed>>
    BY <1>5 DEF CancelSession
  <2>3. /\ sess[m].fetched \in Nat /\ sess[m].fetched <= sess[m].fetched
        /\ sess[m].phase # "idle" => sess[m].gen > 0 /\ sess[m].next < sess[m].fetched
    BY <1>0, Fields DEF Rest, InOrder
  <2> QED
    BY <1>0, <2>1, <2>2, <2>3, KeepRest
<1>6. ASSUME NEW m \in Members, AutoCommit(m) PROVE Rest'
  <2>1. /\ sess' = sess /\ generation' = generation /\ finished' = finished /\ responses' = responses
        /\ disturbed' = disturbed /\ CommitMarks(m) /\ sess[m].gen > 0
    BY <1>6 DEF AutoCommit, HasSession
  <2>2. CommittedIsFinished' /\ CommitEndsAtResponse' /\ CommitIsBehind'
    BY <1>0, <2>1, CommitFacts DEF CommitIsBehind
  <2>3. Undisturbed'
    <3> SUFFICES ASSUME ~disturbed, NEW o \in Offsets, responses[o] > 0, NEW n \in Members, sess[n].gen > 0,
                        sess[n].mark = sess[n].start
                 PROVE  o < committed'
      BY <1>0, <2>1 DEF Rest, Undisturbed
    <3>1. o < committed
      BY <1>0 DEF Rest, Undisturbed
    <3> QED
      BY <1>0, <2>1, <3>1, CommitFacts, Fields
  <2> QED
    BY <1>0, <2>1, <2>2, <2>3 DEF Rest, InOrder, OnePerGeneration, PassedIsFinished, MarkEndsAtResponse
<1>7. ASSUME NEW m \in Members, sess' = [sess EXCEPT ![m] = NoSession],
             UNCHANGED <<generation, finished, responses>>,
             \A n \in Members : n # m /\ sess[n].gen = generation => committed' <= sess[n].mark,
             committed' \in Int, CommittedIsFinished', CommitEndsAtResponse', Undisturbed',
             committed' = committed \/ sess[m].gen = generation
      PROVE  Rest'
  <2>1. /\ \A n \in Members :
             IF n = m THEN /\ sess'[n].gen = 0 /\ sess'[n].start = 0 /\ sess'[n].mark = 0
                           /\ sess'[n].next = 0 /\ sess'[n].fetched = 0 /\ sess'[n].phase = "idle"
             ELSE sess'[n] = sess[n]
        /\ generation \in Nat \ {0} /\ \A o \in Offsets : o \in Nat
    BY <1>0, <1>7, EndFacts, Fields DEF Same
  <2>2. InOrder' /\ OnePerGeneration'
    BY <1>0, <1>7, <2>1 DEF Rest, InOrder, OnePerGeneration
  <2>3. CommitIsBehind'
    BY <1>0, <1>7, <2>1 DEF Rest, CommitIsBehind
  <2>4. PassedIsFinished' /\ MarkEndsAtResponse'
    BY <1>0, <1>7, <2>1 DEF Rest, PassedIsFinished, MarkEndsAtResponse
  <2> QED
    BY <1>7, <2>2, <2>3, <2>4 DEF Rest
<1>8. ASSUME NEW m \in Members, Release(m) PROVE Rest'
  <2>1. /\ sess' = [sess EXCEPT ![m] = NoSession] /\ UNCHANGED <<generation, finished, responses>>
        /\ (CommitMarks(m) /\ disturbed' = disturbed) \/ (committed' = committed /\ disturbed' = TRUE)
        /\ sess[m].cancelled
    BY <1>8 DEF Release
  <2>2. \A n \in Members :
             IF n = m THEN sess'[n].gen = 0 ELSE sess'[n] = sess[n]
    BY <1>0, <2>1, EndFacts DEF Same
  <2>3. CASE committed' = committed /\ disturbed' = TRUE
    <3>1. Undisturbed' /\ CommittedIsFinished' /\ CommitEndsAtResponse' /\ committed' \in Int
      BY <1>0, <2>1, <2>3, Fields DEF Undisturbed, Rest, CommittedIsFinished, CommitEndsAtResponse
    <3>2. \A n \in Members : sess[n].gen = generation => committed' <= sess[n].mark
      BY <1>0, <2>3 DEF Rest, CommitIsBehind
    <3> QED
      BY <1>7, <2>1, <2>3, <3>1, <3>2
  <2>4. CASE CommitMarks(m) /\ disturbed' = disturbed
    <3>1. /\ committed' \in Int /\ CommittedIsFinished' /\ CommitEndsAtResponse'
          /\ \A n \in Members : sess[n].gen = generation => committed' <= sess[n].mark
          /\ committed' >= committed
          /\ committed' = committed \/ (committed' = sess[m].mark /\ sess[m].gen = generation)
      BY <1>0, <2>1, <2>4, CommitFacts
    <3>2. Undisturbed'
      <4> SUFFICES ASSUME ~disturbed PROVE
            /\ \A n \in Members : sess'[n].gen \in {0, generation}
            /\ \A o \in Offsets :
                 /\ responses[o] \in {0, 1}
                 /\ responses[o] > 0 =>
                      \A n \in Members : sess'[n].gen > 0 =>
                        o < sess'[n].mark /\ (sess'[n].mark = sess'[n].start => o < committed')
                 /\ (\A n \in Members : sess'[n].gen = 0) => (responses[o] > 0 => o < committed')
        BY <2>1, <2>4 DEF Undisturbed
      <4>1. /\ \A n \in Members : sess[n].gen \in {0, generation}
            /\ \A o \in Offsets :
                 /\ responses[o] \in {0, 1}
                 /\ responses[o] > 0 => \A n \in Members : sess[n].gen > 0 =>
                        o < sess[n].mark /\ (sess[n].mark = sess[n].start => o < committed)
                 /\ (\A n \in Members : sess[n].gen = 0) => (responses[o] > 0 => o < committed)
        BY <1>0 DEF Rest, Undisturbed
      <4>2. \A o \in Offsets : o \in Nat /\ committed \in Int /\ (o < committed => o < committed')
        BY <1>0, <3>1, Fields
      <4>3. ASSUME NEW o \in Offsets, responses[o] > 0, NEW n \in Members, sess'[n].gen > 0
            PROVE  o < sess'[n].mark /\ (sess'[n].mark = sess'[n].start => o < committed')
        BY <2>2, <4>1, <4>2, <4>3
      <4>4. ASSUME NEW o \in Offsets, responses[o] > 0, \A n \in Members : sess'[n].gen = 0
            PROVE  o < committed'
        <5>1. CASE sess[m].gen = 0
          BY <2>2, <4>1, <4>2, <4>4, <5>1
        <5>2. CASE sess[m].gen > 0
          <6>1. sess[m].gen = generation /\ o < sess[m].mark
            BY <4>1, <4>4, <5>2
          <6>2. CASE sess[m].mark = sess[m].start
            BY <4>1, <4>2, <4>4, <5>2, <6>2
          <6>3. CASE sess[m].mark # sess[m].start
            <7>1. sess[m].mark > sess[m].start
              BY <1>0, <6>3, Fields DEF Rest, InOrder
            <7>2. committed' = sess[m].mark
              BY <2>4, <6>1, <7>1 DEF CommitMarks, Current
            <7> QED
              BY <6>1, <7>2
          <6> QED
            BY <6>2, <6>3
        <5> QED
          BY <1>0, <5>1, <5>2, Fields
      <4>5. \A n \in Members : sess'[n].gen \in {0, generation}
        BY <2>2, <4>1
      <4> QED
        BY <4>1, <4>3, <4>4, <4>5
    <3> QED
      BY <1>7, <2>1, <3>1, <3>2
  <2> QED
    BY <2>1, <2>3, <2>4
<1>9. ASSUME NEW m \in Members, Crash(m) PROVE Rest'
  <2>1. /\ sess' = [sess EXCEPT ![m] = NoSession] /\ UNCHANGED <<generation, finished, responses, committed>>
        /\ disturbed' = TRUE
    BY <1>9 DEF Crash
  <2>2. Undisturbed' /\ CommittedIsFinished' /\ CommitEndsAtResponse' /\ committed' \in Int
    BY <1>0, <2>1, Fields DEF Undisturbed, Rest, CommittedIsFinished, CommitEndsAtResponse
  <2>3. \A n \in Members : sess[n].gen = generation => committed' <= sess[n].mark
    BY <1>0, <2>1 DEF Rest, CommitIsBehind
  <2> QED
    BY <1>7, <2>1, <2>2, <2>3
<1>10. ASSUME NEW m \in Members, Rebalance(m) PROVE Rest'
  <2> DEFINE start == StartOffset
  <2>1. /\ start \in 0 .. MaxOffset /\ generation' = generation + 1 /\ start >= committed
        /\ \A n \in Members :
             IF n = m THEN /\ sess'[n].gen = generation + 1 /\ sess'[n].start = start
                           /\ sess'[n].mark = start /\ sess'[n].next = start
                           /\ sess'[n].fetched = start /\ sess'[n].phase = "idle"
             ELSE sess'[n] = sess[n]
        /\ UNCHANGED <<committed, finished, responses>>
        /\ disturbed' = (disturbed \/ \E n \in Members : HasSession(n))
    BY <1>0, <1>10, RebalanceFacts DEF Same, Rebalance
  <2>2. OffsetsInitial = "oldest" => start = committed \/ start = 0
    BY DEF StartOffset
  <2>3. committed # NoOffset => start = committed
    BY DEF StartOffset
  <2> HIDE DEF start
  <2>4. /\ start \in Nat /\ generation \in Nat \ {0} /\ committed \in Int
        /\ \A n \in Members : sess[n].gen \in Nat /\ sess[n].gen <= generation
        /\ \A o \in Offsets : o \in Nat /\ responses[o] \in Nat
    BY <1>0, <2>1, BoundsAssumption, Fields DEF Rest, InOrder
  <2>5. InOrder' /\ OnePerGeneration'
    BY <1>0, <2>1, <2>4 DEF Rest, InOrder, OnePerGeneration
  <2>6. CommitIsBehind'
    BY <1>0, <2>1, <2>4 DEF Rest, CommitIsBehind
  <2>7. PassedIsFinished' /\ CommittedIsFinished'
    BY <1>0, <2>1, <2>2, <2>4 DEF Rest, PassedIsFinished, CommittedIsFinished
  <2>8. MarkEndsAtResponse' /\ CommitEndsAtResponse'
    BY <1>0, <2>1, <2>4 DEF Rest, MarkEndsAtResponse, CommitEndsAtResponse
  <2>9. Undisturbed'
    <3> SUFFICES ASSUME ~disturbed, \A n \in Members : sess[n].gen = 0 PROVE
          /\ \A n \in Members : sess'[n].gen \in {0, generation + 1}
          /\ \A o \in Offsets :
               /\ responses[o] \in {0, 1}
               /\ responses[o] > 0 =>
                    \A n \in Members : sess'[n].gen > 0 =>
                      o < sess'[n].mark /\ (sess'[n].mark = sess'[n].start => o < committed)
               /\ (\A n \in Members : sess'[n].gen = 0) => (responses[o] > 0 => o < committed)
      <4>1. ~disturbed' => ~disturbed /\ \A n \in Members : sess[n].gen = 0
        <5>1. ~disturbed' => ~disturbed /\ ~\E n \in Members : HasSession(n)
          BY <2>1, Zenon
        <5> QED
          BY <2>4, <5>1 DEF HasSession
      <4> QED
        BY <2>1, <4>1 DEF Undisturbed
    <3>1. \A o \in Offsets : responses[o] \in {0, 1} /\ (responses[o] > 0 => o < committed)
      BY <1>0 DEF Rest, Undisturbed
    <3>2. \A o \in Offsets : o < committed => o < start
      BY <2>1, <2>4
    <3> QED
      BY <2>1, <2>4, <3>1, <3>2
  <2> QED
    BY <2>5, <2>6, <2>7, <2>8, <2>9 DEF Rest
<1>11. ASSUME UNCHANGED vars PROVE Rest'
  BY <1>0, <1>11 DEF vars, Rest, InOrder, OnePerGeneration, CommitIsBehind, PassedIsFinished, CommittedIsFinished,
     MarkEndsAtResponse, CommitEndsAtResponse, Undisturbed
<1> QED
  <2>1. ASSUME NEW m \in Members, ConsumeClaim(m) PROVE Rest'
    BY <1>2, <1>3, <2>1 DEF ConsumeClaim
  <2>2. ASSUME NEW m \in Members, Session(m) PROVE Rest'
    BY <1>4, <1>5, <1>8, <1>10, <2>2 DEF Session
  <2>3. Rest'
    BY <1>1, <1>6, <1>9, <1>11, <2>1, <2>2 DEF Next
  <2> QED
    BY <1>01, <2>3 DEF IInv, Rest

--------------------------------------------------------------------------------
(* The theorems *)

(* The variables of a consumer group keep their types.                      *)
THEOREM TypeCorrect == Spec => []TypeOK
<1> QED
  BY InitInv, NextInv, PTL DEF Spec, IInv

(* The commit skips no message that no replica has handled.                 *)
THEOREM NothingIsSkipped == Spec => []CommittedIsFinished
<1> QED
  BY InitInv, NextInv, PTL DEF Spec, IInv

(* The commit stands behind a message whose response was written.           *)
THEOREM ResponseBeforeCommit == Spec => []CommitEndsAtResponse
<1> QED
  BY InitInv, NextInv, PTL DEF Spec, IInv

(* Without a crash, an eviction or a lost commit, one replica at a time     *)
(* handles messages, and no message has two responses.                      *)
THEOREM OrderlyIsExact == Spec => []OrderlyHandoverIsExact
<1>1. IInv => OrderlyHandoverIsExact
  <2> SUFFICES ASSUME IInv, ~disturbed PROVE
        /\ \A o \in Offsets : responses[o] <= 1
        /\ \A m, n \in Members : ~In(m, "idle") /\ ~In(n, "idle") => m = n
    BY DEF OrderlyHandoverIsExact
  <2>1. \A o \in Offsets : responses[o] <= 1
    BY DEF IInv, Undisturbed
  <2>2. ASSUME NEW m \in Members, NEW n \in Members, ~In(m, "idle"), ~In(n, "idle")
        PROVE  m = n
    <3>1. sess[m].gen > 0 /\ sess[n].gen > 0
      BY <2>2 DEF IInv, InOrder, In
    <3>2. sess[m].gen = generation /\ sess[n].gen = generation
      BY <3>1 DEF IInv, Undisturbed
    <3> QED
      BY <3>1, <3>2 DEF IInv, OnePerGeneration
  <2> QED
    BY <2>1, <2>2
<1> QED
  BY <1>1, InitInv, NextInv, PTL DEF Spec

(* A session of an older generation never takes the commit back.            *)
THEOREM CommitMovesForward == Spec => CommitNeverGoesBack
<1>1. IInv /\ [Next]_vars => [committed' >= committed]_vars
  <2> SUFFICES ASSUME IInv, [Next]_vars PROVE committed' >= committed
    OBVIOUS
  <2>0. TypeOK /\ Rest /\ committed \in Int
    BY Fields DEF IInv, Rest
  <2>1. CASE committed' = committed
    BY <2>0, <2>1
  <2>2. ASSUME NEW m \in Members, CommitMarks(m) PROVE committed' >= committed
    BY <2>0, <2>2, CommitFacts
  <2>3. committed' = committed \/ \E m \in Members : CommitMarks(m)
    BY DEF Next, ConsumeClaim, Session, Produce, StartRebalance, Receive, Respond, Fail, ReadBody,
       errorHandler, responseHandler, Fetch, CancelSession, Release, Rebalance, AutoCommit, Crash, Unmoved, vars
  <2> QED
    BY <2>1, <2>2, <2>3
<1> QED
  BY <1>1, InitInv, NextInv, PTL DEF Spec, CommitNeverGoesBack

--------------------------------------------------------------------------------
(* The group as a consumer of a log                                         *)

(* Sessions fetch, and the group commits, only what is in the log, and a    *)
(* mark that has moved stands behind a finished message.                    *)
WithinLog ==
  /\ committed <= logEnd
  /\ \A m \in Members : sess[m].fetched <= logEnd
MarkIsFinished ==
  \A m \in Members : sess[m].mark > sess[m].start => sess[m].mark - 1 \in finished

LogInv == IInv /\ WithinLog /\ MarkIsFinished

LEMMA LogInitInv == Init => LogInv
<1> SUFFICES ASSUME Init PROVE LogInv
  OBVIOUS
<1>1. \A m \in Members : sess[m].fetched = 0 /\ sess[m].mark = 0 /\ sess[m].start = 0
  BY DEF Init, NoSession, SessionAt
<1>2. WithinLog /\ MarkIsFinished
  BY <1>1 DEF Init, WithinLog, MarkIsFinished, NoOffset
<1> QED
  BY <1>2, InitInv DEF LogInv

LEMMA LogNextInv == LogInv /\ [Next]_vars => LogInv'
<1> SUFFICES ASSUME LogInv, [Next]_vars PROVE WithinLog' /\ MarkIsFinished'
  BY NextInv DEF LogInv
<1>0. TypeOK /\ InOrder /\ WithinLog /\ MarkIsFinished
  BY DEF LogInv, IInv
<1> USE DEF group, history, Unmoved
<1>1. \A m \in Members : /\ sess[m].start \in Nat /\ sess[m].mark \in Nat /\ sess[m].next \in Nat
                         /\ sess[m].fetched \in Nat /\ sess[m].mark <= sess[m].next
                         /\ sess[m].next <= sess[m].fetched /\ sess[m].fetched <= logEnd
  BY <1>0, Fields DEF InOrder, WithinLog
<1>2. logEnd \in Nat /\ committed \in Int /\ committed <= logEnd
  BY <1>0, Fields DEF WithinLog
<1>3. CASE Produce
  BY <1>0, <1>1, <1>2, <1>3 DEF Produce, WithinLog, MarkIsFinished
<1>4. CASE StartRebalance \/ UNCHANGED vars
  BY <1>0, <1>4 DEF StartRebalance, vars, WithinLog, MarkIsFinished
<1>5. ASSUME NEW m \in Members, Receive(m) \/ Respond(m) \/ Fail(m) \/ ReadBody(m)
      PROVE  WithinLog' /\ MarkIsFinished'
  <2>1. PICK ph \in Phases : Enter(m, ph)
    BY <1>5 DEF Receive, Respond, Fail, ReadBody, Phases
  <2>2. UNCHANGED <<logEnd, committed, finished>>
    BY <1>5 DEF Receive, Respond, Fail, ReadBody
  <2>3. \A n \in Members : /\ sess'[n].fetched = sess[n].fetched
                           /\ sess'[n].mark = sess[n].mark /\ sess'[n].start = sess[n].start
    BY <1>0, <2>1, EnterFacts DEF SameBut, Same
  <2> QED
    BY <1>0, <2>2, <2>3 DEF WithinLog, MarkIsFinished
<1>6. ASSUME NEW m \in Members, errorHandler(m) \/ responseHandler(m)
      PROVE  WithinLog' /\ MarkIsFinished'
  <2>1. PICK mark \in BOOLEAN : Finish(m, mark)
    BY <1>6 DEF errorHandler, responseHandler
  <2>2. ~In(m, "idle") /\ UNCHANGED <<logEnd, committed>>
    BY <1>6 DEF errorHandler, responseHandler, In
  <2>3. /\ \A n \in Members :
             /\ sess'[n].fetched = sess[n].fetched /\ sess'[n].start = sess[n].start
             /\ sess'[n].mark = IF n = m /\ mark THEN sess[m].next + 1 ELSE sess[n].mark
        /\ finished' = finished \union {sess[m].next}
    BY <1>0, <2>1, <2>2, FinishFacts DEF Same
  <2>4. ASSUME NEW n \in Members, sess'[n].mark > sess'[n].start
        PROVE  sess'[n].mark - 1 \in finished'
    <3>1. CASE n = m /\ mark
      <4>1. sess'[n].mark - 1 = sess[m].next
        BY <1>1, <2>3, <3>1
      <4> QED
        BY <2>3, <4>1
    <3>2. CASE ~(n = m /\ mark)
      <4>1. sess'[n].mark = sess[n].mark /\ sess'[n].start = sess[n].start
        BY <2>3, <3>2
      <4>2. sess[n].mark - 1 \in finished
        BY <1>0, <2>4, <4>1 DEF MarkIsFinished
      <4> QED
        BY <2>3, <4>1, <4>2
    <3> QED
      BY <3>1, <3>2
  <2>5. MarkIsFinished'
    BY <2>4 DEF MarkIsFinished
  <2> QED
    BY <1>0, <2>2, <2>3, <2>5 DEF WithinLog
<1>7. ASSUME NEW m \in Members, Fetch(m) PROVE WithinLog' /\ MarkIsFinished'
  <2>1. \A n \in Members : /\ sess'[n].mark = sess[n].mark /\ sess'[n].start = sess[n].start
                           /\ sess'[n].fetched = IF n = m THEN sess[m].fetched + 1 ELSE sess[n].fetched
    BY <1>0, <1>7, FetchFacts DEF SameBut, Same
  <2>2. sess[m].fetched < logEnd /\ UNCHANGED <<logEnd, committed, finished>>
    BY <1>7 DEF Fetch
  <2> QED
    BY <1>0, <1>1, <1>2, <2>1, <2>2 DEF WithinLog, MarkIsFinished
<1>8. ASSUME NEW m \in Members, CancelSession(m) PROVE WithinLog' /\ MarkIsFinished'
  <2>1. \A n \in Members : /\ sess'[n].fetched = sess[n].fetched
                           /\ sess'[n].mark = sess[n].mark /\ sess'[n].start = sess[n].start
    BY <1>0, <1>8, CancelFacts DEF SameBut, Same
  <2> QED
    BY <1>0, <1>8, <2>1 DEF CancelSession, WithinLog, MarkIsFinished
<1>9. ASSUME NEW m \in Members, CommitMarks(m) \/ committed' = committed PROVE committed' <= logEnd
  BY <1>1, <1>2, <1>9 DEF CommitMarks
<1>10. ASSUME NEW m \in Members, AutoCommit(m) PROVE WithinLog' /\ MarkIsFinished'
  BY <1>0, <1>9, <1>10 DEF AutoCommit, WithinLog, MarkIsFinished
<1>11. ASSUME NEW m \in Members, Release(m) \/ Crash(m) PROVE WithinLog' /\ MarkIsFinished'
  <2>1. /\ sess' = [sess EXCEPT ![m] = NoSession]
        /\ CommitMarks(m) \/ committed' = committed
        /\ UNCHANGED <<logEnd, finished>>
    BY <1>11 DEF Release, Crash
  <2>2. \A n \in Members :
          IF n = m THEN sess'[n].fetched = 0 /\ sess'[n].mark = 0 /\ sess'[n].start = 0
          ELSE sess'[n] = sess[n]
    BY <1>0, <2>1, EndFacts DEF Same
  <2>3. MarkIsFinished'
    BY <1>0, <2>1, <2>2 DEF MarkIsFinished
  <2> QED
    BY <1>1, <1>2, <1>9, <2>1, <2>2, <2>3 DEF WithinLog
<1>12. ASSUME NEW m \in Members, Rebalance(m) PROVE WithinLog' /\ MarkIsFinished'
  <2>1. StartOffset <= logEnd /\ StartOffset \in Nat
    BY <1>0, <1>2, <1>12, RebalanceFacts, BoundsAssumption DEF StartOffset
  <2>2. \A n \in Members :
          IF n = m THEN /\ sess'[n].fetched = StartOffset /\ sess'[n].mark = StartOffset
                        /\ sess'[n].start = StartOffset
          ELSE sess'[n] = sess[n]
    BY <1>0, <1>12, RebalanceFacts DEF Same
  <2>3. UNCHANGED <<logEnd, committed, finished>>
    BY <1>12 DEF Rebalance
  <2> HIDE DEF StartOffset
  <2> QED
    BY <1>0, <1>1, <2>1, <2>2, <2>3 DEF WithinLog, MarkIsFinished
<1> QED
  <2>1. ASSUME NEW m \in Members, ConsumeClaim(m) PROVE WithinLog' /\ MarkIsFinished'
    BY <1>5, <1>6, <2>1 DEF ConsumeClaim
  <2>2. ASSUME NEW m \in Members, Session(m) PROVE WithinLog' /\ MarkIsFinished'
    BY <1>7, <1>8, <1>11, <1>12, <2>2 DEF Session
  <2> QED
    BY <1>3, <1>4, <1>10, <1>11, <2>1, <2>2 DEF Next

LEMMA LogInitMaps == Init => Log!Init
BY DEF Init, Log!Init, NoOffset

LEMMA LogNextMaps == LogInv /\ [Next]_vars => [Log!Next]_(Log!vars)
<1> SUFFICES ASSUME LogInv, [Next]_vars PROVE Log!Next \/ UNCHANGED Log!vars
  OBVIOUS
<1> USE DEF group, history, Unmoved
<1>0. TypeOK /\ InOrder /\ CommitIsBehind /\ PassedIsFinished /\ WithinLog /\ MarkIsFinished
  BY DEF LogInv, IInv
<1>1. \A m \in Members : /\ sess[m].start \in Nat /\ sess[m].mark \in Nat /\ sess[m].next \in Nat
                         /\ sess[m].fetched \in Nat /\ sess[m].fetched <= MaxOffset
                         /\ sess[m].mark <= sess[m].next
                         /\ sess[m].next <= sess[m].fetched /\ sess[m].fetched <= logEnd
  BY <1>0, Fields DEF InOrder, WithinLog
<1>2. /\ logEnd \in Nat /\ committed \in {NoOffset} \union 0 .. MaxOffset
      /\ MaxOffset \in Nat
  BY <1>0, Fields, BoundsAssumption DEF TypeOK
<1>3. ASSUME NEW m \in Members, NEW o \in Int, o <= sess[m].next
      PROVE  Log!HandledBefore("claimed", o)
  <2> SUFFICES ASSUME OffsetsInitial = "oldest", NEW i \in 0 .. o - 1 PROVE i \in finished
    BY DEF Log!HandledBefore
  <2>1. i \in Offsets /\ i < sess[m].next
    BY <1>1, <1>2, <1>3 DEF Offsets
  <2> QED
    BY <1>0, <2>1 DEF PassedIsFinished
<1>4. ASSUME UNCHANGED <<logEnd, committed, finished>> PROVE UNCHANGED Log!vars
  BY <1>4 DEF Log!vars
<1>5. CASE Produce
  <2>1. Log!Append("claimed")
    BY <1>5 DEF Produce, Log!Append
  <2> QED
    BY <2>1 DEF Log!Next
<1>6. ASSUME NEW m \in Members, errorHandler(m) \/ responseHandler(m) PROVE Log!Next
  <2>1. PICK mark \in BOOLEAN : Finish(m, mark)
    BY <1>6 DEF errorHandler, responseHandler
  <2>2. ~In(m, "idle") /\ UNCHANGED <<logEnd, committed>>
    BY <1>6 DEF errorHandler, responseHandler, In
  <2>3. finished' = finished \union {sess[m].next} /\ sess[m].next < sess[m].fetched
    BY <1>0, <2>1, <2>2, FinishFacts
  <2>4. sess[m].next \in 0 .. logEnd - 1
    BY <1>1, <1>2, <2>3
  <2>5. Log!HandledBefore("claimed", sess[m].next)
    BY <1>1, <1>3
  <2>6. Log!Handle("claimed", sess[m].next)
    BY <2>2, <2>3, <2>5 DEF Log!Handle
  <2> QED
    BY <2>4, <2>6 DEF Log!Next
<1>7. ASSUME NEW m \in Members, CommitMarks(m), UNCHANGED <<logEnd, finished>>
      PROVE  Log!Next \/ UNCHANGED Log!vars
  <2>1. CASE committed' = committed
    BY <1>4, <1>7, <2>1
  <2>2. CASE committed' # committed
    <3>1. committed' = sess[m].mark /\ sess[m].mark > sess[m].start /\ sess[m].gen = generation
      BY <1>7, <2>2 DEF CommitMarks, Current
    <3>2. committed < sess[m].mark /\ sess[m].mark \in 1 .. logEnd
      BY <1>0, <1>1, <1>2, <2>2, <3>1 DEF CommitIsBehind, NoOffset
    <3>3. sess[m].mark - 1 \in finished /\ Log!HandledBefore("claimed", sess[m].mark)
      BY <1>0, <1>1, <1>3, <3>1 DEF MarkIsFinished
    <3>4. /\ (IF committed = NoOffset THEN 0 ELSE committed) < sess[m].mark
          /\ (IF committed' = NoOffset THEN 0 ELSE committed') = sess[m].mark
      BY <3>1, <3>2 DEF NoOffset
    <3>5. Log!Move("claimed", sess[m].mark)
      BY <1>7, <3>3, <3>4 DEF Log!Move
    <3> QED
      BY <3>2, <3>5 DEF Log!Next
  <2> QED
    BY <2>1, <2>2
<1>8. ASSUME NEW m \in Members, AutoCommit(m) PROVE Log!Next \/ UNCHANGED Log!vars
  BY <1>7, <1>8 DEF AutoCommit
<1>9. ASSUME NEW m \in Members, Release(m) PROVE Log!Next \/ UNCHANGED Log!vars
  BY <1>4, <1>7, <1>9 DEF Release
<1>10. ASSUME StartRebalance \/ UNCHANGED vars \/ \E m \in Members :
                \/ Receive(m) \/ Respond(m) \/ Fail(m) \/ ReadBody(m)
                \/ Fetch(m) \/ CancelSession(m) \/ Rebalance(m) \/ Crash(m)
       PROVE  UNCHANGED Log!vars
  <2>1. UNCHANGED <<logEnd, committed, finished>>
    BY <1>10 DEF StartRebalance, vars, Receive, Respond, Fail, ReadBody, Fetch, CancelSession,
       Rebalance, Crash
  <2> QED
    BY <1>4, <2>1
<1> QED
  BY <1>5, <1>6, <1>8, <1>9, <1>10 DEF Next, ConsumeClaim, Session

(* The group is a consumer of a log: it handles what is there, passing over *)
(* nothing from the oldest message on, and commits, and never takes back,   *)
(* what was handled, over crashes, evictions and commits that are lost.     *)
THEOREM KafkaImplementsLogConsumer == Spec => RefinesLogConsumer
<1> QED
  BY LogInitInv, LogNextInv, LogInitMaps, LogNextMaps, PTL DEF Spec, RefinesLogConsumer, Log!Spec

--------------------------------------------------------------------------------
(* The life of the process                                                  *)

(* A channel is open from when it is made to when Setup closes it, and      *)
(* Consume is only called with an open one.                                 *)
ReadyIsOpen ==
  /\ closed \subseteq 1 .. ready
  /\ consumer = "consume" => ready \notin closed

(* The claims run within a session; what they use is closed after the       *)
(* consumer goroutine has ended, which it does not undo.                    *)
ClosedAfterConsumer ==
  /\ claims => consumer = "session"
  /\ ~producer => consumer = "done"
  /\ main \in {"close", "done"} => consumer = "done"

ProcessInv == ProcessTypeOK /\ ReadyIsOpen /\ ClosedAfterConsumer /\ NeverPanics

LEMMA ProcessInitInv == ProcessInit => ProcessInv
<1> SUFFICES ASSUME ProcessInit PROVE ProcessInv
  OBVIOUS
<1>1. 1 \in 1 .. MaxConsume /\ 0 \in 0 .. MaxConsume
  BY MaxConsumeAssumption
<1>2. ProcessTypeOK
  BY <1>1 DEF ProcessInit, ProcessTypeOK
<1> QED
  BY <1>2 DEF ProcessInit, ProcessInv, ReadyIsOpen, ClosedAfterConsumer, NeverPanics

LEMMA ProcessNextInv == ProcessInv /\ [ProcessNext]_processVars => ProcessInv'
<1> SUFFICES ASSUME ProcessInv, [ProcessNext]_processVars PROVE ProcessInv'
  OBVIOUS
<1> USE MaxConsumeAssumption
    DEF ProcessInv, ProcessTypeOK, ReadyIsOpen, ClosedAfterConsumer, NeverPanics
<1>1. CASE LoadReady
  BY <1>1 DEF LoadReady
<1>2. CASE PassReady
  BY <1>2 DEF PassReady
<1>3. CASE Notify
  BY <1>3 DEF Notify
<1>4. CASE SelectAndCancel
  BY <1>4 DEF SelectAndCancel
<1>5. CASE WaitAndClose
  BY <1>5 DEF WaitAndClose
<1>6. CASE Exit
  BY <1>6 DEF Exit
<1>7. CASE Setup
  <2>1. ready \notin closed /\ ready \in 1 .. ready /\ consumer = "consume"
    BY <1>7 DEF Setup
  <2>2. closed' = closed \union {ready} /\ consumer' = "session" /\ claims' = TRUE
        /\ UNCHANGED <<process, main, ready, awaited, cancelled, sigterm, producer>>
    BY <1>7, <2>1 DEF Setup
  <2>3. ReadyIsOpen'
    BY <2>1, <2>2
  <2>4. closed' \subseteq 1 .. MaxConsume
    BY <2>1, <2>2
  <2>5. ClosedAfterConsumer'
    BY <2>1, <2>2
  <2> QED
    BY <2>2, <2>3, <2>4, <2>5
<1>8. CASE ConsumeFails
  BY <1>8 DEF ConsumeFails
<1>9. CASE ConsumeReturns
  BY <1>9 DEF ConsumeReturns
<1>10. CASE ConsumeAgain
  BY <1>10 DEF ConsumeAgain
<1>11. CASE ConsumerDone
  BY <1>11 DEF ConsumerDone
<1>12. CASE ClaimsEnd
  BY <1>12 DEF ClaimsEnd
<1>13. CASE Signal
  BY <1>13 DEF Signal
<1>14. CASE UNCHANGED processVars
  BY <1>14 DEF processVars
<1> QED
  BY <1>1, <1>2, <1>3, <1>4, <1>5, <1>6, <1>7, <1>8, <1>9, <1>10, <1>11, <1>12, <1>13, <1>14
     DEF ProcessNext, Main, Consumer

(* The variables of the process keep their types. *)
THEOREM ProcessTypeCorrect == ProcessSpec => []ProcessTypeOK
BY ProcessInitInv, ProcessNextInv, PTL DEF ProcessSpec, ProcessInv

(* Setup never closes conn.ready twice, so the process never panics. *)
THEOREM SetupNeverPanics == ProcessSpec => []NeverPanics
<1>1. ProcessInv => NeverPanics
  BY DEF ProcessInv
<1> QED
  BY <1>1, ProcessInitInv, ProcessNextInv, PTL DEF ProcessSpec

(* While a claim handles messages the producer is open. *)
THEOREM ProducerIsOpen == ProcessSpec => []ProducerOutlivesClaims
<1>1. ProcessInv => ProducerOutlivesClaims
  BY DEF ProcessInv, ClosedAfterConsumer, ProducerOutlivesClaims
<1> QED
  BY <1>1, ProcessInitInv, ProcessNextInv, PTL DEF ProcessSpec

================================================================================
