-------------------------- MODULE PushConsumer_proofs --------------------------
(***************************************************************************)
(* Proofs about PushConsumer, for any ids and finitely many handlers, any  *)
(* number of deliveries, publications and faults.                          *)
(***************************************************************************)
EXTENDS PushConsumer, FiniteSetTheorems, TLAPS

(* The inductive invariant: what is below, and the invariants of the run. *)

\* The id of a message in a handler's hands is in inFlight, and in no other's.
HeldAlone ==
  /\ \A h \in Handlers : Busy(h) => work[h].msg.id \in inFlight
  /\ \A g, h \in Handlers :
       Busy(g) /\ Busy(h) /\ work[g].msg.id = work[h].msg.id => g = h

\* An id is in flight or remembered, and what is remembered was sent.
SeenWasSent ==
  /\ seen \cap inFlight = {}
  /\ \A id \in seen : sent[id] > 0

\* What a handler has done before it acknowledges.
HandlersDid ==
  \A h \in Handlers :
    /\ work[h].pc = "accepted" => sent[work[h].msg.id] > 0
    /\ work[h].pc \in {"copy", "stored"} => ~Exhausted(work[h].msg)
    /\ work[h].pc = "buried" => work[h].msg.id \in dlq

\* A copy waits in its retry queue until its publication is confirmed.
CopiesWait ==
  "slow" \notin env =>
    \A m \in Messages : retry[m] >= Cardinality(Unconfirmed(m))

\* Nothing but the loss of the channel makes a delivery unacknowledgeable.
StaysLive == "drop" \notin env => \A h \in Handlers : Busy(h) => work[h].live

\* Whoever was sent a message is remembered, or about to be.
SentIsKnown ==
  {"crash", "lost", "ttl"} \cap env = {} =>
    \A id \in Ids : sent[id] > 0 =>
      id \in seen \/ \E h \in Handlers : work[h].pc = "accepted" /\ work[h].msg.id = id

Steps == TypeOK /\ HeldAlone /\ SeenWasSent /\ HandlersDid /\ StaysLive

IInv == Steps /\ CopiesWait /\ NothingLost /\ InFlightIsHandled /\ SentIsKnown /\ AtMostOnce

-----------------------------------------------------------------------------
Jobs == [pc : Pcs, msg : Messages, live : BOOLEAN]

LEMMA Constant ==
  /\ MaxDeliveries \in Nat \ {0} /\ MaxPublish \in Nat /\ MaxFaults \in Nat
  /\ IsFiniteSet(Handlers)
BY ConstantsAssumption DEF ConstantsAssumption

\* A busy handler has a message.
LEMMA BusyHasJob ==
  ASSUME TypeOK, NEW h \in Handlers
  PROVE  /\ Busy(h) => work[h] \in Jobs
         /\ ~Busy(h) => work[h] = Free
BY DEF TypeOK, Busy, Jobs, Free, Pcs

\* It goes on with it,
LEMMA GoType ==
  ASSUME TypeOK, NEW h \in Handlers, Busy(h), NEW p \in Pcs, Go(h, p)
  PROVE  /\ work' \in [Handlers -> [pc : {"idle"}] \cup Jobs]
         /\ work'[h].pc = p /\ work'[h].msg = work[h].msg
         /\ work'[h].live = work[h].live
         /\ \A g \in Handlers \ {h} : work'[g] = work[g]
<1>1. work[h] \in Jobs
  BY BusyHasJob
<1>2. [work[h] EXCEPT !.pc = p] \in Jobs
  BY <1>1 DEF Jobs
<1>3. QED
  BY <1>1, <1>2 DEF Go, TypeOK, Jobs

\* or is free again.
LEMMA FreeType ==
  ASSUME TypeOK, NEW h \in Handlers, work' = [work EXCEPT ![h] = Free]
  PROVE  /\ work' \in [Handlers -> [pc : {"idle"}] \cup Jobs]
         /\ work'[h] = Free
         /\ \A g \in Handlers \ {h} : work'[g] = work[g]
BY DEF TypeOK, Jobs, Free

\* The messages given back are counted.
LEMMA RequeueType ==
  ASSUME TypeOK, Requeue
  PROVE  /\ main' \in [Messages -> Nat]
         /\ \A m \in Messages : main'[m] >= main[m]
         /\ \A h \in Handlers : Live(h) => main'[work[h].msg] > 0
<1> DEFINE Back(m) == {h \in Handlers : Live(h) /\ work[h].msg = m}
<1>1. ASSUME NEW m \in Messages
      PROVE  IsFiniteSet(Back(m)) /\ Cardinality(Back(m)) \in Nat
  BY Constant, FS_Subset, FS_CardinalityType
<1>2. main' = [m \in Messages |-> main[m] + Cardinality(Back(m))]
  BY DEF Requeue
<1>3. ASSUME NEW h \in Handlers, Live(h)
      PROVE  work[h].msg \in Messages /\ Cardinality(Back(work[h].msg)) > 0
  <2>1. work[h].msg \in Messages /\ Back(work[h].msg) # {}
    BY <1>3, BusyHasJob DEF Live, Jobs
  <2>2. QED
    BY <1>1, <2>1, FS_EmptySet
<1> HIDE DEF Back
<1>4. QED
  BY <1>1, <1>2, <1>3 DEF TypeOK

LEMMA InitInv == ASSUME Init PROVE IInv
<1>1. TypeOK
  BY Constant DEF Init, TypeOK, Free
<1>2. \A h \in Handlers : ~Busy(h) /\ work[h].pc = "idle"
  BY DEF Init, Busy, Free
<1>3. ASSUME NEW m \in Messages
      PROVE  Unconfirmed(m) = {}
  BY <1>2 DEF Unconfirmed
<1>4. CopiesWait
  BY <1>3, FS_EmptySet DEF Init, CopiesWait
<1>5. QED
  BY <1>1, <1>2, <1>4 DEF Init, IInv, Steps, HeldAlone, SeenWasSent, HandlersDid, StaysLive,
     NothingLost, InFlightIsHandled, SentIsKnown, AtMostOnce

-----------------------------------------------------------------------------
\* Next, one action after the other.
LEMMA Acts ==
  ASSUME Next
  PROVE  \/ \E id \in Ids : Publish(id) \/ Evict(id)
         \/ \E m \in Messages : SkipDuplicate(m) \/ RetryExpires(m)
         \/ \E h \in Handlers, m \in Messages : Take(h, m)
         \/ \E h \in Handlers : \/ Accept(h) \/ Answered(h) \/ Rejected(h) \/ Fails(h)
                                \/ StoreCopy(h) \/ Bury(h) \/ AckOriginal(h)
                                \/ PublishFails(h)
         \/ Crash \/ Drop
BY DEF Next, Step, HandlerStep

LEMMA TypeStep == ASSUME TypeOK, HandlersDid, Next PROVE TypeOK'
<1>0. env' = env /\ env \in Cases
  BY DEF Next, TypeOK
<1>1. ASSUME NEW id \in Ids, Publish(id) \/ Evict(id)
      PROVE  TypeOK'
  <2>1. [id |-> id, n |-> 0] \in Messages
    BY Constant DEF Messages
  <2>2. QED
    BY <1>0, <1>1, <2>1 DEF Publish, Evict, TypeOK, broker, cache, history
<1>2. ASSUME NEW m \in Messages, SkipDuplicate(m) \/ RetryExpires(m)
      PROVE  TypeOK'
  <2>1. Cardinality(Unconfirmed(m)) \in Nat
    BY Constant, FS_Subset, FS_CardinalityType DEF Unconfirmed
  <2>2. CASE SkipDuplicate(m)
    BY <1>0, <2>2 DEF SkipDuplicate, TypeOK, cache, history
  <2>3. CASE RetryExpires(m)
    <3>1. retry[m] > 0
      BY <2>1, <2>3 DEF RetryExpires, TypeOK
    <3>2. QED
      BY <1>0, <2>3, <3>1 DEF RetryExpires, TypeOK, cache, history
  <2>4. QED
    BY <1>2, <2>2, <2>3
<1>3. ASSUME NEW h \in Handlers, NEW m \in Messages, Take(h, m)
      PROVE  TypeOK'
  <2>1. Holding("sending", m, TRUE) \in Jobs /\ m.id \in Ids
    BY DEF Holding, Jobs, Pcs, Messages
  <2>2. work' \in [Handlers -> [pc : {"idle"}] \cup Jobs]
    BY <1>3, <2>1 DEF Take, TypeOK, Jobs
  <2>3. main' \in [Messages -> Nat]
    BY <1>3 DEF Take, TypeOK
  <2>4. QED
    BY <1>0, <1>3, <2>1, <2>2, <2>3 DEF Take, TypeOK, Jobs, history
<1>4. ASSUME NEW h \in Handlers, Accept(h) \/ Rejected(h) \/ Fails(h) \/ StoreCopy(h) \/ Bury(h)
      PROVE  TypeOK'
  <2>1. Busy(h) /\ work[h] \in Jobs /\ work[h].msg \in Messages /\ work[h].msg.id \in Ids
    <3>1. Busy(h)
      BY <1>4 DEF Accept, Rejected, Fails, StoreCopy, Bury, Busy
    <3>2. QED
      BY <3>1, BusyHasJob DEF Jobs, Messages
  <2>2. work' \in [Handlers -> [pc : {"idle"}] \cup Jobs]
    <3>1. \E p \in Pcs : Go(h, p)
      BY <1>4 DEF Accept, Rejected, Fails, StoreCopy, Bury, Pcs
    <3>2. QED
      BY <2>1, <3>1, GoType
  <2>3. CASE Accept(h) \/ Rejected(h) \/ Fails(h) \/ Bury(h)
    BY <1>0, <2>1, <2>2, <2>3
       DEF Accept, Rejected, Fails, Bury, TypeOK, Jobs, broker, cache, history
  <2>4. CASE StoreCopy(h)
    <3>1. [work[h].msg EXCEPT !.n = @ + 1] \in Messages
      BY <2>1, <2>4, Constant DEF StoreCopy, HandlersDid, Exhausted, Messages
    <3>2. QED
      BY <1>0, <2>2, <2>4, <3>1 DEF StoreCopy, TypeOK, Jobs, cache, history
  <2>5. QED
    BY <1>4, <2>3, <2>4
<1>5. ASSUME NEW h \in Handlers, Answered(h) \/ AckOriginal(h) \/ PublishFails(h)
      PROVE  TypeOK'
  <2>1. Busy(h) /\ work[h].msg \in Messages /\ work[h].msg.id \in Ids
    <3>1. Busy(h)
      BY <1>5 DEF Answered, AckOriginal, PublishFails, Busy
    <3>2. QED
      BY <3>1, BusyHasJob DEF Jobs, Messages
  <2>2. work' \in [Handlers -> [pc : {"idle"}] \cup Jobs]
    BY <1>5, FreeType DEF Answered, AckOriginal, PublishFails, Release
  <2>3. CASE Answered(h) \/ AckOriginal(h)
    BY <1>0, <2>1, <2>2, <2>3
       DEF Answered, AckOriginal, Release, TypeOK, Jobs, broker, history
  <2>4. CASE PublishFails(h)
    <3>1. main' \in [Messages -> Nat]
      BY <2>1, <2>4 DEF PublishFails, TypeOK
    <3>2. QED
      BY <1>0, <2>1, <2>2, <2>4, <3>1, Constant
         DEF PublishFails, Fault, Release, TypeOK, Jobs, history
  <2>5. QED
    BY <1>5, <2>3, <2>4
<1>6. CASE Crash
  <2>1. work' \in [Handlers -> [pc : {"idle"}] \cup Jobs]
    BY <1>6 DEF Crash, Free
  <2>2. QED
    BY <1>0, <1>6, <2>1, RequeueType, Constant DEF Crash, Fault, TypeOK, Jobs, history
<1>7. CASE Drop
  <2>1. work' \in [Handlers -> [pc : {"idle"}] \cup Jobs]
    <3>1. ASSUME NEW g \in Handlers, Busy(g)
          PROVE  [work[g] EXCEPT !.live = FALSE] \in Jobs
      BY <3>1, BusyHasJob DEF Jobs
    <3>2. QED
      BY <1>7, <3>1 DEF Drop, Free
  <2>2. QED
    BY <1>0, <1>7, <2>1, RequeueType, Constant DEF Drop, Fault, TypeOK, Jobs, cache, history
<1>8. QED
  BY <1>1, <1>2, <1>3, <1>4, <1>5, <1>6, <1>7, Acts

-----------------------------------------------------------------------------
(* Messages, ids and handlers. *)

\* A handler that goes on, and where to.
Goes(h, p) == Busy(h) /\ p \in Pcs /\ Go(h, p)

LEMMA Going ==
  ASSUME NEW h \in Handlers,
         Accept(h) \/ Rejected(h) \/ Fails(h) \/ StoreCopy(h) \/ Bury(h)
  PROVE  \E p \in Pcs : Goes(h, p)
BY DEF Accept, Rejected, Fails, StoreCopy, Bury, Pcs, Goes, Busy

\* A handler that ends.
LEMMA Ending ==
  ASSUME NEW h \in Handlers, Answered(h) \/ AckOriginal(h) \/ PublishFails(h)
  PROVE  /\ Busy(h) /\ work' = [work EXCEPT ![h] = Free]
         /\ inFlight' = inFlight \ {work[h].msg.id}
BY DEF Answered, AckOriginal, PublishFails, Release, Busy

\* Losing the channel changes nothing but `live'.
LEMMA Dropping ==
  ASSUME TypeOK, Drop, NEW h \in Handlers
  PROVE  /\ work'[h].pc = work[h].pc
         /\ Busy(h) => work'[h].msg = work[h].msg /\ ~work'[h].live
<1>1. CASE Busy(h)
  BY <1>1, BusyHasJob DEF Drop, Jobs
<1>2. CASE ~Busy(h)
  BY <1>2, BusyHasJob DEF Drop
<1>3. QED
  BY <1>1, <1>2

LEMMA HeldAloneStep == ASSUME Steps, Next PROVE HeldAlone'
<1>0. TypeOK /\ HeldAlone
  BY DEF Steps
<1>1. CASE UNCHANGED <<work, inFlight>>
  BY <1>0, <1>1 DEF HeldAlone, Busy
<1>2. ASSUME NEW h \in Handlers, NEW m \in Messages, Take(h, m)
      PROVE  HeldAlone'
  <2>1. /\ work'[h].msg = m /\ m.id \notin inFlight /\ inFlight' = inFlight \cup {m.id}
        /\ \A g \in Handlers \ {h} : work'[g] = work[g]
    BY <1>0, <1>2 DEF Take, Known, Holding, TypeOK
  <2>2. QED
    BY <1>0, <2>1 DEF HeldAlone, Busy
<1>3. ASSUME NEW h \in Handlers, NEW p \in Pcs, Goes(h, p), UNCHANGED inFlight
      PROVE  HeldAlone'
  BY <1>0, <1>3, GoType DEF Goes, HeldAlone, Busy
<1>4. ASSUME NEW h \in Handlers, Answered(h) \/ AckOriginal(h) \/ PublishFails(h)
      PROVE  HeldAlone'
  BY <1>0, <1>4, Ending, FreeType DEF HeldAlone, Busy, Free
<1>5. CASE Crash
  BY <1>5 DEF Crash, HeldAlone, Busy, Free
<1>6. CASE Drop
  <2>1. inFlight' = inFlight
    BY <1>6 DEF Drop, cache
  <2>2. QED
    BY <1>0, <1>6, <2>1, Dropping DEF HeldAlone, Busy
<1>7. ASSUME NEW h \in Handlers,
             Accept(h) \/ Rejected(h) \/ Fails(h) \/ StoreCopy(h) \/ Bury(h)
      PROVE  HeldAlone'
  <2>1. UNCHANGED inFlight
    BY <1>7 DEF Accept, Rejected, Fails, StoreCopy, Bury, cache
  <2>2. QED
    BY <1>3, <1>7, <2>1, Going
<1>8. ASSUME NEW id \in Ids, Publish(id) \/ Evict(id)
      PROVE  HeldAlone'
  BY <1>1, <1>8 DEF Publish, Evict, cache
<1>9. ASSUME NEW m \in Messages, SkipDuplicate(m) \/ RetryExpires(m)
      PROVE  HeldAlone'
  BY <1>1, <1>9 DEF SkipDuplicate, RetryExpires, cache
<1>10. QED
  BY <1>2, <1>4, <1>5, <1>6, <1>7, <1>8, <1>9, Acts

LEMMA SeenWasSentStep == ASSUME Steps, Next PROVE SeenWasSent'
<1>0. TypeOK /\ HeldAlone /\ SeenWasSent /\ HandlersDid
  BY DEF Steps
<1>1. ASSUME NEW id \in Ids, Publish(id) \/ Evict(id)
      PROVE  SeenWasSent'
  BY <1>0, <1>1 DEF Publish, Evict, cache, history, SeenWasSent
<1>2. ASSUME NEW m \in Messages, SkipDuplicate(m) \/ RetryExpires(m)
      PROVE  SeenWasSent'
  BY <1>0, <1>2 DEF SkipDuplicate, RetryExpires, cache, history, SeenWasSent
<1>3. ASSUME NEW h \in Handlers, NEW m \in Messages, Take(h, m)
      PROVE  SeenWasSent'
  BY <1>0, <1>3 DEF Take, Known, history, SeenWasSent
<1>4. ASSUME NEW h \in Handlers, Accept(h)
      PROVE  SeenWasSent'
  <2>1. work[h].msg.id \in Ids
    BY <1>0, <1>4, BusyHasJob DEF Accept, Busy, Jobs, Messages
  <2>2. QED
    BY <1>0, <1>4, <2>1 DEF Accept, cache, SeenWasSent, TypeOK
<1>5. ASSUME NEW h \in Handlers, Rejected(h) \/ Fails(h) \/ StoreCopy(h) \/ Bury(h)
      PROVE  SeenWasSent'
  BY <1>0, <1>5 DEF Rejected, Fails, StoreCopy, Bury, cache, history, SeenWasSent
<1>6. ASSUME NEW h \in Handlers, Answered(h)
      PROVE  SeenWasSent'
  BY <1>0, <1>6 DEF Answered, history, SeenWasSent, HandlersDid
<1>7. ASSUME NEW h \in Handlers, AckOriginal(h) \/ PublishFails(h)
      PROVE  SeenWasSent'
  BY <1>0, <1>7 DEF AckOriginal, PublishFails, Release, history, SeenWasSent
<1>8. CASE Crash \/ Drop
  BY <1>0, <1>8 DEF Crash, Drop, cache, history, SeenWasSent
<1>9. QED
  BY <1>1, <1>2, <1>3, <1>4, <1>5, <1>6, <1>7, <1>8, Acts

LEMMA HandlersDidStep == ASSUME Steps, Next PROVE HandlersDid' /\ StaysLive'
<1>0. TypeOK /\ HandlersDid /\ StaysLive /\ env' = env
  BY DEF Steps, Next
<1>1. CASE UNCHANGED <<work, sent, dlq>>
  BY <1>0, <1>1 DEF HandlersDid, StaysLive, Busy, Exhausted
<1>2. ASSUME NEW h \in Handlers, NEW m \in Messages, Take(h, m)
      PROVE  HandlersDid' /\ StaysLive'
  <2>1. /\ work'[h].pc = "sending" /\ work'[h].live
        /\ \A g \in Handlers \ {h} : work'[g] = work[g]
        /\ UNCHANGED <<sent, dlq>>
    BY <1>0, <1>2 DEF Take, Holding, history, TypeOK
  <2>2. QED
    BY <1>0, <2>1 DEF HandlersDid, StaysLive, Busy, Exhausted
<1>3. ASSUME NEW h \in Handlers,
             Accept(h) \/ Rejected(h) \/ Fails(h) \/ StoreCopy(h) \/ Bury(h)
      PROVE  HandlersDid' /\ StaysLive'
  <2>1. PICK p \in Pcs : Goes(h, p)
    BY <1>3, Going
  <2>2. /\ Busy(h) /\ work'[h].pc = p /\ work'[h].msg = work[h].msg
        /\ work'[h].live = work[h].live
        /\ \A g \in Handlers \ {h} : work'[g] = work[g]
    BY <1>0, <2>1, GoType DEF Goes
  <2>3. work[h].msg.id \in Ids
    BY <1>0, <2>2, BusyHasJob DEF Jobs, Messages
  <2>4. /\ dlq \subseteq dlq' /\ \A id \in Ids : sent'[id] >= sent[id]
        /\ p = "accepted" => sent'[work[h].msg.id] > 0
        /\ p \in {"copy", "stored"} => ~Exhausted(work[h].msg)
        /\ p = "buried" => work[h].msg.id \in dlq'
    <3>1. CASE Accept(h)
      BY <1>0, <2>2, <2>3, <3>1, GoType DEF Accept, broker, TypeOK, Pcs
    <3>2. CASE Rejected(h) \/ Fails(h)
      BY <1>0, <2>2, <3>2, GoType DEF Rejected, Fails, broker, history, TypeOK, Pcs
    <3>3. CASE StoreCopy(h) \/ Bury(h)
      BY <1>0, <2>2, <3>3, GoType DEF StoreCopy, Bury, history, TypeOK, Pcs, HandlersDid
    <3>4. QED
      BY <1>3, <3>1, <3>2, <3>3
  <2>5. \A g \in Handlers : Busy(g) => work[g].msg.id \in Ids
    BY <1>0, BusyHasJob DEF Jobs, Messages
  <2>6. HandlersDid'
    <3>1. ASSUME NEW g \in Handlers, g # h
          PROVE  /\ work'[g].pc = "accepted" => sent'[work'[g].msg.id] > 0
                 /\ work'[g].pc \in {"copy", "stored"} => ~Exhausted(work'[g].msg)
                 /\ work'[g].pc = "buried" => work'[g].msg.id \in dlq'
      <4>1. work'[g] = work[g]
        BY <2>2, <3>1
      <4>2. CASE work[g].pc = "accepted"
        <5>1. work[g].msg.id \in Ids /\ sent[work[g].msg.id] > 0
          BY <1>0, <2>5, <4>2 DEF HandlersDid, Busy
        <5>2. work[g].msg.id \in Ids /\ sent'[work[g].msg.id] >= sent[work[g].msg.id]
              /\ sent'[work[g].msg.id] \in Nat /\ sent[work[g].msg.id] \in Nat
          BY <1>0, <2>4, <5>1, TypeStep DEF TypeOK
        <5>3. QED
          BY <4>1, <4>2, <5>1, <5>2
      <4>3. CASE work[g].pc # "accepted"
        BY <1>0, <2>4, <4>1, <4>3 DEF HandlersDid
      <4>4. QED
        BY <4>2, <4>3
    <3>2. QED
      BY <2>2, <2>4, <3>1 DEF HandlersDid, Exhausted
  <2>7. StaysLive'
    BY <1>0, <2>2 DEF StaysLive, Busy
  <2>8. QED
    BY <2>6, <2>7
<1>4. ASSUME NEW h \in Handlers, Answered(h) \/ AckOriginal(h) \/ PublishFails(h)
      PROVE  HandlersDid' /\ StaysLive'
  <2>1. UNCHANGED <<sent, dlq>>
    BY <1>4 DEF Answered, AckOriginal, PublishFails, broker, history
  <2>2. QED
    BY <1>0, <1>4, <2>1, Ending, FreeType DEF HandlersDid, StaysLive, Busy, Exhausted, Free
<1>5. CASE Crash
  BY <1>5 DEF Crash, HandlersDid, StaysLive, Busy, Free
<1>6. CASE Drop
  <2>1. "drop" \in env /\ UNCHANGED <<sent, dlq>>
    BY <1>6 DEF Drop, Fault, history
  <2>2. QED
    BY <1>0, <1>6, <2>1, Dropping DEF HandlersDid, StaysLive, Busy, Exhausted
<1>7. ASSUME NEW id \in Ids, Publish(id) \/ Evict(id)
      PROVE  HandlersDid' /\ StaysLive'
  BY <1>1, <1>7 DEF Publish, Evict, broker, history
<1>8. ASSUME NEW m \in Messages, SkipDuplicate(m) \/ RetryExpires(m)
      PROVE  HandlersDid' /\ StaysLive'
  BY <1>1, <1>8 DEF SkipDuplicate, RetryExpires, history
<1>9. QED
  BY <1>2, <1>3, <1>4, <1>5, <1>6, <1>7, <1>8, Acts

LEMMA StepsStep == ASSUME Steps, Next PROVE Steps'
BY TypeStep, HeldAloneStep, SeenWasSentStep, HandlersDidStep DEF Steps

-----------------------------------------------------------------------------
(* Copies and confirmations. *)

LEMMA UnconfirmedType ==
  ASSUME NEW m
  PROVE  IsFiniteSet(Unconfirmed(m)) /\ Cardinality(Unconfirmed(m)) \in Nat
BY Constant, FS_Subset, FS_CardinalityType DEF Unconfirmed

\* Fewer publications that wait need fewer copies.
LEMMA FewerWait ==
  ASSUME TypeOK, TypeOK', CopiesWait, env' = env,
         \A m \in Messages : retry'[m] >= retry[m] /\ Unconfirmed(m)' \subseteq Unconfirmed(m)
  PROVE  CopiesWait'
<1>1. ASSUME NEW m \in Messages, "slow" \notin env
      PROVE  retry'[m] >= Cardinality(Unconfirmed(m)')
  <2>1. Cardinality(Unconfirmed(m)') <= Cardinality(Unconfirmed(m))
    BY UnconfirmedType, FS_Subset
  <2>2. Cardinality(Unconfirmed(m)') \in Nat
    BY UnconfirmedType, FS_Subset, FS_CardinalityType
  <2>3. QED
    BY <1>1, <2>1, <2>2, UnconfirmedType DEF CopiesWait, TypeOK
<1>2. QED
  BY <1>1 DEF CopiesWait

LEMMA CopiesStep == ASSUME Steps, CopiesWait, Next PROVE CopiesWait'
<1>0. TypeOK /\ TypeOK' /\ CopiesWait /\ HandlersDid /\ env' = env
  BY StepsStep DEF Steps, Next
<1>1. CASE UNCHANGED <<work, retry>>
  BY <1>0, <1>1 DEF CopiesWait, Unconfirmed
<1>2. ASSUME NEW h \in Handlers, NEW m \in Messages, Take(h, m)
      PROVE  CopiesWait'
  <2>1. /\ work'[h].pc = "sending" /\ UNCHANGED retry
        /\ \A g \in Handlers \ {h} : work'[g] = work[g]
    BY <1>0, <1>2 DEF Take, Holding, TypeOK
  <2>2. \A o \in Messages : Unconfirmed(o)' \subseteq Unconfirmed(o)
    BY <2>1 DEF Unconfirmed
  <2>3. QED
    BY <1>0, <2>1, <2>2, FewerWait DEF TypeOK
<1>3. ASSUME NEW h \in Handlers, Accept(h) \/ Rejected(h) \/ Fails(h) \/ Bury(h)
      PROVE  CopiesWait'
  <2>1. PICK p \in Pcs : Goes(h, p) /\ p # "stored"
    BY <1>3 DEF Accept, Rejected, Fails, Bury, Pcs, Goes, Busy
  <2>2. \A o \in Messages : Unconfirmed(o)' \subseteq Unconfirmed(o)
    BY <1>0, <2>1, GoType DEF Goes, Unconfirmed
  <2>3. UNCHANGED retry
    BY <1>3 DEF Accept, Rejected, Fails, Bury, broker
  <2>4. QED
    BY <1>0, <2>2, <2>3, FewerWait DEF TypeOK
<1>4. ASSUME NEW h \in Handlers, Answered(h) \/ AckOriginal(h) \/ PublishFails(h)
      PROVE  CopiesWait'
  <2>1. \A o \in Messages : Unconfirmed(o)' \subseteq Unconfirmed(o)
    BY <1>0, <1>4, Ending, FreeType DEF Unconfirmed, Free
  <2>2. UNCHANGED retry
    BY <1>4 DEF Answered, AckOriginal, PublishFails, broker
  <2>3. QED
    BY <1>0, <2>1, <2>2, FewerWait DEF TypeOK
<1>5. ASSUME NEW h \in Handlers, StoreCopy(h)
      PROVE  CopiesWait'
  <2>1. /\ Busy(h) /\ work'[h].pc = "stored" /\ work'[h].msg = work[h].msg
        /\ \A g \in Handlers \ {h} : work'[g] = work[g]
    BY <1>0, <1>5, GoType DEF StoreCopy, Busy, Pcs
  <2>2. work[h].msg \in Messages
        /\ [work[h].msg EXCEPT !.n = @ + 1] \in Messages
    <3>1. work[h].msg \in Messages
      BY <1>0, <2>1, BusyHasJob DEF Jobs
    <3>2. QED
      BY <1>0, <1>5, <3>1, Constant DEF StoreCopy, HandlersDid, Exhausted, Messages
  <2>3. PICK c \in Messages :
          /\ c = [work[h].msg EXCEPT !.n = @ + 1]
          /\ c.id = work[h].msg.id /\ c.n = work[h].msg.n + 1
          /\ retry' = [retry EXCEPT ![c] = @ + 1]
    BY <1>5, <2>2 DEF StoreCopy, Messages
  <2>4. ASSUME NEW o \in Messages, o # c
        PROVE  Unconfirmed(o)' \subseteq Unconfirmed(o) /\ retry'[o] = retry[o]
    <3>1. ~(work[h].msg.id = o.id /\ work[h].msg.n + 1 = o.n)
      BY <2>3, <2>4 DEF Messages
    <3>2. QED
      BY <1>0, <2>1, <2>2, <2>3, <2>4, <3>1 DEF Unconfirmed, TypeOK
  <2>5. Unconfirmed(c)' \subseteq Unconfirmed(c) \cup {h} /\ retry'[c] = retry[c] + 1
    BY <1>0, <2>1, <2>2, <2>3 DEF Unconfirmed, TypeOK
  <2>6. Cardinality(Unconfirmed(c)') <= Cardinality(Unconfirmed(c)) + 1
        /\ Cardinality(Unconfirmed(c)') \in Nat
    <3>1. /\ IsFiniteSet(Unconfirmed(c) \cup {h})
          /\ Cardinality(Unconfirmed(c) \cup {h}) <= Cardinality(Unconfirmed(c)) + 1
      <4>1. IsFiniteSet(Unconfirmed(c)) /\ Cardinality(Unconfirmed(c)) \in Nat
        BY UnconfirmedType
      <4>2. /\ IsFiniteSet(Unconfirmed(c) \cup {h})
            /\ \/ Cardinality(Unconfirmed(c) \cup {h}) = Cardinality(Unconfirmed(c))
               \/ Cardinality(Unconfirmed(c) \cup {h}) = Cardinality(Unconfirmed(c)) + 1
        BY <4>1, FS_AddElement
      <4>3. QED
        BY <4>1, <4>2
    <3>2. /\ IsFiniteSet(Unconfirmed(c)')
          /\ Cardinality(Unconfirmed(c)') <= Cardinality(Unconfirmed(c) \cup {h})
      BY <2>5, <3>1, FS_Subset
    <3>3. /\ Cardinality(Unconfirmed(c)') \in Nat
          /\ Cardinality(Unconfirmed(c) \cup {h}) \in Nat
      BY <3>1, <3>2, FS_CardinalityType
    <3>4. QED
      BY <3>1, <3>2, <3>3, UnconfirmedType
  <2>7. ASSUME NEW o \in Messages, "slow" \notin env
        PROVE  retry'[o] >= Cardinality(Unconfirmed(o)')
    <3>1. CASE o = c
      <4>1. /\ retry[c] >= Cardinality(Unconfirmed(c)) /\ retry[c] \in Nat
            /\ Cardinality(Unconfirmed(c)) \in Nat
        BY <1>0, <2>2, <2>7, UnconfirmedType DEF CopiesWait, TypeOK
      <4>2. QED
        BY <2>5, <2>6, <3>1, <4>1
    <3>2. CASE o # c
      <4>1. Cardinality(Unconfirmed(o)') <= Cardinality(Unconfirmed(o))
            /\ Cardinality(Unconfirmed(o)') \in Nat
        BY <2>4, <3>2, UnconfirmedType, FS_Subset, FS_CardinalityType
      <4>2. QED
        BY <1>0, <2>4, <2>7, <3>2, <4>1, UnconfirmedType DEF CopiesWait, TypeOK
    <3>3. QED
      BY <3>1, <3>2
  <2>8. QED
    BY <1>0, <2>7 DEF CopiesWait
<1>6. ASSUME NEW m \in Messages, RetryExpires(m)
      PROVE  CopiesWait'
  <2>1. \A o \in Messages : Unconfirmed(o)' = Unconfirmed(o)
    BY <1>6 DEF RetryExpires, Unconfirmed
  <2>2. ASSUME NEW o \in Messages, "slow" \notin env
        PROVE  retry'[o] >= Cardinality(Unconfirmed(o))
    BY <1>0, <1>6, <2>2, UnconfirmedType DEF RetryExpires, CopiesWait, TypeOK
  <2>3. QED
    BY <1>0, <2>1, <2>2 DEF CopiesWait
<1>7. CASE Crash
  <2>1. \A o \in Messages : Unconfirmed(o)' \subseteq Unconfirmed(o)
    BY <1>7 DEF Crash, Unconfirmed, Free
  <2>2. QED
    BY <1>0, <1>7, <2>1, FewerWait DEF Crash, TypeOK
<1>8. CASE Drop
  <2>1. \A o \in Messages : Unconfirmed(o)' \subseteq Unconfirmed(o)
    BY <1>0, <1>8, Dropping DEF Unconfirmed, Busy
  <2>2. QED
    BY <1>0, <1>8, <2>1, FewerWait DEF Drop, TypeOK
<1>9. ASSUME NEW id \in Ids, Publish(id) \/ Evict(id)
      PROVE  CopiesWait'
  BY <1>1, <1>9 DEF Publish, Evict, broker
<1>10. ASSUME NEW m \in Messages, SkipDuplicate(m)
      PROVE  CopiesWait'
  BY <1>1, <1>10 DEF SkipDuplicate
<1>11. QED
  BY <1>2, <1>3, <1>4, <1>5, <1>6, <1>7, <1>8, <1>9, <1>10, Acts

-----------------------------------------------------------------------------
(* Nothing is lost, no id stays in flight. *)

LEMMA FlightStep == ASSUME Steps, InFlightIsHandled, Next PROVE InFlightIsHandled'
<1>0. TypeOK /\ InFlightIsHandled
  BY DEF Steps
<1>1. CASE UNCHANGED <<work, inFlight>>
  BY <1>0, <1>1 DEF InFlightIsHandled, Held, Busy
<1>2. ASSUME NEW h \in Handlers, NEW m \in Messages, Take(h, m)
      PROVE  InFlightIsHandled'
  <2>1. /\ work'[h].pc = "sending" /\ work'[h].msg = m /\ inFlight' = inFlight \cup {m.id}
        /\ ~Busy(h) /\ \A g \in Handlers \ {h} : work'[g] = work[g]
    BY <1>0, <1>2 DEF Take, Holding, TypeOK
  <2>2. QED
    BY <1>0, <2>1 DEF InFlightIsHandled, Held, Busy
<1>3. ASSUME NEW h \in Handlers,
             Accept(h) \/ Rejected(h) \/ Fails(h) \/ StoreCopy(h) \/ Bury(h)
      PROVE  InFlightIsHandled'
  <2>1. PICK p \in Pcs : Goes(h, p)
    BY <1>3, Going
  <2>2. UNCHANGED inFlight
    BY <1>3 DEF Accept, Rejected, Fails, StoreCopy, Bury, cache
  <2>3. /\ work'[h].pc = p /\ work'[h].msg = work[h].msg /\ p # "idle"
        /\ \A g \in Handlers \ {h} : work'[g] = work[g]
    BY <1>0, <2>1, GoType DEF Goes, Pcs
  <2>4. QED
    BY <1>0, <2>2, <2>3 DEF InFlightIsHandled, Held, Busy
<1>4. ASSUME NEW h \in Handlers, Answered(h) \/ AckOriginal(h) \/ PublishFails(h)
      PROVE  InFlightIsHandled'
  BY <1>0, <1>4, Ending, FreeType DEF InFlightIsHandled, Held, Busy
<1>5. CASE Crash
  BY <1>5 DEF Crash, InFlightIsHandled
<1>6. CASE Drop
  <2>1. inFlight' = inFlight
    BY <1>6 DEF Drop, cache
  <2>2. QED
    BY <1>0, <1>6, <2>1, Dropping DEF InFlightIsHandled, Held, Busy
<1>7. ASSUME NEW id \in Ids, Publish(id) \/ Evict(id)
      PROVE  InFlightIsHandled'
  BY <1>1, <1>7 DEF Publish, Evict, cache
<1>8. ASSUME NEW m \in Messages, SkipDuplicate(m) \/ RetryExpires(m)
      PROVE  InFlightIsHandled'
  BY <1>1, <1>8 DEF SkipDuplicate, RetryExpires, cache
<1>9. QED
  BY <1>2, <1>3, <1>4, <1>5, <1>6, <1>7, <1>8, Acts

\* Counters of the history only grow.
LEMMA HistoryGrows ==
  ASSUME Steps, Next, NEW id \in Ids
  PROVE  /\ (\E h \in Handlers : Accept(h)) \/ sent'[id] = sent[id]
         /\ sent[id] > 0 => sent'[id] > 0
         /\ Publish(id) \/ published'[id] = published[id]
         /\ id \in dlq => id \in dlq'
<1>0. TypeOK /\ \A h \in Handlers : Busy(h) => work[h].msg.id \in Ids
  BY BusyHasJob DEF Steps, Jobs, Messages
<1>1. ASSUME NEW h \in Handlers, Accept(h)
      PROVE  (sent[id] > 0 => sent'[id] > 0) /\ published' = published /\ dlq' = dlq
  BY <1>0, <1>1 DEF Accept, Busy, TypeOK, broker
<1>2. ASSUME NEW x \in Ids, Publish(x)
      PROVE  sent' = sent /\ dlq' = dlq /\ (x # id => published'[id] = published[id])
  BY <1>0, <1>2 DEF Publish, TypeOK
<1>3. CASE \/ \E x \in Ids : Evict(x)
           \/ \E m \in Messages : SkipDuplicate(m) \/ RetryExpires(m)
           \/ \E h \in Handlers, m \in Messages : Take(h, m)
           \/ Crash \/ Drop
  BY <1>3 DEF Evict, SkipDuplicate, RetryExpires, Take, Crash, Drop, history, broker
<1>4. CASE \E h \in Handlers : \/ Answered(h) \/ Rejected(h) \/ Fails(h) \/ StoreCopy(h)
                              \/ Bury(h) \/ AckOriginal(h) \/ PublishFails(h)
  BY <1>4 DEF Answered, Rejected, Fails, StoreCopy, Bury, AckOriginal, PublishFails, history,
       broker
<1>5. QED
  BY <1>1, <1>2, <1>3, <1>4, Acts

\* A message that is put into a queue, or left there, is queued.
LEMMA QueuedNow ==
  ASSUME TypeOK', NEW m \in Messages, main'[m] > 0 \/ retry'[m] > 0
  PROVE  Queued(m.id)'
BY DEF TypeOK, Queued

\* What is kept stays kept, unless its channel is lost or a confirm is slow.
LEMMA KeptStep ==
  ASSUME Steps, CopiesWait, InFlightIsHandled, Next, {"drop", "slow"} \cap env = {},
         NEW id \in Ids, Kept(id)
  PROVE  Kept(id)'
<1>0. /\ TypeOK /\ TypeOK' /\ HeldAlone /\ SeenWasSent /\ HandlersDid /\ CopiesWait
      /\ "slow" \notin env /\ "drop" \notin env /\ \A h \in Handlers : Busy(h) => work[h].live
  BY StepsStep DEF Steps, StaysLive
<1>1. CASE sent[id] > 0 \/ id \in dlq
  BY <1>1, HistoryGrows DEF Kept
<1>2. ASSUME NEW o \in Messages, o.id = id, main[o] + retry[o] > 0
      PROVE  Kept(id)'
  <2>0. main[o] \in Nat /\ retry[o] \in Nat /\ main'[o] \in Nat /\ retry'[o] \in Nat
    BY <1>0 DEF TypeOK
  <2>1. CASE main'[o] + retry'[o] > 0
    BY <1>2, <2>1 DEF Kept, Queued
  <2>2. CASE main'[o] + retry'[o] = 0
    <3>1. (\E h \in Handlers : Take(h, o)) \/ SkipDuplicate(o)
      <4>1. ASSUME NEW x \in Ids, Publish(x) \/ Evict(x)
            PROVE  FALSE
        BY <1>0, <1>2, <2>0, <2>2, <4>1 DEF Publish, Evict, broker, TypeOK
      <4>2. ASSUME NEW m \in Messages, m # o, SkipDuplicate(m)
            PROVE  FALSE
        BY <1>0, <1>2, <2>0, <2>2, <4>2 DEF SkipDuplicate, TypeOK
      <4>3. ASSUME NEW m \in Messages, RetryExpires(m)
            PROVE  FALSE
        BY <1>0, <1>2, <2>0, <2>2, <4>3 DEF RetryExpires, TypeOK
      <4>4. ASSUME NEW h \in Handlers, NEW m \in Messages, m # o, Take(h, m)
            PROVE  FALSE
        BY <1>0, <1>2, <2>0, <2>2, <4>4 DEF Take, TypeOK
      <4>5. ASSUME NEW h \in Handlers,
                   Accept(h) \/ Answered(h) \/ Rejected(h) \/ Fails(h) \/ Bury(h)
                   \/ AckOriginal(h)
            PROVE  FALSE
        BY <1>0, <1>2, <2>0, <2>2, <4>5
           DEF Accept, Answered, Rejected, Fails, Bury, AckOriginal, broker
      <4>6. ASSUME NEW h \in Handlers, StoreCopy(h)
            PROVE  FALSE
        BY <1>0, <1>2, <2>0, <2>2, <4>6 DEF StoreCopy, TypeOK
      <4>7. ASSUME NEW h \in Handlers, PublishFails(h)
            PROVE  FALSE
        BY <1>0, <1>2, <2>0, <2>2, <4>7 DEF PublishFails, TypeOK
      <4>8. ASSUME Crash \/ Drop
            PROVE  FALSE
        BY <1>0, <1>2, <2>0, <2>2, <4>8, RequeueType DEF Crash, Drop, TypeOK
      <4>9. QED
        BY <4>1, <4>2, <4>3, <4>4, <4>5, <4>6, <4>7, <4>8, Acts
    <3>2. CASE SkipDuplicate(o)
      <4>1. CASE id \in seen
        BY <1>0, <4>1, HistoryGrows DEF SeenWasSent, Kept
      <4>2. CASE id \in inFlight
        BY <3>2, <4>2 DEF SkipDuplicate, InFlightIsHandled, Held, Busy, Kept
      <4>3. QED
        BY <1>2, <3>2, <4>1, <4>2 DEF SkipDuplicate, Known
    <3>3. ASSUME NEW h \in Handlers, Take(h, o)
          PROVE  Kept(id)'
      <4>1. work'[h].pc = "sending" /\ work'[h].msg = o
        BY <1>0, <3>3 DEF Take, Holding, TypeOK
      <4>2. QED
        BY <1>2, <4>1 DEF Kept, Held, Busy
    <3>4. QED
      BY <3>1, <3>2, <3>3
  <2>3. QED
    BY <2>0, <2>1, <2>2
<1>3. ASSUME NEW h \in Handlers, Busy(h), work[h].msg.id = id
      PROVE  Kept(id)'
  <2>0. work[h] \in Jobs /\ work[h].msg \in Messages
    BY <1>0, <1>3, BusyHasJob DEF Jobs
  <2>1. CASE Busy(h)' /\ work'[h].msg.id = id
    BY <2>1 DEF Kept, Held
  <2>2. CASE ~(Busy(h)' /\ work'[h].msg.id = id)
    <3>1. Answered(h) \/ AckOriginal(h) \/ PublishFails(h) \/ Crash
      <4>1. ASSUME work' = work
            PROVE  FALSE
        BY <1>3, <2>2, <4>1 DEF Busy
      <4>2. ASSUME NEW g \in Handlers, NEW m \in Messages, Take(g, m)
            PROVE  FALSE
        BY <1>0, <1>3, <2>2, <4>2 DEF Take, Busy, TypeOK
      <4>3. ASSUME NEW g \in Handlers,
                   Accept(g) \/ Rejected(g) \/ Fails(g) \/ StoreCopy(g) \/ Bury(g)
            PROVE  FALSE
        <5>1. PICK p \in Pcs : Goes(g, p)
          BY <4>3, Going
        <5>2. /\ work'[g].pc = p /\ work'[g].msg = work[g].msg /\ p # "idle"
              /\ \A f \in Handlers \ {g} : work'[f] = work[f]
          BY <1>0, <5>1, GoType DEF Goes, Pcs
        <5>3. QED
          BY <1>3, <2>2, <5>2 DEF Busy
      <4>4. ASSUME NEW g \in Handlers, g # h,
                   Answered(g) \/ AckOriginal(g) \/ PublishFails(g)
            PROVE  FALSE
        BY <1>0, <1>3, <2>2, <4>4, Ending, FreeType DEF Busy
      <4>5. ~Drop
        BY <1>0 DEF Drop, Fault
      <4>6. ASSUME NEW x \in Ids, Publish(x) \/ Evict(x)
            PROVE  work' = work
        BY <4>6 DEF Publish, Evict
      <4>7. ASSUME NEW m \in Messages, SkipDuplicate(m) \/ RetryExpires(m)
            PROVE  work' = work
        BY <4>7 DEF SkipDuplicate, RetryExpires
      <4>8. QED
        BY <4>1, <4>2, <4>3, <4>4, <4>5, <4>6, <4>7, Acts
    <3>2. CASE Answered(h)
      <4>1. sent[id] > 0
        BY <1>0, <1>3, <3>2 DEF Answered, HandlersDid
      <4>2. QED
        BY <4>1, HistoryGrows DEF Kept
    <3>3. CASE AckOriginal(h) /\ work[h].pc = "buried"
      <4>1. id \in dlq
        BY <1>0, <1>3, <3>3 DEF HandlersDid
      <4>2. QED
        BY <4>1, HistoryGrows DEF Kept
    <3>4. CASE AckOriginal(h) /\ work[h].pc = "stored"
      <4>1. PICK c \in Messages : c.id = id /\ c.n = work[h].msg.n + 1
        <5>1. [work[h].msg EXCEPT !.n = @ + 1] \in Messages
          BY <1>0, <2>0, <3>4, Constant DEF HandlersDid, Exhausted, Messages
        <5>2. QED
          BY <1>3, <2>0, <5>1 DEF Messages
      <4>2. h \in Unconfirmed(c)
        BY <1>3, <3>4, <4>1 DEF Unconfirmed
      <4>3. Cardinality(Unconfirmed(c)) > 0
        BY <4>2, UnconfirmedType, FS_EmptySet
      <4>4. retry[c] > 0 /\ retry' = retry
        BY <1>0, <3>4, <4>3, UnconfirmedType DEF CopiesWait, TypeOK, AckOriginal, broker
      <4>5. QED
        BY <1>0, <4>1, <4>4, QueuedNow DEF Kept
    <3>5. CASE PublishFails(h)
      <4>1. main'[work[h].msg] > 0
        BY <1>0, <1>3, <2>0, <3>5 DEF PublishFails, TypeOK
      <4>2. QED
        BY <1>0, <1>3, <2>0, <4>1, QueuedNow DEF Kept
    <3>6. CASE Crash
      <4>1. main'[work[h].msg] > 0
        BY <1>0, <1>3, <3>6, RequeueType DEF Crash, Live
      <4>2. QED
        BY <1>0, <1>3, <2>0, <4>1, QueuedNow DEF Kept
    <3>7. QED
      BY <3>1, <3>2, <3>3, <3>4, <3>5, <3>6 DEF AckOriginal
  <2>3. QED
    BY <2>1, <2>2
<1>4. QED
  BY <1>1, <1>2, <1>3 DEF Kept, Queued, Held

\* A message is published into the queue, and kept from then on.
LEMMA LostStep ==
  ASSUME Steps, CopiesWait, InFlightIsHandled, NothingLost, Next
  PROVE  NothingLost'
<1>0. env' = env /\ TypeOK' /\ TypeOK
  BY StepsStep DEF Next, Steps
<1>1. SUFFICES ASSUME {"drop", "slow"} \cap env = {}, NEW id \in Ids, published'[id] > 0
               PROVE  Kept(id)'
  BY <1>0 DEF NothingLost
<1>2. CASE published[id] > 0
  BY <1>1, <1>2, KeptStep DEF NothingLost
<1>3. CASE ~(published[id] > 0)
  <2>1. Publish(id)
    BY <1>1, <1>3, HistoryGrows
  <2>2. [id |-> id, n |-> 0] \in Messages
    BY Constant DEF Messages
  <2>3. main'[[id |-> id, n |-> 0]] > 0
    BY <1>0, <2>1, <2>2 DEF Publish, TypeOK
  <2>4. QED
    BY <1>0, <2>2, <2>3, QueuedNow DEF Kept
<1>4. QED
  BY <1>2, <1>3

-----------------------------------------------------------------------------
(* At most once. *)

\* Telegram takes a message that it has not been sent.
LEMMA AcceptIsFirst ==
  ASSUME Steps, SentIsKnown, AtMostOnce, {"crash", "lost", "ttl"} \cap env = {},
         NEW h \in Handlers, Accept(h), NEW id \in Ids
  PROVE  /\ sent'[id] <= 1
         /\ id # work[h].msg.id => sent'[id] = sent[id]
<1>0. TypeOK /\ HeldAlone /\ SeenWasSent
  BY DEF Steps
<1>1. CASE id # work[h].msg.id
  BY <1>0, <1>1 DEF Accept, AtMostOnce, TypeOK
<1>2. CASE id = work[h].msg.id
  <2>1. id \in inFlight /\ id \notin seen
    BY <1>0, <1>2 DEF Accept, HeldAlone, SeenWasSent, Busy
  <2>2. ~\E g \in Handlers : work[g].pc = "accepted" /\ work[g].msg.id = id
    BY <1>0, <1>2 DEF Accept, HeldAlone, Busy
  <2>3. sent[id] = 0
    BY <1>0, <2>1, <2>2 DEF SentIsKnown, TypeOK
  <2>4. QED
    BY <1>0, <1>2, <2>3 DEF Accept, TypeOK
<1>3. QED
  BY <1>1, <1>2

LEMMA OnceStep ==
  ASSUME Steps, SentIsKnown, AtMostOnce, Next
  PROVE  SentIsKnown' /\ AtMostOnce'
<1>0. TypeOK /\ HeldAlone /\ SeenWasSent /\ HandlersDid /\ env' = env
  BY DEF Steps, Next
<1>1. SUFFICES ASSUME {"crash", "lost", "ttl"} \cap env = {}, NEW id \in Ids
               PROVE  /\ sent'[id] <= 1
                      /\ sent'[id] > 0 =>
                           \/ id \in seen'
                           \/ \E g \in Handlers : work'[g].pc = "accepted" /\ work'[g].msg.id = id
  BY <1>0 DEF SentIsKnown, AtMostOnce
<1>2. /\ sent[id] <= 1
      /\ sent[id] > 0 =>
           id \in seen \/ \E g \in Handlers : work[g].pc = "accepted" /\ work[g].msg.id = id
  BY <1>1 DEF SentIsKnown, AtMostOnce
<1>3. ASSUME NEW h \in Handlers, Accept(h)
      PROVE  /\ sent'[id] <= 1
             /\ sent'[id] > 0 =>
                  \/ id \in seen'
                  \/ \E g \in Handlers : work'[g].pc = "accepted" /\ work'[g].msg.id = id
  <2>1. sent'[id] <= 1 /\ (id # work[h].msg.id => sent'[id] = sent[id])
    BY <1>1, <1>3, AcceptIsFirst
  <2>2. /\ work'[h].pc = "accepted" /\ work'[h].msg = work[h].msg /\ seen' = seen
        /\ work[h].pc # "accepted"
        /\ \A g \in Handlers \ {h} : work'[g] = work[g]
    BY <1>0, <1>3, GoType DEF Accept, Busy, Pcs, cache
  <2>3. QED
    BY <1>1, <1>2, <1>3, <2>1, <2>2, AcceptIsFirst
<1>4. CASE UNCHANGED <<seen, sent>> /\ \A g \in Handlers : work[g].pc = "accepted" => work'[g] = work[g]
  BY <1>2, <1>4
<1>5. ASSUME NEW h \in Handlers, Answered(h)
      PROVE  /\ sent'[id] <= 1
             /\ sent'[id] > 0 =>
                  \/ id \in seen'
                  \/ \E g \in Handlers : work'[g].pc = "accepted" /\ work'[g].msg.id = id
  <2>1. /\ seen' = seen \cup {work[h].msg.id} /\ sent' = sent
        /\ \A g \in Handlers \ {h} : work'[g] = work[g]
    BY <1>0, <1>5, FreeType DEF Answered, history
  <2>2. QED
    BY <1>2, <2>1
<1>6. ASSUME NEW h \in Handlers, NEW m \in Messages, Take(h, m)
      PROVE  UNCHANGED <<seen, sent>>
             /\ \A g \in Handlers : work[g].pc = "accepted" => work'[g] = work[g]
  BY <1>0, <1>6 DEF Take, Busy, TypeOK, history
<1>7. ASSUME NEW h \in Handlers, Rejected(h) \/ Fails(h) \/ StoreCopy(h) \/ Bury(h)
      PROVE  UNCHANGED <<seen, sent>>
             /\ \A g \in Handlers : work[g].pc = "accepted" => work'[g] = work[g]
  <2>1. work[h].pc # "accepted" /\ UNCHANGED <<seen, sent>>
    BY <1>1, <1>7 DEF Rejected, Fails, StoreCopy, Bury, cache, history
  <2>2. PICK p \in Pcs : Goes(h, p)
    BY <1>7, Going
  <2>3. QED
    BY <1>0, <2>1, <2>2, GoType DEF Goes
<1>8. ASSUME NEW h \in Handlers, AckOriginal(h) \/ PublishFails(h)
      PROVE  UNCHANGED <<seen, sent>>
             /\ \A g \in Handlers : work[g].pc = "accepted" => work'[g] = work[g]
  <2>1. work[h].pc # "accepted" /\ UNCHANGED <<seen, sent>>
    BY <1>8 DEF AckOriginal, PublishFails, Release, history
  <2>2. QED
    BY <1>0, <1>8, <2>1, Ending, FreeType
<1>9. ASSUME NEW x \in Ids, Publish(x) \/ Evict(x)
      PROVE  UNCHANGED <<seen, sent, work>>
  BY <1>1, <1>9 DEF Publish, Evict, cache, history
<1>10. ASSUME NEW m \in Messages, SkipDuplicate(m) \/ RetryExpires(m)
       PROVE  UNCHANGED <<seen, sent, work>>
  BY <1>10 DEF SkipDuplicate, RetryExpires, cache, history
<1>11. ~Crash
  BY <1>1 DEF Crash, Fault
<1>12. CASE Drop
  <2>1. UNCHANGED <<seen, sent>>
    BY <1>12 DEF Drop, cache, history
  <2>2. \A g \in Handlers : work[g].pc = "accepted" =>
          work'[g].pc = "accepted" /\ work'[g].msg = work[g].msg
    BY <1>0, <1>12, Dropping DEF Busy
  <2>3. QED
    BY <1>2, <2>1, <2>2
<1>13. QED
  BY <1>3, <1>4, <1>5, <1>6, <1>7, <1>8, <1>9, <1>10, <1>11, <1>12, Acts

-----------------------------------------------------------------------------
\* The inductive invariant.
THEOREM Invariance == Spec => []IInv
<1>1. Init => IInv
  BY InitInv
<1>2. IInv /\ [Next]_<<vars, env>> => IInv'
  <2>1. CASE UNCHANGED <<vars, env>>
    BY <2>1 DEF vars, IInv, Steps, TypeOK, HeldAlone, SeenWasSent, HandlersDid, StaysLive,
         CopiesWait, Unconfirmed, NothingLost, Kept, Queued, Held, InFlightIsHandled,
         SentIsKnown, AtMostOnce, Busy, Exhausted
  <2>2. CASE Next
    BY <2>2, StepsStep, CopiesStep, LostStep, FlightStep, OnceStep DEF IInv
  <2>3. QED
    BY <2>1, <2>2
<1>3. QED
  BY <1>1, <1>2, PTL DEF Spec

\* While channels stay up and confirmations come in time, a published message is
\* sent, or waits in a queue, the DLQ or a handler, however often the bot dies; and
\* no id stays in flight without a handler (handle, retry, deadLetter).
THEOREM NothingIsLost == Spec => []Accounted
<1>1. IInv => Accounted
  BY DEF IInv, Steps, Accounted
<1>2. QED
  BY <1>1, Invariance, PTL

\* Without restarts and lost answers no message is sent twice, however many copies
\* of it are published, redelivered and retried (DeduplicationCache).
THEOREM SentOnce == Spec => []AtMostOnce
<1>1. IInv => AtMostOnce
  BY DEF IInv
<1>2. QED
  BY <1>1, Invariance, PTL
=============================================================================
