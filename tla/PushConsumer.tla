---------------------------- MODULE PushConsumer ----------------------------
(***************************************************************************)
(* The Telegram push consumer of apps/telegram-bot (PushConsumer,          *)
(* DeduplicationCache) between the broker and Telegram.  The API puts      *)
(* messages into the main queue, at least once; `handle` runs for up to    *)
(* `prefetch` of them at a time.  Its synchronous stretches between two    *)
(* awaits are the steps: taking a message (with dedupe.begin), the answer  *)
(* of Telegram (with ack and complete), publishing a copy into a retry     *)
(* queue or the DLQ, and acknowledging the original after it.              *)
(*                                                                         *)
(* A queue is a bag of messages [id, n], n being the retry counter in the  *)
(* header; a delivery that is not yet acknowledged is held by its handler. *)
(* When the channel is lost the broker puts such a message back, while its *)
(* handler goes on with a delivery it can no longer acknowledge.           *)
(***************************************************************************)
EXTENDS Naturals, FiniteSets

CONSTANTS
  Ids,            \* messageIds (dedup keys)
  Handlers,       \* calls of handle() at work at one time
  MaxDeliveries,  \* MAX_DELIVERIES
  MaxPublish,     \* bound: how often the API publishes one message
  MaxFaults,      \* bound: crashes, lost channels and broker errors together
  Cases           \* the sets of events to look at

\* crash: the bot restarts; drop: the channel is lost; broker: publishing fails;
\* lost: the answer of Telegram is lost; ttl: dedup entries are evicted; slow: a
\* publication is confirmed only after the TTL of the retry queue.
Events == {"crash", "drop", "broker", "lost", "ttl", "slow"}

ASSUME ConstantsAssumption ==
  /\ IsFiniteSet(Handlers)
  /\ MaxDeliveries \in Nat \ {0}
  /\ MaxPublish \in Nat
  /\ MaxFaults \in Nat
  /\ Cases \subseteq SUBSET Events

VARIABLES
  env,        \* the events that may happen in this behaviour; it never changes
  main,       \* main[m]: copies of m in the main queue
  retry,      \* retry[m]: copies of m waiting in a retry queue
  dlq,        \* ids in the dead letter queue
  work,       \* work[h]: pc, message, and whether its delivery can be acked
  seen,       \* DeduplicationCache.seen
  inFlight,   \* DeduplicationCache.inFlight
  published,  \* published[id]: how often the API has published id
  sent,       \* sent[id]: how often Telegram has taken id
  faults      \* faults so far

broker == <<main, retry, dlq>>
cache == <<seen, inFlight>>
history == <<published, sent>>
vars == <<main, retry, dlq, work, seen, inFlight, published, sent, faults>>

Messages == [id : Ids, n : 0..(MaxDeliveries - 1)]

Free == [pc |-> "idle"]
Holding(pc, m, live) == [pc |-> pc, msg |-> m, live |-> live]
Busy(h) == work[h].pc # "idle"
Live(h) == Busy(h) /\ work[h].live

Init ==
  /\ env \in Cases
  /\ main = [m \in Messages |-> 0]
  /\ retry = [m \in Messages |-> 0]
  /\ dlq = {}
  /\ work = [h \in Handlers |-> Free]
  /\ seen = {}
  /\ inFlight = {}
  /\ published = [id \in Ids |-> 0]
  /\ sent = [id \in Ids |-> 0]
  /\ faults = 0

\* A fault of the given kind, while the budget lasts.
Fault(kind) ==
  /\ kind \in env
  /\ faults < MaxFaults
  /\ faults' = faults + 1

Go(h, pc) == work' = [work EXCEPT ![h].pc = pc]

\* The end of handle without a delivery: finally, dedupe.release.
Release(h) ==
  /\ work' = [work EXCEPT ![h] = Free]
  /\ inFlight' = inFlight \ {work[h].msg.id}
  /\ UNCHANGED seen

-----------------------------------------------------------------------------
\* RabbitMqPublisher.publish of the API; the relay may publish a row again.
Publish(id) ==
  /\ published[id] < MaxPublish
  /\ published' = [published EXCEPT ![id] = @ + 1]
  /\ main' = [main EXCEPT ![[id |-> id, n |-> 0]] = @ + 1]
  /\ UNCHANGED <<retry, dlq, work, cache, sent, faults>>

\* Mutant of Known: only finished deliveries are known.
Known_Seen(id) == id \in seen

\* dedupe.begin is false for an id that was sent or is being sent,
Known(id) == id \in seen \cup inFlight

\* and its message is acknowledged unread.
SkipDuplicate(m) ==
  /\ main[m] > 0
  /\ Known(m.id)
  /\ main' = [main EXCEPT ![m] = @ - 1]
  /\ UNCHANGED <<retry, dlq, work, cache, history, faults>>

\* Mutant of Take: the id is remembered as delivered before it is sent.
Take_SeenFirst(h, m) ==
  /\ ~Busy(h)
  /\ main[m] > 0
  /\ ~Known(m.id)
  /\ main' = [main EXCEPT ![m] = @ - 1]
  /\ work' = [work EXCEPT ![h] = Holding("sending", m, TRUE)]
  /\ seen' = seen \cup {m.id}
  /\ UNCHANGED <<retry, dlq, inFlight, history, faults>>

\* handle up to api.sendMessage.
Take(h, m) ==
  /\ ~Busy(h)
  /\ main[m] > 0
  /\ ~Known(m.id)
  /\ main' = [main EXCEPT ![m] = @ - 1]
  /\ work' = [work EXCEPT ![h] = Holding("sending", m, TRUE)]
  /\ inFlight' = inFlight \cup {m.id}
  /\ UNCHANGED <<retry, dlq, seen, history, faults>>

\* Telegram takes the message.
Accept(h) ==
  /\ work[h].pc = "sending"
  /\ sent' = [sent EXCEPT ![work[h].msg.id] = @ + 1]
  /\ Go(h, "accepted")
  /\ UNCHANGED <<broker, cache, published, faults>>

\* sendMessage resolves: ack, dedupe.complete.
Answered(h) ==
  /\ work[h].pc = "accepted"
  /\ work' = [work EXCEPT ![h] = Free]
  /\ inFlight' = inFlight \ {work[h].msg.id}
  /\ seen' = seen \cup {work[h].msg.id}
  /\ UNCHANGED <<broker, history, faults>>

\* sendMessage rejects for good, or the envelope is invalid: the DLQ is next.
Rejected(h) ==
  /\ work[h].pc = "sending"
  /\ Go(h, "bury")
  /\ UNCHANGED <<broker, cache, history, faults>>

\* sendMessage fails for now, or its answer is lost: a retry, if one is left.
Exhausted(m) == m.n + 1 >= MaxDeliveries

Fails(h) ==
  /\ \/ work[h].pc = "sending"
     \/ work[h].pc = "accepted" /\ "lost" \in env
  /\ Go(h, IF Exhausted(work[h].msg) THEN "bury" ELSE "copy")
  /\ UNCHANGED <<broker, cache, history, faults>>

\* retry: a copy with the next counter goes into a retry queue,
StoreCopy(h) ==
  /\ work[h].pc = "copy"
  /\ retry' = [retry EXCEPT ![[work[h].msg EXCEPT !.n = @ + 1]] = @ + 1]
  /\ Go(h, "stored")
  /\ UNCHANGED <<main, dlq, cache, history, faults>>

\* deadLetter: a copy goes into the DLQ,
Bury(h) ==
  /\ work[h].pc = "bury"
  /\ dlq' = dlq \cup {work[h].msg.id}
  /\ Go(h, "buried")
  /\ UNCHANGED <<main, retry, cache, history, faults>>

\* and then the original is acknowledged.
AckOriginal(h) ==
  /\ work[h].pc \in {"stored", "buried"}
  /\ Release(h)
  /\ UNCHANGED <<broker, history, faults>>

\* Mutant of PublishFails: the original is not given back.
PublishFails_NoRequeue(h) ==
  /\ work[h].pc \in {"copy", "bury", "stored", "buried"}
  /\ Fault("broker")
  /\ Release(h)
  /\ UNCHANGED <<broker, history>>

\* Publishing fails, with the copy stored or not: nack puts the original back.
PublishFails(h) ==
  /\ work[h].pc \in {"copy", "bury", "stored", "buried"}
  /\ Fault("broker")
  /\ main' = IF work[h].live THEN [main EXCEPT ![work[h].msg] = @ + 1] ELSE main
  /\ Release(h)
  /\ UNCHANGED <<retry, dlq, history>>

-----------------------------------------------------------------------------
\* Copies of m whose publisher still waits for the confirm of the broker.
Unconfirmed(m) == {h \in Handlers : /\ work[h].pc = "stored"
                                    /\ work[h].msg.id = m.id
                                    /\ work[h].msg.n + 1 = m.n}

\* The TTL of a retry queue, a second or more, passes: the message goes back
\* to the main queue.  The confirm comes first, unless the broker is slow.
RetryExpires(m) ==
  /\ retry[m] > IF "slow" \in env THEN 0 ELSE Cardinality(Unconfirmed(m))
  /\ retry' = [retry EXCEPT ![m] = @ - 1]
  /\ main' = [main EXCEPT ![m] = @ + 1]
  /\ UNCHANGED <<dlq, work, cache, history, faults>>

\* DeduplicationCache.evict: an entry is too old, or the oldest of too many.
Evict(id) ==
  /\ "ttl" \in env
  /\ id \in seen
  /\ seen' = seen \ {id}
  /\ UNCHANGED <<broker, work, inFlight, history, faults>>

\* The broker puts back what was delivered and not acknowledged.
Requeue ==
  main' = [m \in Messages |->
             main[m] + Cardinality({h \in Handlers : Live(h) /\ work[h].msg = m})]

\* The bot restarts.
Crash ==
  /\ Fault("crash")
  /\ Requeue
  /\ work' = [h \in Handlers |-> Free]
  /\ seen' = {}
  /\ inFlight' = {}
  /\ UNCHANGED <<retry, dlq, history>>

\* The channel is lost and comes back; the handlers go on.
Drop ==
  /\ Fault("drop")
  /\ Requeue
  /\ work' = [h \in Handlers |->
                IF Busy(h) THEN [work[h] EXCEPT !.live = FALSE] ELSE Free]
  /\ UNCHANGED <<retry, dlq, cache, history>>

-----------------------------------------------------------------------------
HandlerStep(h) ==
  \/ Accept(h) \/ Answered(h) \/ Rejected(h) \/ Fails(h)
  \/ StoreCopy(h) \/ Bury(h) \/ AckOriginal(h)

Step ==
  \/ \E id \in Ids : Publish(id) \/ Evict(id)
  \/ \E m \in Messages : SkipDuplicate(m) \/ RetryExpires(m)
  \/ \E h \in Handlers :
       \/ HandlerStep(h) \/ PublishFails(h)
       \/ \E m \in Messages : Take(h, m)
  \/ Crash \/ Drop

Next == Step /\ UNCHANGED env

Spec == Init /\ [][Next]_<<vars, env>>

\* The bot goes on, the broker delivers, TTLs pass; nobody has to publish and
\* no fault has to happen.
Fairness ==
  /\ \A h \in Handlers : WF_vars(HandlerStep(h))
  /\ \A m \in Messages : /\ WF_vars(SkipDuplicate(m))
                         /\ WF_vars(RetryExpires(m))
                         /\ WF_vars(\E h \in Handlers : Take(h, m))

FairSpec == Spec /\ Fairness

-----------------------------------------------------------------------------
Pcs == {"sending", "accepted", "copy", "bury", "stored", "buried"}

TypeOK ==
  /\ env \in Cases
  /\ main \in [Messages -> Nat]
  /\ retry \in [Messages -> Nat]
  /\ dlq \subseteq Ids
  /\ work \in [Handlers -> [pc : {"idle"}]
                  \cup [pc : Pcs, msg : Messages, live : BOOLEAN]]
  /\ seen \subseteq Ids
  /\ inFlight \subseteq Ids
  /\ published \in [Ids -> Nat]
  /\ sent \in [Ids -> Nat]
  /\ faults \in 0..MaxFaults

Queued(id) == \E m \in Messages : m.id = id /\ main[m] + retry[m] > 0
Held(id) == \E h \in Handlers : Busy(h) /\ work[h].msg.id = id

\* While channels stay up and the broker confirms in time, a message the API
\* has published reached Telegram, or lies in a queue or in
\* the DLQ, or is being handled: the copy is stored before the original is
\* acknowledged, and an id is remembered only after it was sent (retry,
\* deadLetter, DeduplicationCache).
Kept(id) == sent[id] > 0 \/ id \in dlq \/ Queued(id) \/ Held(id)

NothingLost ==
  {"drop", "slow"} \cap env = {} => \A id \in Ids : published[id] > 0 => Kept(id)

\* While the bot does not restart and answers are not lost, a message is sent
\* once, although it is published, redelivered and retried more than once and
\* several handlers run (dedupe.begin, complete).
AtMostOnce ==
  {"crash", "lost", "ttl"} \cap env = {} => \A id \in Ids : sent[id] <= 1

\* No id stays in inFlight when its handler has ended: its next copy would be
\* acknowledged unread (finally of handle).
InFlightIsHandled == \A id \in inFlight : Held(id)

\* Once faults end, a published message is sent or in the DLQ.
Resolved ==
  \A id \in Ids :
    ({"drop", "slow"} \cap env = {} /\ published[id] > 0) ~> (sent[id] > 0 \/ id \in dlq)

\* Every message is accounted for: stored, in a handler's hands or done with, and
\* no id is held back for a handler that is not there (handle, retry,
\* deadLetter, DeduplicationCache).
Accounted == TypeOK /\ NothingLost /\ InFlightIsHandled
=============================================================================
