-------------------------------- MODULE Booking --------------------------------
(***************************************************************************)
(* Match requests, the availability slots they reserve and the cards of    *)
(* the showcase the slots belong to: matchmaking.service.ts, matchmaking-  *)
(* cron.service.ts, showcase.service.ts, showcase-cron.service.ts.         *)
(*                                                                         *)
(* Every operation reads first, outside its transaction, and writes later. *)
(* create, accept, update and the expiry cron write in a Serializable      *)
(* transaction, reject and cancel in one that locks the row of the request *)
(* by comparing its status; each transaction is one step here.  A          *)
(* serialization conflict is retried or refused and changes nothing.       *)
(*                                                                         *)
(* A slot has a fixed card and a fixed time (an instant; the times differ  *)
(* exactly when the intervals do not overlap).  A meeting (InterviewSession*)
(* with scheduledAt) is kept as the slot whose startsAt it has.            *)
(*                                                                         *)
(* Left out: the outgoing limit (the same check as the incoming one), the  *)
(* limit of active cards, bumps, notifications, mails and caches.          *)
(***************************************************************************)
EXTENDS Naturals, FiniteSets

CONSTANTS
  Users,        \* people
  Cards,        \* showcase cards
  Slots,        \* availability slots, of all cards
  Requests,     \* match requests
  Callers,      \* HTTP requests that are being handled
  None,         \* no slot, no request, no card
  Owner,        \* Owner[c]: the user a card belongs to
  CardOf,       \* CardOf[s]: the card of a slot
  TimeOf,       \* TimeOf[s]: the time of a slot
  FirstSlots,   \* the slots the cards begin with
  MaxIncoming,  \* MAX_PENDING_INCOMING_PER_CARD
  MaxSlots,     \* MAX_SLOTS_PER_CARD
  Cases         \* the sets of events to look at

\* decide: reject, cancel; expire: requests expire and cooldowns end; pass: the
\* times of slots pass; edit: the owner edits the schedule; cards: a card's
\* status changes, or it is removed; bare: the cards have no schedule yet;
\* full: other people's requests leave one place under the limit of each card.
Events == {"decide", "expire", "pass", "edit", "cards", "bare", "full"}

ASSUME ConstantsAssumption ==
  /\ IsFiniteSet(Slots) /\ IsFiniteSet(Requests)
  /\ None \notin Slots \cup Requests \cup Cards \cup Users
  /\ Owner \in [Cards -> Users]
  /\ CardOf \in [Slots -> Cards]
  /\ FirstSlots \subseteq Slots
  /\ \A s, t \in FirstSlots :
       s # t /\ CardOf[s] = CardOf[t] => TimeOf[s] # TimeOf[t]
  /\ MaxIncoming \in Nat \ {0} /\ MaxSlots \in Nat
  /\ Cases \subseteq SUBSET Events

VARIABLES
  env,   \* the events that may happen in this behaviour; it never changes
  card,  \* card[c]: status ("gone" when removed), and whether expiresAt passed
  slot,  \* slot[s]: status ("new" before it exists), bookedByRequestId, and
         \*   whether startsAt has passed
  req,   \* req[r]: status, senderId, target card, slotId, the slot whose time
         \*   its meeting has; due: expiresAt (REJECTED: the cooldown) has
         \*   passed; raced: its slot was switched under a call that had read it
  call   \* call[p]: where a call is, and what it has read

vars == <<card, slot, req, call>>

NoReq == [st |-> "new", from |-> None, card |-> None, slot |-> None,
          meet |-> None, due |-> FALSE, raced |-> FALSE]
NoCall == [pc |-> "idle", user |-> None, card |-> None, slot |-> None,
           req |-> None, flag |-> FALSE, open |-> {}, want |-> {}]
Unused == [st |-> "new", by |-> None, past |-> FALSE]

Init ==
  /\ env \in Cases
  /\ card = [c \in Cards |-> [st |-> "ACTIVE", due |-> FALSE]]
  /\ slot = [s \in Slots |-> IF s \in FirstSlots /\ "bare" \notin env
                             THEN [Unused EXCEPT !.st = "OPEN"] ELSE Unused]
  /\ req = [r \in Requests |-> NoReq]
  /\ call = [p \in Callers |-> NoCall]

SlotsOf(c) == {s \in Slots : CardOf[s] = c}
Fresh(r) == req[r] = NoReq /\ r = CHOOSE q \in Requests : req[q] = NoReq
LiveSlots(c) == {s \in SlotsOf(c) : slot[s].st \in {"OPEN", "BOOKED"}}
Pending(r) == req[r].st = "PENDING"
Receiver(r) == Owner[req[r].card]
Others == IF "full" \in env THEN MaxIncoming - 1 ELSE 0
PendingOn(c) == {r \in Requests : Pending(r) /\ req[r].card = c}

\* A call begins with what it has read; it ends.  Idle calls are alike, and so
\* are fresh requests.
Begin(p, k) ==
  /\ call[p] = NoCall
  /\ p = CHOOSE q \in Callers : call[q] = NoCall
  /\ call' = [call EXCEPT ![p] = k]
End(p) == call' = [call EXCEPT ![p] = NoCall]

\* Calls that have read request r and will write by what they read.
Decisions == {"accept", "lapse", "reject", "cancel"}
Overtaken(r) == \E p \in Callers : call[p].pc \in Decisions /\ call[p].req = r

\* claimSlot and releaseSlot as functions of the table.
Claimed(t, s, r) == [t EXCEPT ![s].st = "BOOKED", ![s].by = r]

\* Mutant of Released: whoever holds the slot.
Released_AnyHolder(t, s, r) ==
  IF s # None /\ t[s].st = "BOOKED"
  THEN [t EXCEPT ![s].st = "OPEN", ![s].by = None] ELSE t

Released(t, s, r) ==
  IF s # None /\ t[s].st = "BOOKED" /\ t[s].by = r
  THEN [t EXCEPT ![s].st = "OPEN", ![s].by = None] ELSE t

-----------------------------------------------------------------------------
\* create, the checks before the transaction: the card is active and not the
\* sender's, and the slot, if the card has a schedule, is on it and ahead.
\* flag: a schedule is involved, so there is no auto-match.
CreateRead(p, u, c, s) ==
  /\ card[c].st = "ACTIVE" /\ ~card[c].due
  /\ Owner[c] # u
  /\ IF LiveSlots(c) = {} THEN s = None /\ (SlotsOf(c) # {} \/ "bare" \in env)
     ELSE s \in LiveSlots(c) /\ ~slot[s].past
  /\ \E own \in {FALSE} \cup {LiveSlots(d) # {} : d \in {d \in Cards :
                                 Owner[d] = u /\ card[d].st = "ACTIVE"}} :
       Begin(p, [NoCall EXCEPT !.pc = "create", !.user = u, !.card = c,
                               !.slot = s, !.flag = own \/ LiveSlots(c) # {}])
  /\ UNCHANGED <<card, slot, req>>

\* In the transaction: the limit of the card, the cooldown after a rejection.
MayRequest(k) ==
  /\ Cardinality(PendingOn(k.card)) + Others < MaxIncoming
  /\ \A r \in Requests :
       req[r].st = "REJECTED" /\ req[r].from = k.user
         => Receiver(r) # Owner[k.card] \/ req[r].due

Existing(k) == {r \in PendingOn(k.card) : req[r].from = k.user}

\* Requests of the card's owner to the sender.
Cross(k) ==
  {r \in Requests : Pending(r) /\ ~req[r].due
                      /\ req[r].from = Owner[k.card] /\ Receiver(r) = k.user}

\* switchRequestSlot: the sender's pending request moves to another slot; a
\* slot that is not OPEN any more rolls everything back.
SwitchSlot(p, r) ==
  LET s == call[p].slot IN
  /\ IF s = req[r].slot THEN UNCHANGED <<slot, req>>
     ELSE /\ slot[s].st = "OPEN"
          /\ slot' = Claimed(Released(slot, req[r].slot, r), s, r)
          /\ req' = [req EXCEPT ![r].slot = s, ![r].due = FALSE,
                                ![r].raced = @ \/ Overtaken(r)]
  /\ End(p)
  /\ UNCHANGED card

\* A new PENDING request, with its slot if it has one.
Insert(p, r) ==
  LET k == call[p] IN
  /\ Existing(k) = {}
  /\ req' = [req EXCEPT ![r] = [NoReq EXCEPT !.st = "PENDING", !.from = k.user,
                                             !.card = k.card, !.slot = k.slot]]
  /\ IF k.slot = None THEN UNCHANGED slot
     ELSE slot[k.slot].st = "OPEN" /\ slot' = Claimed(slot, k.slot, r)
  /\ End(p)
  /\ UNCHANGED card

\* Mutant of CreateTx: the limit is not looked at again.
CreateTx_NoLimit(p) ==
  LET k == call[p] IN
  /\ k.pc = "create" /\ card[k.card].st # "gone"
  /\ IF k.slot # None /\ Existing(k) # {}
     THEN \E r \in Existing(k) : SwitchSlot(p, r)
     ELSE \E r \in Requests : Fresh(r) /\ Insert(p, r)

\* The Serializable transaction of create.  An opposite request is matched
\* first: createLiveMatchSession commits its session on its own.
CreateTx(p) ==
  LET k == call[p] IN
  /\ k.pc = "create" /\ card[k.card].st # "gone"
  /\ MayRequest(k)
  /\ IF k.slot # None /\ Existing(k) # {}
     THEN \E r \in Existing(k) : SwitchSlot(p, r)
     ELSE IF ~k.flag /\ Cross(k) # {}
     THEN /\ \E r \in Cross(k) :
               call' = [call EXCEPT ![p].pc = "match", ![p].req = r]
          /\ UNCHANGED <<card, slot, req>>
     ELSE \E r \in Requests : Fresh(r) /\ Insert(p, r)

\* The rest of the auto-match.  The opposite request and the new one get the
\* same sessionId, which is unique (schema.prisma): the insert fails, all is
\* rolled back, cleanupOrphanedSession deletes the session and the answer is
\* 409.  A conflict with another transaction is retried after the clean-up.
AutoMatchFails(p) ==
  /\ call[p].pc = "match"
  /\ \E pc \in {"conflict", "create"} :
       call' = [call EXCEPT ![p].pc = pc, ![p].req = None]
  /\ UNCHANGED <<card, slot, req>>

\* A second pending request of a sender for a card violates the partial unique
\* index: 409.
InsertConflicts(p) ==
  LET k == call[p] IN
  /\ k.pc = "create" /\ k.slot = None /\ Existing(k) # {}
  /\ MayRequest(k) /\ (k.flag \/ Cross(k) = {})
  /\ call' = [call EXCEPT ![p].pc = "conflict"]
  /\ UNCHANGED <<card, slot, req>>

-----------------------------------------------------------------------------
\* accept, reject and cancel read the request, its slot with it, and then write
\* if it is still PENDING.
Read(p, r, pc) ==
  /\ Pending(r)
  /\ Begin(p, [NoCall EXCEPT !.pc = pc, !.req = r, !.slot = req[r].slot])
  /\ UNCHANGED <<card, slot, req>>

AcceptRead(p, r) ==
  \/ req[r].due /\ Read(p, r, "lapse")
  \/ /\ ~req[r].due
     /\ req[r].slot # None => ~slot[req[r].slot].past
     /\ Read(p, r, "accept")
RejectRead(p, r) == "decide" \in env /\ Read(p, r, "reject")
CancelRead(p, r) == "decide" \in env /\ Read(p, r, "cancel")

\* Mutant of AcceptTx: the row is written by id alone.
AcceptTx_NoCompare(p) ==
  LET k == call[p] IN
  /\ k.pc = "accept" /\ req[k.req].st # "new"
  /\ req' = [req EXCEPT ![k.req].st = "ACCEPTED", ![k.req].meet = k.slot]
  /\ End(p)
  /\ UNCHANGED <<card, slot>>

\* The meeting gets the time of the slot that was read before the transaction.
AcceptTx(p) ==
  LET k == call[p] IN
  /\ k.pc = "accept" /\ Pending(k.req)
  /\ req' = [req EXCEPT ![k.req].st = "ACCEPTED", ![k.req].meet = k.slot]
  /\ End(p)
  /\ UNCHANGED <<card, slot>>

\* The other decisions release the slot that was read before.
Outcome == [lapse |-> "EXPIRED", reject |-> "REJECTED", cancel |-> "CANCELLED"]

DeclineTx(p) ==
  LET k == call[p] IN
  /\ k.pc \in DOMAIN Outcome /\ Pending(k.req)
  /\ req' = [req EXCEPT ![k.req].st = Outcome[k.pc], ![k.req].due = FALSE]
  /\ slot' = Released(slot, k.slot, k.req)
  /\ End(p)
  /\ UNCHANGED card

\* The call is refused, its transaction is rolled back, its process dies.
Refused(p) ==
  /\ call[p].pc # "idle"
  /\ End(p)
  /\ UNCHANGED <<card, slot, req>>

\* The hourly cron: every pending request that is due, and the slots that name
\* it.  Its lock only spares work: the transaction is Serializable.
ExpireRequests ==
  LET R == {r \in Requests : Pending(r) /\ req[r].due} IN
  /\ R # {}
  /\ req' = [r \in Requests |-> IF r \in R
                THEN [req[r] EXCEPT !.st = "EXPIRED", !.due = FALSE] ELSE req[r]]
  /\ slot' = [s \in Slots |-> IF slot[s].st = "BOOKED" /\ slot[s].by \in R
                 THEN [slot[s] EXCEPT !.st = "OPEN", !.by = None] ELSE slot[s]]
  /\ UNCHANGED <<card, call>>

-----------------------------------------------------------------------------
\* update of a card with a new schedule, T its times: the slots are read, a time
\* that meets a booked slot or makes more than MaxSlots is refused (the booked
\* ones are not counted).
EditRead(p, c, T) ==
  LET open == {s \in SlotsOf(c) : slot[s].st = "OPEN"}
      kept == {s \in open : TimeOf[s] \in T} IN
  /\ "edit" \in env
  /\ card[c].st # "gone"
  /\ \A s \in LiveSlots(c) \ open : TimeOf[s] \notin T
  /\ Cardinality(T) <= MaxSlots
  /\ Begin(p, [NoCall EXCEPT !.pc = "edit", !.card = c, !.open = open \ kept,
                              !.want = T \ {TimeOf[s] : s \in kept}])
  /\ UNCHANGED <<card, slot, req>>

\* Mutant of Cancelled: without the comparison with OPEN.
Cancelled_NoCompare(S) ==
  [s \in Slots |-> IF s \in S THEN [slot[s] EXCEPT !.st = "CANCELLED"]
                              ELSE slot[s]]

Cancelled(S) ==
  [s \in Slots |-> IF s \in S /\ slot[s].st = "OPEN"
                   THEN [slot[s] EXCEPT !.st = "CANCELLED"] ELSE slot[s]]

\* replaceSlots, the writes: the slots left out are cancelled if they are still
\* OPEN, then the new ones, N, are inserted; the exclusion constraint rejects
\* one that overlaps a slot of the card that is not cancelled.
EditTx(p) ==
  LET k == call[p] IN
  /\ k.pc = "edit" /\ card[k.card].st # "gone"
  /\ \E N \in SUBSET {s \in SlotsOf(k.card) : slot[s].st = "new"} :
       LET t == Cancelled(k.open) IN
       /\ {TimeOf[s] : s \in N} = k.want /\ Cardinality(N) = Cardinality(k.want)
       /\ \A s \in SlotsOf(k.card) :
            t[s].st \in {"OPEN", "BOOKED"} => TimeOf[s] \notin k.want
       /\ slot' = [s \in Slots |-> IF s \in N THEN [Unused EXCEPT !.st = "OPEN"]
                                               ELSE t[s]]
  /\ End(p)
  /\ UNCHANGED <<card, req>>

\* updateStatus and renew read the status and write by id.
StatusRead(p, c) ==
  /\ "cards" \in env
  /\ card[c].st # "gone"
  /\ Begin(p, [NoCall EXCEPT !.card = c, !.pc =
                  IF card[c].st = "EXPIRED" THEN "renew"
                  ELSE IF card[c].st = "ACTIVE" THEN "hide" ELSE "show"])
  /\ UNCHANGED <<card, slot, req>>

StatusWrite(p) ==
  LET k == call[p] IN
  /\ k.pc \in {"renew", "hide", "show"} /\ card[k.card].st # "gone"
  /\ card' = [card EXCEPT
       ![k.card].st = IF k.pc = "hide" THEN "INACTIVE" ELSE "ACTIVE",
       ![k.card].due = @ /\ k.pc # "renew"]
  /\ End(p)
  /\ UNCHANGED <<slot, req>>

\* remove: the slots of the card and the requests for it go with it.
RemoveCard(c) ==
  /\ "cards" \in env
  /\ card[c].st # "gone"
  /\ card' = [card EXCEPT ![c].st = "gone"]
  /\ slot' = [s \in Slots |-> IF CardOf[s] = c
                              THEN [Unused EXCEPT !.st = "gone"] ELSE slot[s]]
  /\ req' = [r \in Requests |-> IF req[r].card = c
                               THEN [NoReq EXCEPT !.st = "gone"] ELSE req[r]]
  /\ UNCHANGED call

-----------------------------------------------------------------------------
\* Time passes: for a request, a slot, a card.
RequestDue(r) ==
  /\ "expire" \in env
  /\ req[r].st \in {"PENDING", "REJECTED"} /\ ~req[r].due
  /\ req' = [req EXCEPT ![r].due = TRUE]
  /\ UNCHANGED <<card, slot, call>>

SlotPasses(s) ==
  /\ "pass" \in env
  /\ slot[s].st \in {"OPEN", "BOOKED"} /\ ~slot[s].past
  /\ slot' = [slot EXCEPT ![s].past = TRUE]
  /\ UNCHANGED <<card, req, call>>

CardDue(c) ==
  /\ "cards" \in env
  /\ card[c].st = "ACTIVE" /\ ~card[c].due
  /\ card' = [card EXCEPT ![c].due = TRUE]
  /\ UNCHANGED <<slot, req, call>>

\* The cron of the showcase: a card that is due is renewed or expires, ...
ExpireCard(c) ==
  /\ card[c].st = "ACTIVE" /\ card[c].due
  /\ \/ card' = [card EXCEPT ![c].due = FALSE]
     \/ card' = [card EXCEPT ![c].st = "EXPIRED"]
  /\ UNCHANGED <<slot, req, call>>

\* ... and free slots whose time has passed are cancelled.
CancelPastSlots ==
  LET S == {s \in Slots : slot[s].st = "OPEN" /\ slot[s].past} IN
  /\ S # {}
  /\ slot' = Cancelled(S)
  /\ UNCHANGED <<card, req, call>>

-----------------------------------------------------------------------------
Times == {TimeOf[s] : s \in Slots}

Calls(p) ==
  \/ \E u \in Users, c \in Cards, s \in Slots \cup {None} : CreateRead(p, u, c, s)
  \/ CreateTx(p) \/ AutoMatchFails(p) \/ InsertConflicts(p)
  \/ \E r \in Requests : AcceptRead(p, r) \/ RejectRead(p, r) \/ CancelRead(p, r)
  \/ AcceptTx(p) \/ DeclineTx(p) \/ Refused(p)
  \/ \E c \in Cards : StatusRead(p, c) \/ \E T \in SUBSET Times : EditRead(p, c, T)
  \/ EditTx(p) \/ StatusWrite(p)

Next ==
  /\ \/ \E p \in Callers : Calls(p)
     \/ ExpireRequests \/ CancelPastSlots
     \/ \E c \in Cards : RemoveCard(c) \/ CardDue(c) \/ ExpireCard(c)
     \/ \E r \in Requests : RequestDue(r)
     \/ \E s \in Slots : SlotPasses(s)
  /\ UNCHANGED env

Spec == Init /\ [][Next]_<<env, vars>>

\* Only the crons run by themselves.
FairSpec == Spec /\ WF_vars(ExpireRequests)

-----------------------------------------------------------------------------
TypeOK ==
  /\ env \in Cases
  /\ card \in [Cards -> [st : {"ACTIVE", "INACTIVE", "EXPIRED", "gone"},
                         due : BOOLEAN]]
  /\ slot \in [Slots -> [st : {"new", "OPEN", "BOOKED", "CANCELLED", "gone"},
                         by : Requests \cup {None}, past : BOOLEAN]]
  /\ req \in [Requests -> [st : {"new", "PENDING", "ACCEPTED", "REJECTED",
                                "CANCELLED", "EXPIRED", "gone"},
                           from : Users \cup {None}, card : Cards \cup {None},
                           slot : Slots \cup {None}, meet : Slots \cup {None},
                           due : BOOLEAN, raced : BOOLEAN]]
  /\ call \in [Callers -> [pc : {"idle", "create", "match", "conflict", "edit",
                                "renew", "hide", "show"} \cup Decisions,
                           user : Users \cup {None}, card : Cards \cup {None},
                           slot : Slots \cup {None}, req : Requests \cup {None},
                           flag : BOOLEAN, open : SUBSET Slots,
                           want : SUBSET Times]]

\* The rows are well formed, and a card never has more pending requests than its
\* limit, nor two of the same sender, however many calls of create overlap.
PendingLimits ==
  \A c \in Cards :
    /\ Cardinality(PendingOn(c)) + Others <= MaxIncoming
    /\ \A q, r \in PendingOn(c) : req[q].from = req[r].from => q = r

TablesOK == TypeOK /\ PendingLimits

\* A request that waits or was accepted holds its slot: whatever the owner,
\* the crons and other calls with old readings do, nobody takes it away.
Held(r) == req[r].slot # None => slot[req[r].slot].st = "BOOKED"
                                   /\ slot[req[r].slot].by = r
SlotIsHeld == \A r \in Requests : req[r].st \in {"PENDING", "ACCEPTED"} => Held(r)

\* A booked slot is booked for somebody: the request it names waits or was
\* accepted and names it, so that a refused, cancelled or expired request has
\* given its time back -- unless its slot was switched under the decision.
NoSlotLost ==
  \A s \in Slots : slot[s].st = "BOOKED" =>
    LET r == slot[s].by IN
    req[r].raced \/ (req[r].st \in {"PENDING", "ACCEPTED"} /\ req[r].slot = s)

\* A meeting is at the time of the slot its request holds, and no two meetings
\* of a card are at one time -- with the same exception.
Met == {r \in Requests : req[r].meet # None /\ ~req[r].raced}
MeetingsHold ==
  \A q, r \in Met :
    /\ req[r].meet = req[r].slot
    /\ q # r /\ req[q].card = req[r].card
         => TimeOf[req[q].meet] # TimeOf[req[r].meet]

\* Slots and requests agree: who waits or was accepted has his slot, and whose slot
\* it is waits or was accepted.
SlotsAgree == SlotIsHeld /\ NoSlotLost

\* An accepted, rejected, cancelled or expired request stays so (until its card
\* is removed), and its meeting stays where it is.
Settled(r) == req[r].st \in {"ACCEPTED", "REJECTED", "CANCELLED", "EXPIRED"}
OutcomeIsFinal ==
  [][\A r \in Requests : Settled(r) =>
        \/ req'[r].st = "gone"
        \/ req'[r].st = req[r].st /\ req'[r].meet = req[r].meet
             /\ req'[r].slot = req[r].slot]_vars

\* A request nobody answers ends, and gives its slot back.
DueEnds ==
  \A r \in Requests : [](Pending(r) /\ req[r].due => <>~(Pending(r) /\ req[r].due))

\* A request ends, and once.
RequestsEnd == OutcomeIsFinal /\ DueEnds
=============================================================================
