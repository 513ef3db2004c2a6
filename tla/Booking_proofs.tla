---------------------------- MODULE Booking_proofs ----------------------------
(***************************************************************************)
(* Proofs about Booking, for any users, cards and callers, any finite sets *)
(* of slots and requests, and any limits.                                  *)
(***************************************************************************)
EXTENDS Booking, FiniteSetTheorems, TLAPS

(* The types, by name. *)

CardType == [st : {"ACTIVE", "INACTIVE", "EXPIRED", "gone"}, due : BOOLEAN]

SlotType == [st : {"new", "OPEN", "BOOKED", "CANCELLED", "gone"},
             by : Requests \cup {None}, past : BOOLEAN]

ReqType == [st : {"new", "PENDING", "ACCEPTED", "REJECTED", "CANCELLED", "EXPIRED", "gone"},
            from : Users \cup {None}, card : Cards \cup {None},
            slot : Slots \cup {None}, meet : Slots \cup {None},
            due : BOOLEAN, raced : BOOLEAN]

Pcs == {"idle", "create", "match", "conflict", "edit", "renew", "hide", "show"}
         \cup Decisions

CallType == [pc : Pcs, user : Users \cup {None}, card : Cards \cup {None},
             slot : Slots \cup {None}, req : Requests \cup {None},
             flag : BOOLEAN, open : SUBSET Slots, want : SUBSET Times]

Types ==
  /\ env \in Cases
  /\ card \in [Cards -> CardType]
  /\ slot \in [Slots -> SlotType]
  /\ req \in [Requests -> ReqType]
  /\ call \in [Callers -> CallType]

LEMMA TypesAreOK == Types <=> TypeOK
BY DEF Types, TypeOK, CardType, SlotType, ReqType, CallType, Pcs

LEMMA TypesAreOKNext == Types' <=> TypeOK'
BY DEF Types, TypeOK, CardType, SlotType, ReqType, CallType, Pcs, Times, Decisions

(* The inductive invariant: what is below, and the invariants of the run. *)

\* What a call keeps of its readings: a slot on the card it is about; and of a
\* request that waits, unless it was switched since, the slot.
Reads ==
  \A p \in Callers :
    LET k == call[p] IN
    /\ k.pc \in {"create", "match", "conflict"} =>
         /\ k.user \in Users /\ k.card \in Cards
         /\ k.slot # None => CardOf[k.slot] = k.card
    /\ k.pc \in {"edit", "renew", "hide", "show"} => k.card \in Cards
    /\ k.pc \in Decisions =>
         /\ k.req \in Requests /\ req[k.req].st # "new"
         /\ Pending(k.req) /\ ~req[k.req].raced => k.slot = req[k.req].slot

\* A request is about a slot of its card; only an accepted one has a meeting;
\* a new or removed one has nothing.
Requested ==
  \A r \in Requests :
    /\ req[r].st \notin {"new", "gone"} =>
         /\ req[r].from \in Users /\ req[r].card \in Cards
         /\ req[r].slot # None => CardOf[req[r].slot] = req[r].card
    /\ req[r].st \in {"new", "gone"} => ~req[r].raced /\ req[r].card = None
    /\ req[r].meet # None => req[r].st = "ACCEPTED"

\* A slot is booked by a request for its card.
BookedOnCard ==
  \A s \in Slots : slot[s].st = "BOOKED" =>
    slot[s].by \in Requests /\ req[slot[s].by].card = CardOf[s]

\* The exclusion constraint: the live slots of a card do not overlap.
Shown(s) == slot[s].st \in {"OPEN", "BOOKED"}
NoOverlap ==
  \A s, t \in Slots :
    Shown(s) /\ Shown(t) /\ s # t /\ CardOf[s] = CardOf[t] => TimeOf[s] # TimeOf[t]

MeetIsSlot == \A r \in Met : req[r].meet = req[r].slot

Rows == Requested /\ BookedOnCard /\ NoOverlap
IInv == TypeOK /\ PendingLimits /\ Reads /\ Rows /\ SlotsAgree /\ MeetIsSlot

-----------------------------------------------------------------------------
(* The next-state relation, cut for the case analyses. *)

\* Calls that change neither slots nor requests.
Quiet(p) ==
  \/ \E u \in Users, c \in Cards, s \in Slots \cup {None} : CreateRead(p, u, c, s)
  \/ \E r \in Requests : AcceptRead(p, r) \/ RejectRead(p, r) \/ CancelRead(p, r)
  \/ AutoMatchFails(p) \/ InsertConflicts(p) \/ Refused(p)
  \/ \E c \in Cards : StatusRead(p, c) \/ \E T \in SUBSET Times : EditRead(p, c, T)
  \/ StatusWrite(p)

\* createTx that finds an opposite request.
Matches(p) ==
  /\ call[p].pc = "create"
  /\ \E r \in Cross(call[p]) :
       call' = [call EXCEPT ![p].pc = "match", ![p].req = r]
  /\ UNCHANGED <<card, slot, req>>

Switches(p, r) ==
  call[p].pc = "create" /\ call[p].slot # None /\ r \in Existing(call[p]) /\ SwitchSlot(p, r)

Inserts(p, r) ==
  call[p].pc = "create" /\ MayRequest(call[p]) /\ req[r] = NoReq /\ Insert(p, r)

LEMMA Acts ==
  ASSUME Next
  PROVE  \/ \E p \in Callers :
              \/ Quiet(p) \/ Matches(p) \/ AcceptTx(p) \/ DeclineTx(p) \/ EditTx(p)
              \/ \E r \in Requests : Switches(p, r) \/ Inserts(p, r)
         \/ ExpireRequests \/ CancelPastSlots
         \/ \E c \in Cards : RemoveCard(c) \/ CardDue(c) \/ ExpireCard(c)
         \/ \E r \in Requests : RequestDue(r)
         \/ \E s \in Slots : SlotPasses(s)
<1>1. ASSUME NEW p \in Callers, CreateTx(p)
      PROVE  Matches(p) \/ \E r \in Requests : Switches(p, r) \/ Inserts(p, r)
  <2>1. CASE call[p].slot # None /\ Existing(call[p]) # {}
    BY <1>1, <2>1 DEF CreateTx, Switches, Existing, PendingOn
  <2>2. CASE ~(call[p].slot # None /\ Existing(call[p]) # {})
             /\ ~call[p].flag /\ Cross(call[p]) # {}
    BY <1>1, <2>2 DEF CreateTx, Matches
  <2>3. CASE ~(call[p].slot # None /\ Existing(call[p]) # {})
             /\ ~(~call[p].flag /\ Cross(call[p]) # {})
    BY <1>1, <2>3 DEF CreateTx, Inserts, Fresh
  <2>4. QED
    BY <2>1, <2>2, <2>3
<1>2. QED
  BY <1>1 DEF Next, Calls, Quiet

\* The constants, and what is in the tables.
LEMMA Facts ==
  ASSUME TypeOK
  PROVE  /\ None \notin Slots /\ None \notin Requests /\ None \notin Cards
         /\ None \notin Users
         /\ MaxIncoming \in Nat /\ MaxIncoming > 0 /\ Others \in Nat /\ Others < MaxIncoming
         /\ \A s \in Slots : CardOf[s] \in Cards
         /\ NoReq \in ReqType /\ NoCall \in CallType /\ Unused \in SlotType
         /\ \A s \in Slots : slot[s] \in SlotType
         /\ \A r \in Requests : req[r] \in ReqType
         /\ \A p \in Callers : call[p] \in CallType
<1>1. NoReq \in ReqType /\ NoCall \in CallType /\ Unused \in SlotType
  BY DEF NoReq, ReqType, NoCall, CallType, Pcs, Unused, SlotType
<1>2. MaxIncoming \in Nat /\ MaxIncoming > 0 /\ Others \in Nat /\ Others < MaxIncoming
  BY ConstantsAssumption DEF ConstantsAssumption, Others
<1>3. QED
  BY <1>1, <1>2, ConstantsAssumption, TypesAreOK DEF ConstantsAssumption, Types

LEMMA Outcomes ==
  \A x \in DOMAIN Outcome :
    x \in Decisions /\ Outcome[x] \in {"EXPIRED", "REJECTED", "CANCELLED"}
<1>1. DOMAIN Outcome = {"lapse", "reject", "cancel"}
  BY DEF Outcome
<1>2. /\ Outcome["lapse"] = "EXPIRED" /\ Outcome["reject"] = "REJECTED"
      /\ Outcome["cancel"] = "CANCELLED"
  BY DEF Outcome
<1>3. QED
  BY <1>1, <1>2 DEF Decisions

\* claimSlot and releaseSlot keep the table a table.
LEMMA ClaimedType ==
  ASSUME NEW t \in [Slots -> SlotType], NEW s \in Slots, NEW r \in Requests
  PROVE  Claimed(t, s, r) \in [Slots -> SlotType]
<1>1. [t[s] EXCEPT !.st = "BOOKED", !.by = r] \in SlotType
  BY DEF SlotType
<1>2. Claimed(t, s, r) = [t EXCEPT ![s] = [t[s] EXCEPT !.st = "BOOKED", !.by = r]]
  BY DEF Claimed, SlotType
<1>3. QED
  BY <1>1, <1>2

LEMMA ReleasedType ==
  ASSUME NEW t \in [Slots -> SlotType], NEW s \in Slots \cup {None}, NEW r
  PROVE  Released(t, s, r) \in [Slots -> SlotType]
<1>1. CASE s # None /\ t[s].st = "BOOKED" /\ t[s].by = r
  <2>1. s \in Slots
    BY <1>1
  <2>2. [t[s] EXCEPT !.st = "OPEN", !.by = None] \in SlotType
    BY <2>1 DEF SlotType
  <2>3. Released(t, s, r) = [t EXCEPT ![s] = [t[s] EXCEPT !.st = "OPEN", !.by = None]]
    BY <1>1, <2>1 DEF Released, SlotType
  <2>4. QED
    BY <2>1, <2>2, <2>3
<1>2. CASE ~(s # None /\ t[s].st = "BOOKED" /\ t[s].by = r)
  BY <1>2 DEF Released
<1>3. QED
  BY <1>1, <1>2

\* What becomes of a slot.
LEMMA SlotAfter ==
  ASSUME NEW t \in [Slots -> SlotType], NEW s \in Slots \cup {None}, NEW r \in Requests,
         NEW x \in Slots
  PROVE  /\ IF x = s /\ t[x].st = "BOOKED" /\ t[x].by = r /\ s # None
            THEN Released(t, s, r)[x].st = "OPEN" /\ Released(t, s, r)[x].by = None
            ELSE Released(t, s, r)[x] = t[x]
         /\ IF x = s
            THEN Claimed(t, s, r)[x].st = "BOOKED" /\ Claimed(t, s, r)[x].by = r
            ELSE Claimed(t, s, r)[x] = t[x]
BY DEF Released, Claimed, SlotType

-----------------------------------------------------------------------------
(* What the quiet calls leave in call. *)

LEMMA BeginEnds ==
  ASSUME TypeOK, NEW p \in Callers, NEW k \in CallType, Begin(p, k) \/ End(p)
  PROVE  call' \in [Callers -> CallType]
BY Facts, TypesAreOK DEF Begin, End, Types

LEMMA TypeStep == ASSUME TypeOK, Next PROVE TypeOK'
<1>1. Types /\ env' = env
  BY TypesAreOK DEF Next
<1> SUFFICES Types'
  BY TypesAreOKNext
<1>2. ASSUME NEW p \in Callers, NEW k \in CallType, Begin(p, k), UNCHANGED <<card, slot, req>>
      PROVE  Types'
  BY <1>1, <1>2, BeginEnds DEF Types
<1>3. ASSUME NEW p \in Callers, End(p)
      PROVE  call' \in [Callers -> CallType]
  BY <1>1, <1>3, Facts DEF End, Types
<1>4. ASSUME NEW p \in Callers, Quiet(p)
      PROVE  Types'
  <2>1. ASSUME NEW u \in Users, NEW c \in Cards, NEW s \in Slots \cup {None},
               CreateRead(p, u, c, s)
        PROVE  Types'
    <3>1. PICK own : Begin(p, [NoCall EXCEPT !.pc = "create", !.user = u, !.card = c,
                                   !.slot = s, !.flag = own \/ LiveSlots(c) # {}])
      BY <2>1 DEF CreateRead
    <3>2. (own \/ LiveSlots(c) # {}) \in BOOLEAN
      OBVIOUS
    <3>3. [NoCall EXCEPT !.pc = "create", !.user = u, !.card = c,
             !.slot = s, !.flag = own \/ LiveSlots(c) # {}] \in CallType
      BY <3>2 DEF NoCall, CallType, Pcs
    <3>4. QED
      BY <1>2, <2>1, <3>1, <3>3 DEF CreateRead
  <2>2. ASSUME NEW r \in Requests, AcceptRead(p, r) \/ RejectRead(p, r) \/ CancelRead(p, r)
        PROVE  Types'
    <3>1. PICK pc \in Decisions : Read(p, r, pc)
      BY <2>2 DEF AcceptRead, RejectRead, CancelRead, Decisions
    <3>2. req[r].slot \in Slots \cup {None}
      BY Facts DEF ReqType
    <3>3. [NoCall EXCEPT !.pc = pc, !.req = r, !.slot = req[r].slot] \in CallType
      BY <3>2 DEF NoCall, CallType, Pcs
    <3>4. QED
      BY <1>2, <3>1, <3>3 DEF Read
  <2>3. CASE AutoMatchFails(p) \/ InsertConflicts(p)
    <3>1. /\ \E pc \in {"conflict", "create"} :
               \/ call' = [call EXCEPT ![p] = [call[p] EXCEPT !.pc = pc, !.req = None]]
               \/ call' = [call EXCEPT ![p] = [call[p] EXCEPT !.pc = pc]]
          /\ UNCHANGED <<card, slot, req>>
      BY <1>1, <2>3 DEF AutoMatchFails, InsertConflicts, Types
    <3>2. \A pc \in {"conflict", "create"} :
            /\ [call[p] EXCEPT !.pc = pc, !.req = None] \in CallType
            /\ [call[p] EXCEPT !.pc = pc] \in CallType
      BY Facts DEF CallType, Pcs
    <3>3. QED
      BY <1>1, <3>1, <3>2 DEF Types
  <2>4. CASE Refused(p)
    BY <1>1, <1>3, <2>4 DEF Refused, Types
  <2>5. ASSUME NEW c \in Cards, StatusRead(p, c)
        PROVE  Types'
    <3>1. \E pc \in {"renew", "hide", "show"} :
            Begin(p, [NoCall EXCEPT !.card = c, !.pc = pc])
      BY <2>5 DEF StatusRead
    <3>2. \A pc \in {"renew", "hide", "show"} :
            [NoCall EXCEPT !.card = c, !.pc = pc] \in CallType
      BY DEF NoCall, CallType, Pcs
    <3>3. QED
      BY <1>2, <2>5, <3>1, <3>2 DEF StatusRead
  <2>6. ASSUME NEW c \in Cards, NEW T \in SUBSET Times, EditRead(p, c, T)
        PROVE  Types'
    <3>1. PICK open \in SUBSET Slots, want \in SUBSET Times :
            Begin(p, [NoCall EXCEPT !.pc = "edit", !.card = c, !.open = open, !.want = want])
      BY <2>6 DEF EditRead, SlotsOf
    <3>2. [NoCall EXCEPT !.pc = "edit", !.card = c, !.open = open, !.want = want] \in CallType
      BY DEF NoCall, CallType, Pcs
    <3>3. QED
      BY <1>2, <2>6, <3>1, <3>2 DEF EditRead
  <2>7. CASE StatusWrite(p)
    <3>1. card' \in [Cards -> CardType]
      <4>1. PICK st \in {"INACTIVE", "ACTIVE"}, due \in BOOLEAN :
              card' = [card EXCEPT ![call[p].card] =
                         [card[call[p].card] EXCEPT !.st = st, !.due = due]]
        <5>1. card' = [card EXCEPT
                 ![call[p].card].st = IF call[p].pc = "hide" THEN "INACTIVE" ELSE "ACTIVE",
                 ![call[p].card].due = @ /\ call[p].pc # "renew"]
          BY <2>7 DEF StatusWrite
        <5>2. (card[call[p].card].due /\ call[p].pc # "renew") \in BOOLEAN
          OBVIOUS
        <5>3. (IF call[p].pc = "hide" THEN "INACTIVE" ELSE "ACTIVE") \in {"INACTIVE", "ACTIVE"}
          OBVIOUS
        <5>4. card' = [card EXCEPT ![call[p].card] = [card[call[p].card] EXCEPT
                 !.st = IF call[p].pc = "hide" THEN "INACTIVE" ELSE "ACTIVE",
                 !.due = (card[call[p].card].due /\ call[p].pc # "renew")]]
          BY <1>1, <5>1 DEF Types, CardType
        <5>5. QED
          BY <5>2, <5>3, <5>4
      <4>2. call[p].card \in Cards => [card[call[p].card] EXCEPT !.st = st, !.due = due] \in CardType
        BY <1>1 DEF Types, CardType
      <4>3. QED
        BY <1>1, <4>1, <4>2 DEF Types
    <3>2. QED
      BY <1>1, <1>3, <2>7, <3>1 DEF StatusWrite, Types
  <2>8. QED
    BY <1>4, <2>1, <2>2, <2>3, <2>4, <2>5, <2>6, <2>7 DEF Quiet
<1>5. ASSUME NEW p \in Callers, Matches(p)
      PROVE  Types'
  <2>1. PICK r \in Requests : call' = [call EXCEPT ![p].pc = "match", ![p].req = r]
    BY <1>5 DEF Matches, Cross
  <2>2. call' = [call EXCEPT ![p] = [call[p] EXCEPT !.pc = "match", !.req = r]]
    BY <1>1, <2>1 DEF Types
  <2>3. [call[p] EXCEPT !.pc = "match", !.req = r] \in CallType
    BY Facts DEF CallType, Pcs
  <2>4. QED
    BY <1>1, <1>5, <2>2, <2>3 DEF Matches, Types
<1>6. ASSUME NEW p \in Callers, AcceptTx(p) \/ DeclineTx(p)
      PROVE  Types'
  <2>1. call[p].req \in Requests \cup {None} /\ call[p].slot \in Slots \cup {None}
    BY Facts DEF CallType
  <2>2. req' \in [Requests -> ReqType]
    <3>1. CASE call[p].req \notin Requests
      BY <1>1, <1>6, <3>1 DEF AcceptTx, DeclineTx, Types
    <3>2. CASE call[p].req \in Requests
      <4>1. \A st \in {"ACCEPTED", "EXPIRED", "REJECTED", "CANCELLED"} :
              /\ [req[call[p].req] EXCEPT !.st = st, !.meet = call[p].slot] \in ReqType
              /\ [req[call[p].req] EXCEPT !.st = st, !.due = FALSE] \in ReqType
        BY <2>1, <3>2, Facts DEF ReqType
      <4>2. \E st \in {"ACCEPTED", "EXPIRED", "REJECTED", "CANCELLED"} :
              \/ req' = [req EXCEPT ![call[p].req] =
                           [req[call[p].req] EXCEPT !.st = st, !.meet = call[p].slot]]
              \/ req' = [req EXCEPT ![call[p].req] =
                           [req[call[p].req] EXCEPT !.st = st, !.due = FALSE]]
        <5>1. CASE AcceptTx(p)
          BY <1>1, <3>2, <5>1 DEF AcceptTx, Types
        <5>2. CASE DeclineTx(p)
          <6>1. PICK st \in {"EXPIRED", "REJECTED", "CANCELLED"} :
                  req' = [req EXCEPT ![call[p].req].st = st, ![call[p].req].due = FALSE]
            BY <5>2, Outcomes DEF DeclineTx
          <6>2. req' = [req EXCEPT ![call[p].req] =
                          [req[call[p].req] EXCEPT !.st = st, !.due = FALSE]]
            BY <1>1, <3>2, <6>1 DEF Types
          <6>3. QED
            BY <6>2
        <5>3. QED
          BY <1>6, <5>1, <5>2
      <4>3. QED
        BY <1>1, <4>1, <4>2 DEF Types
    <3>3. QED
      BY <3>1, <3>2
  <2>3. slot' \in [Slots -> SlotType]
    <3>1. slot \in [Slots -> SlotType]
      BY <1>1 DEF Types
    <3>2. slot' = slot \/ slot' = Released(slot, call[p].slot, call[p].req)
      BY <1>6 DEF AcceptTx, DeclineTx
    <3>3. Released(slot, call[p].slot, call[p].req) \in [Slots -> SlotType]
      BY <2>1, <3>1, ReleasedType
    <3>4. QED
      BY <3>1, <3>2, <3>3
  <2>4. QED
    BY <1>1, <1>3, <1>6, <2>2, <2>3 DEF AcceptTx, DeclineTx, Types
<1>7. ASSUME NEW S, slot' = Cancelled(S)
      PROVE  slot' \in [Slots -> SlotType]
  <2>1. \A s \in Slots : [slot[s] EXCEPT !.st = "CANCELLED"] \in SlotType
    BY Facts DEF SlotType
  <2>2. QED
    BY <1>1, <1>7, <2>1 DEF Cancelled, Types
<1>8. ASSUME NEW p \in Callers, EditTx(p)
      PROVE  Types'
  <2>1. PICK N : slot' = [s \in Slots |-> IF s \in N THEN [Unused EXCEPT !.st = "OPEN"]
                                          ELSE Cancelled(call[p].open)[s]]
    BY <1>8 DEF EditTx
  <2>2. \A s \in Slots : [slot[s] EXCEPT !.st = "CANCELLED"] \in SlotType
    BY Facts DEF SlotType
  <2>3. [Unused EXCEPT !.st = "OPEN"] \in SlotType
    BY DEF Unused, SlotType
  <2>4. \A s \in Slots : Cancelled(call[p].open)[s] \in SlotType
    BY <2>2, Facts DEF Cancelled
  <2>5. slot' \in [Slots -> SlotType]
    BY <2>1, <2>3, <2>4
  <2>6. QED
    BY <1>1, <1>3, <1>8, <2>5 DEF EditTx, Types
<1>9. ASSUME NEW p \in Callers, NEW r \in Requests, Switches(p, r)
      PROVE  Types'
  <2>1. call[p].slot \in Slots /\ req[r].slot \in Slots \cup {None}
    BY <1>9, Facts DEF Switches, CallType, ReqType
  <2>2. slot' \in [Slots -> SlotType]
    <3>1. slot \in [Slots -> SlotType]
      BY <1>1 DEF Types
    <3>2. \/ slot' = slot
          \/ slot' = Claimed(Released(slot, req[r].slot, r), call[p].slot, r)
      BY <1>9 DEF Switches, SwitchSlot
    <3>3. Released(slot, req[r].slot, r) \in [Slots -> SlotType]
      BY <2>1, <3>1, ReleasedType
    <3>4. Claimed(Released(slot, req[r].slot, r), call[p].slot, r) \in [Slots -> SlotType]
      BY <2>1, <3>3, ClaimedType
    <3>5. QED
      BY <3>1, <3>2, <3>4
  <2>3. req' \in [Requests -> ReqType]
    <3>1. [req[r] EXCEPT !.slot = call[p].slot, !.due = FALSE,
                         !.raced = req[r].raced \/ Overtaken(r)] \in ReqType
      BY <2>1, Facts DEF ReqType
    <3>2. \/ req' = req
          \/ req' = [req EXCEPT ![r] = [req[r] EXCEPT !.slot = call[p].slot, !.due = FALSE,
                         !.raced = req[r].raced \/ Overtaken(r)]]
      BY <1>1, <1>9 DEF Switches, SwitchSlot, Types
    <3>3. QED
      BY <1>1, <3>1, <3>2 DEF Types
  <2>4. QED
    BY <1>1, <1>3, <1>9, <2>2, <2>3 DEF Switches, SwitchSlot, Types
<1>10. ASSUME NEW p \in Callers, NEW r \in Requests, Inserts(p, r)
       PROVE  Types'
  <2>1. call[p] \in CallType
    BY Facts
  <2>2. [NoReq EXCEPT !.st = "PENDING", !.from = call[p].user, !.card = call[p].card,
                      !.slot = call[p].slot] \in ReqType
    BY <2>1 DEF NoReq, ReqType, CallType
  <2>3. slot' \in [Slots -> SlotType]
    BY <1>1, <1>10, <2>1, ClaimedType DEF Inserts, Insert, Types, CallType
  <2>4. QED
    BY <1>1, <1>3, <1>10, <2>2, <2>3 DEF Inserts, Insert, Types
<1>11. CASE ExpireRequests
  <2>1. \A r \in Requests : [req[r] EXCEPT !.st = "EXPIRED", !.due = FALSE] \in ReqType
    BY Facts DEF ReqType
  <2>2. \A s \in Slots : [slot[s] EXCEPT !.st = "OPEN", !.by = None] \in SlotType
    BY Facts DEF SlotType
  <2>3. QED
    BY <1>1, <1>11, <2>1, <2>2, Facts DEF ExpireRequests, Types
<1>12. CASE CancelPastSlots
  BY <1>1, <1>7, <1>12 DEF CancelPastSlots, Types
<1>13. ASSUME NEW c \in Cards, RemoveCard(c)
       PROVE  Types'
  <2>1. [Unused EXCEPT !.st = "gone"] \in SlotType /\ [NoReq EXCEPT !.st = "gone"] \in ReqType
    BY DEF Unused, SlotType, NoReq, ReqType
  <2>2. card' \in [Cards -> CardType]
    BY <1>1, <1>13 DEF RemoveCard, Types, CardType
  <2>3. QED
    BY <1>1, <1>13, <2>1, <2>2, Facts DEF RemoveCard, Types
<1>14. ASSUME NEW c \in Cards, CardDue(c) \/ ExpireCard(c)
       PROVE  Types'
  <2>1. card' \in [Cards -> CardType]
    BY <1>1, <1>14 DEF CardDue, ExpireCard, Types, CardType
  <2>2. QED
    BY <1>1, <1>14, <2>1 DEF CardDue, ExpireCard, Types
<1>15. ASSUME NEW r \in Requests, RequestDue(r)
       PROVE  Types'
  <2>1. [req[r] EXCEPT !.due = TRUE] \in ReqType
    BY Facts DEF ReqType
  <2>2. QED
    BY <1>1, <1>15, <2>1 DEF RequestDue, Types
<1>16. ASSUME NEW s \in Slots, SlotPasses(s)
       PROVE  Types'
  <2>1. [slot[s] EXCEPT !.past = TRUE] \in SlotType
    BY Facts DEF SlotType
  <2>2. QED
    BY <1>1, <1>16, <2>1 DEF SlotPasses, Types
<1>17. QED
  BY <1>4, <1>5, <1>6, <1>8, <1>9, <1>10, <1>11, <1>12, <1>13, <1>14, <1>15, <1>16, Acts

-----------------------------------------------------------------------------
(* What becomes of one call, one request, one slot in a step. *)

\* A call that goes on keeps what it has read.
CallMoves(p) ==
  \/ call'[p] = call[p]
  \/ call'[p] = NoCall
  \/ /\ call[p].pc \in {"create", "match"} /\ call'[p].pc \in {"create", "match", "conflict"}
     /\ call'[p].user = call[p].user /\ call'[p].card = call[p].card
     /\ call'[p].slot = call[p].slot
  \/ /\ UNCHANGED <<slot, req>>
     /\ \/ /\ call'[p].pc = "create" /\ call'[p].user \in Users /\ call'[p].card \in Cards
           /\ call'[p].slot # None => CardOf[call'[p].slot] = call'[p].card
        \/ call'[p].pc \in {"edit", "renew", "hide", "show"} /\ call'[p].card \in Cards
        \/ /\ call'[p].pc \in Decisions /\ call'[p].req \in Requests
           /\ req[call'[p].req].st # "new" /\ call'[p].slot = req[call'[p].req].slot

LEMMA CallSteps ==
  ASSUME TypeOK, Next, NEW p \in Callers
  PROVE  CallMoves(p)
<1>1. call \in [Callers -> CallType]
  BY TypesAreOK DEF Types
<1>2. ASSUME NEW q \in Callers, End(q)
      PROVE  CallMoves(p)
  BY <1>1, <1>2 DEF End, CallMoves
<1>3. ASSUME NEW q \in Callers, NEW k, Begin(q, k)
      PROVE  call'[p] = call[p] \/ call'[p] = k
  BY <1>1, <1>3 DEF Begin
<1>4. ASSUME NEW q \in Callers, Quiet(q)
      PROVE  CallMoves(p)
  <2>1. ASSUME NEW u \in Users, NEW c \in Cards, NEW s \in Slots \cup {None},
               CreateRead(q, u, c, s)
        PROVE  CallMoves(p)
    <3>1. PICK flag : Begin(q, [NoCall EXCEPT !.pc = "create", !.user = u, !.card = c,
                                   !.slot = s, !.flag = flag])
      BY <2>1 DEF CreateRead
    <3>2. s # None => CardOf[s] = c
      BY <2>1, Facts DEF CreateRead, LiveSlots, SlotsOf
    <3>3. UNCHANGED <<slot, req>>
      BY <2>1 DEF CreateRead
    <3>4. \/ call'[p] = call[p]
          \/ call'[p] = [NoCall EXCEPT !.pc = "create", !.user = u, !.card = c,
                                       !.slot = s, !.flag = flag]
      BY <1>3, <3>1
    <3>5. QED
      <4>1. CASE call'[p] = [NoCall EXCEPT !.pc = "create", !.user = u, !.card = c,
                                           !.slot = s, !.flag = flag]
        <5>1. /\ call'[p].pc = "create" /\ call'[p].user = u /\ call'[p].card = c
              /\ call'[p].slot = s
          BY <4>1 DEF NoCall
        <5>2. QED
          BY <3>2, <3>3, <5>1 DEF CallMoves
      <4>2. QED
        BY <3>4, <4>1 DEF CallMoves
  <2>2. ASSUME NEW r \in Requests, AcceptRead(q, r) \/ RejectRead(q, r) \/ CancelRead(q, r)
        PROVE  CallMoves(p)
    <3>1. PICK pc \in Decisions : Read(q, r, pc)
      BY <2>2 DEF AcceptRead, RejectRead, CancelRead, Decisions
    <3>2. \/ call'[p] = call[p]
          \/ call'[p] = [NoCall EXCEPT !.pc = pc, !.req = r, !.slot = req[r].slot]
      BY <1>3, <3>1 DEF Read
    <3>3. UNCHANGED <<slot, req>>
      BY <3>1 DEF Read
    <3>4. req[r].st # "new"
      BY <3>1 DEF Read, Pending
    <3>5. CASE call'[p] = [NoCall EXCEPT !.pc = pc, !.req = r, !.slot = req[r].slot]
      <4>1. call'[p].pc = pc /\ call'[p].req = r /\ call'[p].slot = req[r].slot
        BY <3>5 DEF NoCall
      <4>2. QED
        BY <3>3, <3>4, <4>1 DEF CallMoves
    <3>6. QED
      BY <3>2, <3>5 DEF CallMoves
  <2>3. CASE AutoMatchFails(q) \/ InsertConflicts(q)
    <3>1. /\ call[q].pc \in {"create", "match"}
          /\ \E pc \in {"conflict", "create"} :
               \/ call' = [call EXCEPT ![q] = [call[q] EXCEPT !.pc = pc, !.req = None]]
               \/ call' = [call EXCEPT ![q] = [call[q] EXCEPT !.pc = pc]]
      BY <1>1, <2>3 DEF AutoMatchFails, InsertConflicts
    <3>2. QED
      <4>1. CASE p = q
        <5>1. /\ call'[p].pc \in {"create", "conflict"}
              /\ call'[p].user = call[p].user /\ call'[p].card = call[p].card
              /\ call'[p].slot = call[p].slot
          BY <1>1, <3>1, <4>1 DEF CallType
        <5>2. QED
          BY <3>1, <4>1, <5>1 DEF CallMoves
      <4>2. CASE p # q
        BY <1>1, <3>1, <4>2 DEF CallMoves
      <4>3. QED
        BY <4>1, <4>2
  <2>4. CASE Refused(q)
    BY <1>2, <2>4 DEF Refused
  <2>5. ASSUME NEW c \in Cards, StatusRead(q, c)
        PROVE  CallMoves(p)
    <3>1. PICK pc \in {"renew", "hide", "show"} :
            Begin(q, [NoCall EXCEPT !.card = c, !.pc = pc])
      BY <2>5 DEF StatusRead
    <3>2. call'[p] = call[p] \/ call'[p] = [NoCall EXCEPT !.card = c, !.pc = pc]
      BY <1>3, <3>1
    <3>3. QED
      BY <2>5, <3>2 DEF StatusRead, CallMoves, NoCall
  <2>6. ASSUME NEW c \in Cards, NEW T \in SUBSET Times, EditRead(q, c, T)
        PROVE  CallMoves(p)
    <3>1. PICK open, want :
            Begin(q, [NoCall EXCEPT !.pc = "edit", !.card = c, !.open = open, !.want = want])
      BY <2>6 DEF EditRead
    <3>2. \/ call'[p] = call[p]
          \/ call'[p] = [NoCall EXCEPT !.pc = "edit", !.card = c, !.open = open, !.want = want]
      BY <1>3, <3>1
    <3>3. QED
      BY <2>6, <3>2 DEF EditRead, CallMoves, NoCall
  <2>7. CASE StatusWrite(q)
    BY <1>2, <2>7 DEF StatusWrite
  <2>8. QED
    BY <1>4, <2>1, <2>2, <2>3, <2>4, <2>5, <2>6, <2>7 DEF Quiet
<1>5. ASSUME NEW q \in Callers, Matches(q)
      PROVE  CallMoves(p)
  <2>1. PICK r : call' = [call EXCEPT ![q] = [call[q] EXCEPT !.pc = "match", !.req = r]]
    BY <1>1, <1>5 DEF Matches
  <2>2. QED
    BY <1>1, <1>5, <2>1, Facts DEF Matches, CallMoves, CallType
<1>6. ASSUME NEW q \in Callers,
             \/ AcceptTx(q) \/ DeclineTx(q) \/ EditTx(q)
             \/ \E r \in Requests : Switches(q, r) \/ Inserts(q, r)
      PROVE  CallMoves(p)
  <2>1. End(q)
    BY <1>6 DEF AcceptTx, DeclineTx, EditTx, Switches, SwitchSlot, Inserts, Insert
  <2>2. QED
    BY <1>2, <2>1
<1>7. ASSUME \/ ExpireRequests \/ CancelPastSlots
             \/ \E c \in Cards : RemoveCard(c) \/ CardDue(c) \/ ExpireCard(c)
             \/ \E r \in Requests : RequestDue(r)
             \/ \E s \in Slots : SlotPasses(s)
      PROVE  CallMoves(p)
  BY <1>7 DEF ExpireRequests, CancelPastSlots, RemoveCard, CardDue, ExpireCard, RequestDue,
     SlotPasses, CallMoves
<1>8. QED
  BY <1>4, <1>5, <1>6, <1>7, Acts

\* A request stays, ends, is accepted, is switched, is inserted or is removed.
ReqMoves(r) ==
  \/ /\ req'[r].st = req[r].st /\ req'[r].from = req[r].from /\ req'[r].card = req[r].card
     /\ req'[r].slot = req[r].slot /\ req'[r].meet = req[r].meet
     /\ req'[r].raced = req[r].raced
  \/ /\ Pending(r) /\ req'[r].st \in {"ACCEPTED", "EXPIRED", "REJECTED", "CANCELLED"}
     /\ req'[r].from = req[r].from /\ req'[r].card = req[r].card
     /\ req'[r].slot = req[r].slot /\ req'[r].raced = req[r].raced
     /\ IF req'[r].st = "ACCEPTED"
        THEN \E p \in Callers : AcceptTx(p) /\ call[p].req = r /\ req'[r].meet = call[p].slot
        ELSE req'[r].meet = req[r].meet
  \/ /\ \E p \in Callers : Switches(p, r) /\ req'[r].slot = call[p].slot
     /\ Pending(r) /\ req'[r].st = "PENDING"
     /\ req'[r].from = req[r].from /\ req'[r].card = req[r].card
     /\ req'[r].meet = req[r].meet
     /\ req'[r].raced = (req[r].raced \/ Overtaken(r))
  \/ \E p \in Callers :
       /\ Inserts(p, r)
       /\ req[r].st = "new" /\ req[r].card = None /\ req'[r].st = "PENDING"
       /\ req'[r].from = call[p].user /\ req'[r].card = call[p].card
       /\ req'[r].slot = call[p].slot /\ req'[r].meet = None /\ ~req'[r].raced
  \/ /\ RemoveCard(req[r].card) /\ req'[r].st = "gone" /\ req'[r].card = None
     /\ req'[r].meet = None /\ ~req'[r].raced

LEMMA ReqSteps ==
  ASSUME TypeOK, Next, NEW r \in Requests
  PROVE  ReqMoves(r)
<1>1. req \in [Requests -> ReqType]
  BY TypesAreOK DEF Types
<1>2. req'[r] = req[r] => ReqMoves(r)
  BY DEF ReqMoves
<1>3. ASSUME NEW p \in Callers, AcceptTx(p)
      PROVE  ReqMoves(r)
  <2>1. req' = [req EXCEPT ![call[p].req].st = "ACCEPTED", ![call[p].req].meet = call[p].slot]
        /\ Pending(call[p].req)
    BY <1>3 DEF AcceptTx
  <2>2. CASE call[p].req = r
    <3>1. req'[r] = [req[r] EXCEPT !.st = "ACCEPTED", !.meet = call[p].slot]
      BY <1>1, <2>1, <2>2
    <3>2. /\ req'[r].st = "ACCEPTED" /\ req'[r].meet = call[p].slot
          /\ req'[r].from = req[r].from /\ req'[r].card = req[r].card
          /\ req'[r].slot = req[r].slot /\ req'[r].raced = req[r].raced
      BY <1>1, <3>1 DEF ReqType
    <3>3. QED
      BY <1>3, <2>1, <2>2, <3>2 DEF ReqMoves
  <2>3. CASE call[p].req # r
    BY <1>1, <1>2, <2>1, <2>3
  <2>4. QED
    BY <2>2, <2>3
<1>4. ASSUME NEW p \in Callers, DeclineTx(p)
      PROVE  ReqMoves(r)
  <2>1. PICK st \in {"EXPIRED", "REJECTED", "CANCELLED"} :
          req' = [req EXCEPT ![call[p].req].st = st, ![call[p].req].due = FALSE]
    BY <1>4, Outcomes DEF DeclineTx
  <2>2. CASE call[p].req = r
    <3>1. req'[r] = [req[r] EXCEPT !.st = st, !.due = FALSE] /\ Pending(r)
      BY <1>1, <1>4, <2>1, <2>2 DEF DeclineTx
    <3>2. QED
      BY <1>1, <3>1 DEF ReqMoves, ReqType
  <2>3. CASE call[p].req # r
    BY <1>1, <1>2, <2>1, <2>3
  <2>4. QED
    BY <2>2, <2>3
<1>5. ASSUME NEW p \in Callers, NEW q \in Requests, Switches(p, q)
      PROVE  ReqMoves(r)
  <2>1. \/ req' = req
        \/ req' = [req EXCEPT ![q].slot = call[p].slot, ![q].due = FALSE,
                              ![q].raced = @ \/ Overtaken(q)]
    BY <1>5 DEF Switches, SwitchSlot
  <2>2. CASE q = r /\ req' # req
    <3>1. req'[r] = [req[r] EXCEPT !.slot = call[p].slot, !.due = FALSE,
                                   !.raced = (req[r].raced \/ Overtaken(r))]
      BY <1>1, <2>1, <2>2
    <3>2. Pending(r)
      BY <1>5, <2>2 DEF Switches, Existing, PendingOn
    <3>3. req[r] \in ReqType
      BY <1>1
    <3>4. /\ req'[r].st = req[r].st /\ req'[r].from = req[r].from
          /\ req'[r].card = req[r].card /\ req'[r].meet = req[r].meet
          /\ req'[r].slot = call[p].slot
          /\ req'[r].raced = (req[r].raced \/ Overtaken(r))
      BY <3>1, <3>3 DEF ReqType
    <3>5. QED
      BY <1>5, <2>2, <3>2, <3>4 DEF ReqMoves, Pending
  <2>3. CASE q # r \/ req' = req
    BY <1>1, <1>2, <2>1, <2>3
  <2>4. QED
    BY <2>2, <2>3
<1>6. ASSUME NEW p \in Callers, NEW q \in Requests, Inserts(p, q)
      PROVE  ReqMoves(r)
  <2>1. /\ req' = [req EXCEPT ![q] = [NoReq EXCEPT !.st = "PENDING", !.from = call[p].user,
                                     !.card = call[p].card, !.slot = call[p].slot]]
         /\ req[q] = NoReq
    BY <1>6 DEF Inserts, Insert
  <2>2. CASE q = r
    <3>1. req'[r] = [NoReq EXCEPT !.st = "PENDING", !.from = call[p].user,
                                  !.card = call[p].card, !.slot = call[p].slot]
      BY <1>1, <2>1, <2>2
    <3>2. /\ req'[r].st = "PENDING"
          /\ req'[r].from = call[p].user /\ req'[r].card = call[p].card
          /\ req'[r].slot = call[p].slot /\ req'[r].meet = None /\ ~req'[r].raced
      BY <3>1 DEF NoReq
    <3>3. req[r].st = "new" /\ req[r].card = None
      BY <2>1, <2>2 DEF NoReq
    <3>4. QED
      BY <1>6, <2>2, <3>2, <3>3 DEF ReqMoves
  <2>3. CASE q # r
    BY <1>1, <1>2, <2>1, <2>3
  <2>4. QED
    BY <2>2, <2>3
<1>7. CASE ExpireRequests
  <2>1. req'[r] = req[r] \/ (Pending(r) /\ req'[r] = [req[r] EXCEPT !.st = "EXPIRED", !.due = FALSE])
    BY <1>7 DEF ExpireRequests
  <2>2. CASE Pending(r) /\ req'[r] = [req[r] EXCEPT !.st = "EXPIRED", !.due = FALSE]
    <3>1. req[r] \in ReqType
      BY <1>1
    <3>2. /\ req'[r].st = "EXPIRED" /\ req'[r].from = req[r].from /\ req'[r].card = req[r].card
          /\ req'[r].slot = req[r].slot /\ req'[r].meet = req[r].meet
          /\ req'[r].raced = req[r].raced
      BY <2>2, <3>1 DEF ReqType
    <3>3. QED
      BY <2>2, <3>2 DEF ReqMoves
  <2>3. QED
    BY <1>2, <2>1, <2>2
<1>8. ASSUME NEW c \in Cards, RemoveCard(c)
      PROVE  ReqMoves(r)
  <2>1. req'[r] = req[r] \/ (req[r].card = c /\ req'[r] = [NoReq EXCEPT !.st = "gone"])
    BY <1>8 DEF RemoveCard
  <2>2. CASE req[r].card = c /\ req'[r] = [NoReq EXCEPT !.st = "gone"]
    <3>1. req'[r].st = "gone" /\ req'[r].card = None /\ req'[r].meet = None /\ ~req'[r].raced
      BY <2>2 DEF NoReq
    <3>2. QED
      BY <1>8, <2>2, <3>1 DEF ReqMoves
  <2>3. QED
    BY <1>2, <2>1, <2>2
<1>9. ASSUME NEW q \in Requests, RequestDue(q)
      PROVE  ReqMoves(r)
  <2>1. req'[r] = req[r] \/ req'[r] = [req[r] EXCEPT !.due = TRUE]
    BY <1>1, <1>9 DEF RequestDue
  <2>2. QED
    BY <1>1, <1>2, <2>1 DEF ReqMoves, ReqType
<1>10. ASSUME \/ \E p \in Callers : Quiet(p) \/ Matches(p) \/ EditTx(p)
              \/ CancelPastSlots
              \/ \E c \in Cards : CardDue(c) \/ ExpireCard(c)
              \/ \E s \in Slots : SlotPasses(s)
       PROVE  UNCHANGED req
  BY <1>10 DEF Quiet, CreateRead, AcceptRead, RejectRead, CancelRead, Read, AutoMatchFails,
     InsertConflicts, Refused, StatusRead, EditRead, StatusWrite, Matches, EditTx,
     CancelPastSlots, CardDue, ExpireCard, SlotPasses
<1>11. QED
  BY <1>2, <1>3, <1>4, <1>5, <1>6, <1>7, <1>8, <1>9, <1>10, Acts

Declined(r) == Pending(r) /\ req'[r].st \in {"EXPIRED", "REJECTED", "CANCELLED"}

\* A slot stays, is released, is taken, is cancelled, is new or is removed.
SlotMoves(s) ==
  \/ slot'[s].st = slot[s].st /\ slot'[s].by = slot[s].by
  \/ /\ slot[s].st = "BOOKED" /\ slot'[s].st = "OPEN"
     /\ \/ Declined(slot[s].by)
        \/ \E p \in Callers : /\ Switches(p, slot[s].by)
                              /\ req[slot[s].by].slot = s /\ req'[slot[s].by].slot # s
  \/ /\ slot[s].st = "OPEN" /\ slot'[s].st = "BOOKED"
     /\ \E p \in Callers, r \in Requests :
          /\ Switches(p, r) \/ Inserts(p, r)
          /\ slot'[s].by = r /\ call[p].slot = s
          /\ req'[r].st = "PENDING" /\ req'[r].slot = s
  \/ slot[s].st = "OPEN" /\ slot'[s].st = "CANCELLED"
  \/ slot[s].st # "BOOKED" /\ (\E p \in Callers : EditTx(p)) /\ slot'[s].st = "OPEN"
  \/ RemoveCard(CardOf[s]) /\ slot'[s].st = "gone"

\* A switch that moves the request: out of the old slot and into the new one.
LEMMA SwitchEffect ==
  ASSUME TypeOK, NEW p \in Callers, NEW r \in Requests, Switches(p, r)
  PROVE  /\ Pending(r) /\ call[p].slot \in Slots
         /\ \/ UNCHANGED <<slot, req>>
            \/ /\ call[p].slot # req[r].slot /\ slot[call[p].slot].st = "OPEN"
               /\ req'[r].st = "PENDING" /\ req'[r].slot = call[p].slot
               /\ slot'[call[p].slot].st = "BOOKED" /\ slot'[call[p].slot].by = r
               /\ \A s \in Slots \ {call[p].slot} :
                    IF s = req[r].slot /\ slot[s].st = "BOOKED" /\ slot[s].by = r
                    THEN slot'[s].st = "OPEN" /\ slot'[s].by = None
                    ELSE slot'[s] = slot[s]
<1>1. slot \in [Slots -> SlotType] /\ req \in [Requests -> ReqType]
  BY TypesAreOK DEF Types
<1>2. /\ Pending(r) /\ call[p].slot \in Slots /\ req[r].slot \in Slots \cup {None}
      /\ None \notin Slots
  BY Facts DEF Switches, Existing, PendingOn, CallType, ReqType
<1>3. CASE UNCHANGED <<slot, req>>
  BY <1>2, <1>3
<1>4. CASE ~UNCHANGED <<slot, req>>
  <2>1. /\ call[p].slot # req[r].slot /\ slot[call[p].slot].st = "OPEN"
        /\ slot' = Claimed(Released(slot, req[r].slot, r), call[p].slot, r)
        /\ req' = [req EXCEPT ![r].slot = call[p].slot, ![r].due = FALSE,
                              ![r].raced = @ \/ Overtaken(r)]
    BY <1>4 DEF Switches, SwitchSlot
  <2>2. Released(slot, req[r].slot, r) \in [Slots -> SlotType]
    BY <1>1, <1>2, ReleasedType
  <2>3. /\ slot'[call[p].slot].st = "BOOKED" /\ slot'[call[p].slot].by = r
        /\ \A s \in Slots \ {call[p].slot} : slot'[s] = Released(slot, req[r].slot, r)[s]
    BY <1>2, <2>1, <2>2, SlotAfter
  <2>4. \A s \in Slots :
          IF s = req[r].slot /\ slot[s].st = "BOOKED" /\ slot[s].by = r
          THEN Released(slot, req[r].slot, r)[s].st = "OPEN"
                 /\ Released(slot, req[r].slot, r)[s].by = None
          ELSE Released(slot, req[r].slot, r)[s] = slot[s]
    BY <1>1, <1>2, SlotAfter
  <2>5. req'[r].st = "PENDING" /\ req'[r].slot = call[p].slot
    BY <1>1, <1>2, <2>1 DEF ReqType, Pending
  <2>6. QED
    BY <1>2, <2>1, <2>3, <2>4, <2>5
<1>5. QED
  BY <1>3, <1>4

LEMMA InsertEffect ==
  ASSUME TypeOK, NEW p \in Callers, NEW r \in Requests, Inserts(p, r)
  PROVE  /\ req[r].st = "new"
         /\ req'[r].st = "PENDING" /\ req'[r].slot = call[p].slot
         /\ req'[r].from = call[p].user /\ req'[r].card = call[p].card
         /\ \A q \in Requests \ {r} : req'[q] = req[q]
         /\ call[p].slot # None =>
              /\ slot[call[p].slot].st = "OPEN"
              /\ slot'[call[p].slot].st = "BOOKED" /\ slot'[call[p].slot].by = r
         /\ \A s \in Slots \ {call[p].slot} : slot'[s] = slot[s]
<1>1. slot \in [Slots -> SlotType] /\ req \in [Requests -> ReqType]
  BY TypesAreOK DEF Types
<1>2. call[p].slot \in Slots \cup {None}
  BY Facts DEF CallType
<1>3. req[r].st = "new"
  BY DEF Inserts, NoReq
<1>4. req'[r] = [NoReq EXCEPT !.st = "PENDING", !.from = call[p].user,
                              !.card = call[p].card, !.slot = call[p].slot]
  BY <1>1 DEF Inserts, Insert
<1>5. /\ req'[r].st = "PENDING" /\ req'[r].slot = call[p].slot
      /\ req'[r].from = call[p].user /\ req'[r].card = call[p].card
      /\ \A q \in Requests \ {r} : req'[q] = req[q]
  <2>1. \A q \in Requests \ {r} : req'[q] = req[q]
    BY <1>1 DEF Inserts, Insert
  <2>2. QED
    BY <1>4, <2>1 DEF NoReq
<1>6. CASE call[p].slot = None
  BY <1>3, <1>5, <1>6 DEF Inserts, Insert
<1>7. CASE call[p].slot # None
  <2>1. slot[call[p].slot].st = "OPEN" /\ slot' = Claimed(slot, call[p].slot, r)
    BY <1>7 DEF Inserts, Insert
  <2>2. QED
    BY <1>1, <1>2, <1>3, <1>5, <1>7, <2>1, SlotAfter
<1>8. QED
  BY <1>6, <1>7

LEMMA SlotSteps ==
  ASSUME TypeOK, Reads, Next, NEW s \in Slots
  PROVE  SlotMoves(s)
<1>1. slot \in [Slots -> SlotType] /\ req \in [Requests -> ReqType]
  BY TypesAreOK DEF Types
<1>2. slot'[s] = slot[s] => SlotMoves(s)
  BY DEF SlotMoves
<1>3. ASSUME NEW p \in Callers, NEW r \in Requests, Switches(p, r)
      PROVE  SlotMoves(s)
  <2>1. CASE s = call[p].slot /\ slot' # slot
    BY <1>3, <2>1, SwitchEffect DEF SlotMoves
  <2>2. CASE s # call[p].slot /\ slot'[s] # slot[s]
    BY <1>3, <2>2, SwitchEffect DEF SlotMoves
  <2>3. QED
    BY <1>2, <2>1, <2>2
<1>4. ASSUME NEW p \in Callers, NEW r \in Requests, Inserts(p, r)
      PROVE  SlotMoves(s)
  <2>1. CASE s = call[p].slot
    BY <1>4, <2>1, InsertEffect, Facts DEF SlotMoves
  <2>2. CASE s # call[p].slot
    BY <1>2, <1>4, <2>2, InsertEffect
  <2>3. QED
    BY <2>1, <2>2
<1>5. ASSUME NEW p \in Callers, DeclineTx(p)
      PROVE  SlotMoves(s)
  <2>1. /\ slot' = Released(slot, call[p].slot, call[p].req)
        /\ Pending(call[p].req) /\ call[p].pc \in DOMAIN Outcome
        /\ req' = [req EXCEPT ![call[p].req].st = Outcome[call[p].pc],
                              ![call[p].req].due = FALSE]
    BY <1>5 DEF DeclineTx
  <2>2. CASE slot'[s] # slot[s]
    <3>1. slot[s].st = "BOOKED" /\ slot[s].by = call[p].req /\ s = call[p].slot /\ s # None
      BY <1>1, <2>1, <2>2 DEF Released, SlotType
    <3>2. slot'[s].st = "OPEN"
      BY <1>1, <2>1, <3>1 DEF Released, SlotType
    <3>3. call[p].req \in Requests
      BY <2>1, Outcomes DEF Reads
    <3>4. Declined(call[p].req)
      BY <1>1, <2>1, <3>3, Outcomes DEF Declined, ReqType
    <3>5. QED
      BY <3>1, <3>2, <3>4 DEF SlotMoves
  <2>3. QED
    BY <1>2, <2>2
<1>6. CASE ExpireRequests
  <2>1. CASE slot'[s] # slot[s]
    <3>1. /\ slot[s].st = "BOOKED" /\ slot'[s] = [slot[s] EXCEPT !.st = "OPEN", !.by = None]
          /\ slot[s].by \in Requests /\ Pending(slot[s].by)
          /\ req'[slot[s].by] = [req[slot[s].by] EXCEPT !.st = "EXPIRED", !.due = FALSE]
      BY <1>6, <2>1 DEF ExpireRequests
    <3>2. slot'[s].st = "OPEN" /\ Declined(slot[s].by)
      BY <1>1, <3>1 DEF Declined, SlotType, ReqType
    <3>3. QED
      BY <3>1, <3>2 DEF SlotMoves
  <2>2. QED
    BY <1>2, <2>1
<1>7. ASSUME NEW S
      PROVE  \/ Cancelled(S)[s] = slot[s]
             \/ slot[s].st = "OPEN" /\ Cancelled(S)[s].st = "CANCELLED"
  BY <1>1 DEF Cancelled, SlotType
<1>8. CASE CancelPastSlots
  BY <1>2, <1>7, <1>8 DEF CancelPastSlots, SlotMoves
<1>9. ASSUME NEW p \in Callers, EditTx(p)
      PROVE  SlotMoves(s)
  <2>1. PICK N \in SUBSET {t \in SlotsOf(call[p].card) : slot[t].st = "new"} :
          slot' = [t \in Slots |-> IF t \in N THEN [Unused EXCEPT !.st = "OPEN"]
                                              ELSE Cancelled(call[p].open)[t]]
    BY <1>9 DEF EditTx
  <2>2. CASE s \in N
    <3>1. slot[s].st = "new" /\ slot'[s].st = "OPEN"
      BY <2>1, <2>2 DEF Unused
    <3>2. QED
      BY <1>9, <3>1 DEF SlotMoves
  <2>3. CASE s \notin N
    BY <1>2, <1>7, <2>1, <2>3 DEF SlotMoves
  <2>4. QED
    BY <2>2, <2>3
<1>10. ASSUME NEW c \in Cards, RemoveCard(c)
       PROVE  SlotMoves(s)
  <2>1. slot'[s] = IF CardOf[s] = c THEN [Unused EXCEPT !.st = "gone"] ELSE slot[s]
    BY <1>10 DEF RemoveCard
  <2>2. CASE CardOf[s] = c
    BY <1>10, <2>1, <2>2 DEF SlotMoves, Unused
  <2>3. QED
    BY <1>2, <2>1, <2>2
<1>11. ASSUME NEW t \in Slots, SlotPasses(t)
       PROVE  SlotMoves(s)
  <2>1. slot'[s] = slot[s] \/ slot'[s] = [slot[s] EXCEPT !.past = TRUE]
    BY <1>1, <1>11 DEF SlotPasses
  <2>2. QED
    BY <1>1, <2>1 DEF SlotMoves, SlotType
<1>12. ASSUME \/ \E p \in Callers : Quiet(p) \/ Matches(p) \/ AcceptTx(p)
              \/ \E c \in Cards : CardDue(c) \/ ExpireCard(c)
              \/ \E r \in Requests : RequestDue(r)
       PROVE  UNCHANGED slot
  BY <1>12 DEF Quiet, CreateRead, AcceptRead, RejectRead, CancelRead, Read, AutoMatchFails,
     InsertConflicts, Refused, StatusRead, EditRead, StatusWrite, Matches, AcceptTx,
     CardDue, ExpireCard, RequestDue
<1>13. QED
  BY <1>2, <1>3, <1>4, <1>5, <1>6, <1>8, <1>9, <1>10, <1>11, <1>12, Acts

\* remove takes the slots of the card and its requests.
LEMMA RemoveEffect ==
  ASSUME TypeOK, NEW c \in Cards, RemoveCard(c)
  PROVE  /\ \A s \in Slots : CardOf[s] = c => slot'[s].st = "gone"
         /\ \A r \in Requests : req[r].card = c => req'[r].st = "gone"
<1>1. [Unused EXCEPT !.st = "gone"].st = "gone" /\ [NoReq EXCEPT !.st = "gone"].st = "gone"
  BY DEF Unused, NoReq
<1>2. QED
  BY <1>1 DEF RemoveCard

-----------------------------------------------------------------------------
(* The invariant is inductive. *)

LEMMA InitInv == ASSUME Init PROVE IInv
<1>1. TypeOK
  <2>1. /\ NoReq \in ReqType /\ NoCall \in CallType /\ Unused \in SlotType
        /\ [Unused EXCEPT !.st = "OPEN"] \in SlotType
        /\ [st |-> "ACTIVE", due |-> FALSE] \in CardType
    BY DEF NoReq, ReqType, NoCall, CallType, Pcs, Unused, SlotType, CardType
  <2>2. QED
    BY <2>1, TypesAreOK DEF Init, Types
<1>2. /\ \A r \in Requests : /\ req[r].st = "new" /\ req[r].card = None
                            /\ req[r].meet = None /\ req[r].raced = FALSE
      /\ \A p \in Callers : call[p].pc = "idle"
      /\ \A s \in Slots : slot[s].st = "OPEN" => s \in FirstSlots
      /\ \A s \in Slots : slot[s].st \in {"OPEN", "new"}
  BY DEF Init, NoReq, NoCall, Unused
<1>3. PendingLimits
  <2>1. \A c \in Cards : PendingOn(c) = {}
    BY <1>2 DEF PendingOn, Pending
  <2>2. Cardinality({}) = 0
    BY FS_EmptySet
  <2>3. QED
    BY <1>1, <2>1, <2>2, Facts DEF PendingLimits
<1>4. Reads
  BY <1>2 DEF Reads, Decisions
<1>5. Rows
  BY <1>2, ConstantsAssumption DEF Rows, Requested, BookedOnCard, NoOverlap, Shown,
     ConstantsAssumption
<1>6. SlotsAgree /\ MeetIsSlot
  BY <1>2 DEF SlotsAgree, SlotIsHeld, NoSlotLost, MeetIsSlot, Met
<1>7. QED
  BY <1>1, <1>3, <1>4, <1>5, <1>6 DEF IInv

\* What a call has read stays true, or the request is marked raced.
LEMMA ReadsStep == ASSUME TypeOK, Reads, Next PROVE Reads'
<1> SUFFICES ASSUME NEW p \in Callers
             PROVE  LET k == call'[p] IN
               /\ k.pc \in {"create", "match", "conflict"} =>
                    /\ k.user \in Users /\ k.card \in Cards
                    /\ k.slot # None => CardOf[k.slot] = k.card
               /\ k.pc \in {"edit", "renew", "hide", "show"} => k.card \in Cards
               /\ k.pc \in Decisions =>
                    /\ k.req \in Requests /\ req'[k.req].st # "new"
                    /\ req'[k.req].st = "PENDING" /\ ~req'[k.req].raced
                         => k.slot = req'[k.req].slot
  BY DEF Reads, Pending
<1>1. CallMoves(p)
  BY CallSteps
<1>2. CASE call'[p] = call[p]
  <2>1. CASE call[p].pc \in Decisions
    <3>1. DEFINE r == call[p].req
    <3>2. r \in Requests /\ req[r].st # "new"
      BY <2>1 DEF Reads
    <3>3. ReqMoves(r)
      BY <3>2, ReqSteps
    <3>4. req'[r].st # "new"
      BY <3>2, <3>3 DEF ReqMoves, Pending
    <3>5. ASSUME req'[r].st = "PENDING", ~req'[r].raced
          PROVE  call[p].slot = req'[r].slot
      <4>1. Overtaken(r)
        BY <2>1 DEF Overtaken
      <4>2. Pending(r) /\ ~req[r].raced /\ req'[r].slot = req[r].slot
        BY <3>2, <3>3, <3>5, <4>1 DEF ReqMoves, Pending
      <4>3. QED
        BY <2>1, <4>2 DEF Reads
    <3>6. QED
      BY <1>2, <2>1, <3>2, <3>4, <3>5 DEF Decisions
  <2>2. CASE call[p].pc \notin Decisions
    BY <1>2, <2>2 DEF Reads
  <2>3. QED
    BY <2>1, <2>2
<1>3. CASE call'[p] = NoCall
  <2>1. call'[p].pc = "idle"
    BY <1>3 DEF NoCall
  <2>2. QED
    BY <2>1 DEF Decisions
<1>4. CASE call'[p] # call[p] /\ call'[p] # NoCall
  BY <1>1, <1>4 DEF CallMoves, Reads, Decisions, Pending
<1>5. QED
  BY <1>2, <1>3, <1>4

LEMMA RequestedStep == ASSUME TypeOK, Reads, Requested, Next PROVE Requested'
<1> SUFFICES ASSUME NEW r \in Requests
             PROVE  /\ req'[r].st \notin {"new", "gone"} =>
                         /\ req'[r].from \in Users /\ req'[r].card \in Cards
                         /\ req'[r].slot # None => CardOf[req'[r].slot] = req'[r].card
                    /\ req'[r].st \in {"new", "gone"} => ~req'[r].raced /\ req'[r].card = None
                    /\ req'[r].meet # None => req'[r].st = "ACCEPTED"
  BY DEF Requested
<1>1. ReqMoves(r)
  BY ReqSteps
<1>2. ASSUME NEW p \in Callers, Switches(p, r)
      PROVE  CardOf[call[p].slot] = req[r].card
  BY <1>2 DEF Switches, Existing, PendingOn, Reads
<1>3. ASSUME NEW p \in Callers, Inserts(p, r)
      PROVE  /\ call[p].user \in Users /\ call[p].card \in Cards
             /\ call[p].slot # None => CardOf[call[p].slot] = call[p].card
  BY <1>3 DEF Inserts, Reads
<1>4. QED
  BY <1>1, <1>2, <1>3 DEF ReqMoves, Requested, Pending

LEMMA BookedOnCardStep ==
  ASSUME TypeOK, Reads, Requested, BookedOnCard, Next
  PROVE  BookedOnCard'
<1> SUFFICES ASSUME NEW s \in Slots, slot'[s].st = "BOOKED"
             PROVE  slot'[s].by \in Requests /\ req'[slot'[s].by].card = CardOf[s]
  BY DEF BookedOnCard
<1>1. SlotMoves(s)
  BY SlotSteps
<1>2. CASE slot'[s].st = slot[s].st /\ slot'[s].by = slot[s].by
  <2>1. slot[s].by \in Requests /\ req[slot[s].by].card = CardOf[s] /\ CardOf[s] \in Cards
    BY <1>2, Facts DEF BookedOnCard
  <2>2. ReqMoves(slot[s].by)
    BY <2>1, ReqSteps
  <2>3. ~RemoveCard(CardOf[s])
    BY <2>1, RemoveEffect
  <2>4. QED
    BY <1>2, <2>1, <2>2, <2>3, Facts DEF ReqMoves
<1>3. ASSUME NEW p \in Callers, NEW r \in Requests, Inserts(p, r), slot'[s].by = r,
             call[p].slot = s
      PROVE  req'[r].card = CardOf[s]
  BY <1>3, InsertEffect, Facts DEF Inserts, Reads
<1>4. ASSUME NEW p \in Callers, NEW r \in Requests, Switches(p, r), slot'[s].by = r,
             call[p].slot = s, req'[r].st = "PENDING"
      PROVE  req'[r].card = CardOf[s]
  <2>1. CardOf[s] = req[r].card /\ Pending(r)
    BY <1>4 DEF Switches, Existing, PendingOn, Reads
  <2>2. ReqMoves(r)
    BY ReqSteps
  <2>3. QED
    BY <1>4, <2>1, <2>2 DEF ReqMoves, Pending
<1>5. QED
  BY <1>1, <1>2, <1>3, <1>4 DEF SlotMoves

-----------------------------------------------------------------------------
\* replaceSlots inserts one slot for each time that is wanted.
LEMMA OneSlotEach ==
  ASSUME NEW N \in SUBSET Slots,
         Cardinality(N) = Cardinality({TimeOf[s] : s \in N}),
         NEW s \in N, NEW t \in N, s # t
  PROVE  TimeOf[s] # TimeOf[t]
<1> DEFINE T == {TimeOf[x] : x \in N}
           f == [x \in N |-> TimeOf[x]]
<1>1. IsFiniteSet(N)
  BY ConstantsAssumption, FS_Subset DEF ConstantsAssumption
<1>2. f \in Surjection(N, T)
  BY DEF Surjection
<1>3. IsFiniteSet(T)
  BY <1>1, <1>2, FS_Surjection
<1>4. f \in Injection(N, T)
  BY <1>1, <1>2, FS_SurjSameCardinalityImpliesInj
<1>5. QED
  BY <1>4 DEF Injection, IsInjective

LEMMA NoOverlapStep ==
  ASSUME TypeOK, Reads, NoOverlap, Next
  PROVE  NoOverlap'
<1> SUFFICES ASSUME NEW s \in Slots, NEW t \in Slots, s # t, CardOf[s] = CardOf[t],
                    Shown(s)', Shown(t)'
             PROVE  TimeOf[s] # TimeOf[t]
  BY DEF NoOverlap, Shown
<1>1. ASSUME NEW p \in Callers, EditTx(p)
      PROVE  TimeOf[s] # TimeOf[t]
  <2> DEFINE k == call[p]
             u == Cancelled(k.open)
  <2>1. PICK N \in SUBSET {x \in SlotsOf(k.card) : slot[x].st = "new"} :
          /\ {TimeOf[x] : x \in N} = k.want /\ Cardinality(N) = Cardinality(k.want)
          /\ \A x \in SlotsOf(k.card) : u[x].st \in {"OPEN", "BOOKED"} => TimeOf[x] \notin k.want
          /\ slot' = [x \in Slots |-> IF x \in N THEN [Unused EXCEPT !.st = "OPEN"] ELSE u[x]]
    BY <1>1 DEF EditTx
  <2>2. \A x \in N : x \in Slots /\ CardOf[x] = k.card /\ TimeOf[x] \in k.want
    BY <2>1 DEF SlotsOf
  <2>3. ASSUME NEW x \in Slots, x \notin N, Shown(x)'
        PROVE  Shown(x) /\ (CardOf[x] = k.card => TimeOf[x] \notin k.want)
    <3>1. slot'[x] = u[x] /\ u[x].st \in {"OPEN", "BOOKED"}
      BY <2>1, <2>3 DEF Shown
    <3>2. u[x] = slot[x] \/ u[x].st = "CANCELLED"
      <4>1. slot[x] \in SlotType
        BY Facts
      <4>2. QED
        BY <4>1 DEF Cancelled, SlotType
    <3>3. QED
      BY <2>1, <3>1, <3>2 DEF Shown, SlotsOf
  <2>4. CASE s \in N /\ t \in N
    BY <2>1, <2>2, <2>4, OneSlotEach
  <2>5. CASE s \in N /\ t \notin N
    BY <2>2, <2>3, <2>5
  <2>6. CASE s \notin N /\ t \in N
    BY <2>2, <2>3, <2>6
  <2>7. CASE s \notin N /\ t \notin N
    BY <2>3, <2>7 DEF NoOverlap
  <2>8. QED
    BY <2>4, <2>5, <2>6, <2>7
<1>2. CASE \A p \in Callers : ~EditTx(p)
  <2>1. ASSUME NEW x \in Slots, Shown(x)'
        PROVE  Shown(x)
    BY <1>2, <2>1, SlotSteps DEF SlotMoves, Shown
  <2>2. QED
    BY <2>1 DEF NoOverlap
<1>3. QED
  BY <1>1, <1>2

-----------------------------------------------------------------------------
LEMMA SlotIsHeldStep ==
  ASSUME TypeOK, Reads, Requested, BookedOnCard, SlotIsHeld, Next
  PROVE  SlotIsHeld'
<1> SUFFICES ASSUME NEW r \in Requests, req'[r].st \in {"PENDING", "ACCEPTED"},
                    req'[r].slot # None
             PROVE  slot'[req'[r].slot].st = "BOOKED" /\ slot'[req'[r].slot].by = r
  BY DEF SlotIsHeld, Held
<1>1. ReqMoves(r)
  BY ReqSteps
<1>2. CASE /\ req[r].st \in {"PENDING", "ACCEPTED"} /\ req'[r].slot = req[r].slot
  <2> DEFINE s == req[r].slot
  <2>1. s \in Slots /\ slot[s].st = "BOOKED" /\ slot[s].by = r
    BY <1>2, Facts DEF SlotIsHeld, Held, ReqType
  <2>2. SlotMoves(s)
    BY <2>1, SlotSteps
  <2>3. ~RemoveCard(CardOf[s])
    BY <2>1, RemoveEffect, Facts DEF BookedOnCard
  <2>4. QED
    BY <1>2, <2>1, <2>2, <2>3 DEF SlotMoves, Declined
<1>3. ASSUME NEW p \in Callers, Switches(p, r), req'[r].slot # req[r].slot
      PROVE  slot'[req'[r].slot].st = "BOOKED" /\ slot'[req'[r].slot].by = r
  BY <1>3, SwitchEffect
<1>4. ASSUME NEW p \in Callers, Inserts(p, r)
      PROVE  slot'[req'[r].slot].st = "BOOKED" /\ slot'[req'[r].slot].by = r
  BY <1>4, InsertEffect
<1>5. QED
  BY <1>1, <1>2, <1>3, <1>4 DEF ReqMoves, Pending

\* A request that ends without a meeting gives its slot back: the slot it was
\* read with is the one it holds.
LEMMA DeclineEffect ==
  ASSUME TypeOK, Reads, SlotsAgree, Next, NEW r \in Requests, Declined(r), ~req[r].raced,
         NEW s \in Slots, slot[s].st = "BOOKED", slot[s].by = r
  PROVE  slot'[s].st # "BOOKED"
<1>1. /\ slot \in [Slots -> SlotType] /\ req \in [Requests -> ReqType]
      /\ Pending(r) /\ req[r].slot = s /\ s # None
      /\ req'[r].st \in {"EXPIRED", "REJECTED", "CANCELLED"}
  BY TypesAreOK, Facts DEF Types, SlotsAgree, NoSlotLost, Declined
<1>2. ASSUME NEW p \in Callers, DeclineTx(p)
      PROVE  slot'[s].st # "BOOKED"
  <2>1. /\ slot' = Released(slot, call[p].slot, call[p].req)
        /\ Pending(call[p].req) /\ call[p].pc \in DOMAIN Outcome
        /\ req' = [req EXCEPT ![call[p].req].st = Outcome[call[p].pc],
                              ![call[p].req].due = FALSE]
    BY <1>2 DEF DeclineTx
  <2>2. call[p].req = r
    BY <1>1, <2>1 DEF Pending
  <2>3. call[p].slot = s
    BY <1>1, <2>1, <2>2, Outcomes DEF Reads
  <2>4. QED
    BY <1>1, <2>1, <2>2, <2>3, SlotAfter
<1>3. CASE ExpireRequests
  <2>1. req'[r] # req[r]
    BY <1>1 DEF Pending
  <2>2. r \in {q \in Requests : Pending(q) /\ req[q].due}
    BY <1>3, <2>1 DEF ExpireRequests
  <2>3. slot'[s] = [slot[s] EXCEPT !.st = "OPEN", !.by = None]
    BY <1>3, <2>2 DEF ExpireRequests
  <2>4. QED
    BY <1>1, <2>3 DEF SlotType
<1>4. ASSUME NEW p \in Callers, AcceptTx(p)
      PROVE  FALSE
  BY <1>1, <1>4 DEF AcceptTx, Pending, ReqType
<1>5. ASSUME NEW p \in Callers, NEW q \in Requests, Switches(p, q)
      PROVE  FALSE
  <2>1. \A x \in Requests : x # q => req'[x] = req[x]
    BY <1>1, <1>5 DEF Switches, SwitchSlot
  <2>2. req'[q].st = "PENDING"
    BY <1>5, SwitchEffect DEF Pending
  <2>3. QED
    BY <1>1, <2>1, <2>2 DEF Pending
<1>6. ASSUME NEW p \in Callers, NEW q \in Requests, Inserts(p, q)
      PROVE  FALSE
  BY <1>1, <1>6, InsertEffect DEF Pending
<1>7. ASSUME NEW c \in Cards, RemoveCard(c)
      PROVE  FALSE
  <2>1. req'[r] = req[r] \/ req'[r] = [NoReq EXCEPT !.st = "gone"]
    BY <1>7 DEF RemoveCard
  <2>2. QED
    BY <1>1, <2>1 DEF Pending, NoReq
<1>8. ASSUME NEW q \in Requests, RequestDue(q)
      PROVE  FALSE
  <2>1. req'[r] = req[r] \/ req'[r] = [req[r] EXCEPT !.due = TRUE]
    BY <1>1, <1>8 DEF RequestDue
  <2>2. QED
    BY <1>1, <2>1 DEF Pending, ReqType
<1>9. ASSUME \/ \E p \in Callers : Quiet(p) \/ Matches(p) \/ EditTx(p)
             \/ CancelPastSlots
             \/ \E c \in Cards : CardDue(c) \/ ExpireCard(c)
             \/ \E t \in Slots : SlotPasses(t)
      PROVE  FALSE
  <2>1. UNCHANGED req
    BY <1>9 DEF Quiet, CreateRead, AcceptRead, RejectRead, CancelRead, Read, AutoMatchFails,
       InsertConflicts, Refused, StatusRead, EditRead, StatusWrite, Matches, EditTx,
       CancelPastSlots, CardDue, ExpireCard, SlotPasses
  <2>2. QED
    BY <1>1, <2>1 DEF Pending
<1>10. QED
  BY <1>2, <1>3, <1>4, <1>5, <1>6, <1>7, <1>8, <1>9, Acts

LEMMA NoSlotLostStep ==
  ASSUME TypeOK, Reads, Requested, BookedOnCard, SlotsAgree, Next
  PROVE  NoSlotLost'
<1> SUFFICES ASSUME NEW s \in Slots, slot'[s].st = "BOOKED"
             PROVE  \/ req'[slot'[s].by].raced
                    \/ /\ req'[slot'[s].by].st \in {"PENDING", "ACCEPTED"}
                       /\ req'[slot'[s].by].slot = s
  BY DEF NoSlotLost
<1>1. SlotMoves(s)
  BY SlotSteps
<1>2. CASE slot'[s].st = slot[s].st /\ slot'[s].by = slot[s].by
  <2> DEFINE r == slot[s].by
  <2>1. r \in Requests /\ req[r].card = CardOf[s] /\ CardOf[s] \in Cards
    BY <1>2, Facts DEF BookedOnCard
  <2>2. ReqMoves(r)
    BY <2>1, ReqSteps
  <2>3. ~RemoveCard(req[r].card)
    BY <2>1, RemoveEffect
  <2>4. req[r].card # None
    BY <2>1, Facts
  <2>5. req[r].raced \/ (req[r].st \in {"PENDING", "ACCEPTED"} /\ req[r].slot = s)
    BY <1>2 DEF SlotsAgree, NoSlotLost
  <2>6. CASE req[r].raced
    BY <1>2, <2>2, <2>3, <2>4, <2>6 DEF ReqMoves
  <2>7. CASE ~req[r].raced
    <3>1. ~Declined(r)
      BY <1>2, <2>1, <2>7, DeclineEffect
    <3>2. ASSUME NEW p \in Callers, Switches(p, r)
          PROVE  UNCHANGED <<slot, req>>
      <4>1. req[r].slot = s
        BY <2>5, <2>7
      <4>2. QED
        BY <1>2, <2>1, <3>2, <4>1, SwitchEffect
    <3>3. QED
      BY <1>2, <2>2, <2>3, <2>4, <2>5, <2>7, <3>1, <3>2 DEF ReqMoves, Declined, Pending
  <2>8. QED
    BY <2>6, <2>7
<1>3. QED
  BY <1>1, <1>2 DEF SlotMoves

LEMMA MeetIsSlotStep ==
  ASSUME TypeOK, Reads, Requested, MeetIsSlot, Next
  PROVE  MeetIsSlot'
<1> SUFFICES ASSUME NEW r \in Requests, req'[r].meet # None, ~req'[r].raced
             PROVE  req'[r].meet = req'[r].slot
  BY DEF MeetIsSlot, Met
<1>1. ReqMoves(r)
  BY ReqSteps
<1>2. ASSUME Pending(r)
      PROVE  req[r].meet = None
  BY <1>2 DEF Requested, Pending
<1>3. ASSUME NEW p \in Callers, AcceptTx(p), call[p].req = r, ~req[r].raced
      PROVE  call[p].slot = req[r].slot
  BY <1>3 DEF AcceptTx, Reads, Decisions
<1>4. QED
  BY <1>1, <1>2, <1>3 DEF ReqMoves, MeetIsSlot, Met

-----------------------------------------------------------------------------
LEMMA PendingLimitsStep ==
  ASSUME TypeOK, Reads, PendingLimits, Next
  PROVE  PendingLimits'
<1>1. Others' = Others /\ Others \in Nat /\ MaxIncoming \in Nat
  BY Facts DEF Next, Others
<1>2. \A c \in Cards : IsFiniteSet(PendingOn(c)) /\ Cardinality(PendingOn(c)) \in Nat
  BY ConstantsAssumption, FS_Subset, FS_CardinalityType DEF ConstantsAssumption, PendingOn
<1> SUFFICES ASSUME NEW c \in Cards
             PROVE  /\ Cardinality(PendingOn(c)') + Others <= MaxIncoming
                    /\ \A q, r \in PendingOn(c)' : req'[q].from = req'[r].from => q = r
  BY <1>1 DEF PendingLimits
<1>3. ASSUME NEW r \in PendingOn(c)', \A p \in Callers : ~Inserts(p, r)
      PROVE  r \in PendingOn(c) /\ req'[r].from = req[r].from
  <2>1. r \in Requests /\ req'[r].st = "PENDING" /\ req'[r].card = c
    BY DEF PendingOn, Pending
  <2>2. ReqMoves(r)
    BY <2>1, ReqSteps
  <2>3. QED
    BY <1>3, <2>1, <2>2 DEF ReqMoves, PendingOn, Pending
<1>4. CASE \A r \in Requests : \A p \in Callers : ~Inserts(p, r)
  <2>1. \A r \in PendingOn(c)' : r \in PendingOn(c) /\ req'[r].from = req[r].from
    BY <1>3, <1>4 DEF PendingOn
  <2>2. Cardinality(PendingOn(c)') <= Cardinality(PendingOn(c)) /\ Cardinality(PendingOn(c)') \in Nat
    BY <1>2, <2>1, FS_Subset, FS_CardinalityType
  <2>3. QED
    BY <1>1, <1>2, <2>1, <2>2 DEF PendingLimits
<1>5. ASSUME NEW p \in Callers, NEW n \in Requests, Inserts(p, n)
      PROVE  /\ Cardinality(PendingOn(c)') + Others <= MaxIncoming
             /\ \A q, r \in PendingOn(c)' : req'[q].from = req'[r].from => q = r
  <2>1. /\ req[n].st = "new" /\ req'[n].st = "PENDING" /\ req'[n].from = call[p].user
        /\ req'[n].card = call[p].card /\ \A q \in Requests \ {n} : req'[q] = req[q]
    BY <1>5, InsertEffect
  <2>2. n \notin PendingOn(c)
    BY <2>1 DEF PendingOn, Pending
  <2>3. CASE call[p].card # c
    <3>1. PendingOn(c)' = PendingOn(c)
      BY <2>1, <2>2, <2>3 DEF PendingOn, Pending
    <3>2. \A r \in PendingOn(c) : req'[r] = req[r]
      BY <2>1, <2>2 DEF PendingOn
    <3>3. QED
      BY <1>1, <3>1, <3>2 DEF PendingLimits
  <2>4. CASE call[p].card = c
    <3>1. PendingOn(c)' = PendingOn(c) \cup {n}
      BY <2>1, <2>2, <2>4 DEF PendingOn, Pending
    <3>2. Cardinality(PendingOn(c)') = Cardinality(PendingOn(c)) + 1
      BY <1>2, <2>2, <3>1, FS_AddElement
    <3>3. Cardinality(PendingOn(c)) + Others < MaxIncoming
      BY <1>5, <2>4 DEF Inserts, MayRequest
    <3>4. \A r \in PendingOn(c) : req'[r] = req[r] /\ req[r].from # call[p].user
      BY <1>5, <2>1, <2>2, <2>4 DEF Inserts, Insert, Existing, PendingOn
    <3>5. \A q, r \in PendingOn(c)' : req'[q].from = req'[r].from => q = r
      BY <2>1, <3>1, <3>4 DEF PendingLimits
    <3>6. QED
      BY <1>1, <1>2, <3>2, <3>3, <3>5
  <2>5. QED
    BY <2>3, <2>4
<1>6. QED
  BY <1>4, <1>5

LEMMA NextInv == ASSUME IInv, Next PROVE IInv'
<1>1. TypeOK' /\ PendingLimits' /\ Reads' /\ Requested' /\ BookedOnCard' /\ NoOverlap'
  BY TypeStep, PendingLimitsStep, ReadsStep, RequestedStep, BookedOnCardStep, NoOverlapStep
     DEF IInv, Rows
<1>2. SlotIsHeld' /\ NoSlotLost' /\ MeetIsSlot'
  BY SlotIsHeldStep, NoSlotLostStep, MeetIsSlotStep DEF IInv, Rows, SlotsAgree
<1>3. QED
  BY <1>1, <1>2 DEF IInv, Rows, SlotsAgree

-----------------------------------------------------------------------------
(* The theorems. *)

LEMMA StutterInv == ASSUME IInv, UNCHANGED <<env, vars>> PROVE IInv'
<1>1. UNCHANGED env /\ UNCHANGED card /\ UNCHANGED slot /\ UNCHANGED req /\ UNCHANGED call
  BY DEF vars
<1>2. TypeOK'
  BY <1>1 DEF IInv, TypeOK
<1>3. PendingLimits'
  BY <1>1 DEF IInv, PendingLimits, PendingOn, Pending, Others
<1>4. Reads'
  BY <1>1 DEF IInv, Reads, Pending
<1>5. Rows'
  BY <1>1 DEF IInv, Rows, Requested, BookedOnCard, NoOverlap, Shown
<1>6. SlotsAgree' /\ MeetIsSlot'
  BY <1>1 DEF IInv, SlotsAgree, SlotIsHeld, Held, NoSlotLost, MeetIsSlot, Met
<1>7. QED
  BY <1>2, <1>3, <1>4, <1>5, <1>6 DEF IInv

\* The tables stay well typed and within their limits, calls keep true readings, and
\* slots, requests and meetings agree, in every behaviour.
THEOREM Invariance == Spec => []IInv
<1>1. Init => IInv
  BY InitInv
<1>2. IInv /\ [Next]_<<env, vars>> => IInv'
  BY NextInv, StutterInv
<1>3. QED
  BY <1>1, <1>2, PTL DEF Spec

\* create's transaction keeps a card within MAX_PENDING_INCOMING_PER_CARD, and a sender
\* to one pending request per card, for any number of overlapping calls.
THEOREM Limits == Spec => []TablesOK
BY Invariance, PTL DEF IInv, TablesOK

\* Nobody loses the slot of a request that waits or was accepted, and no slot
\* stays booked for a request that ended, switches under a decision excepted.
THEOREM Agreement == Spec => []SlotsAgree
BY Invariance, PTL DEF IInv

\* Two meetings of a card are never at one time.
LEMMA MeetingsAreApart == ASSUME IInv PROVE MeetingsHold
<1> SUFFICES ASSUME NEW q \in Met, NEW r \in Met
             PROVE  /\ req[q].meet = req[q].slot
                    /\ q # r /\ req[q].card = req[r].card
                         => TimeOf[req[q].meet] # TimeOf[req[r].meet]
  BY DEF MeetingsHold
<1>1. ASSUME NEW x \in Met
      PROVE  /\ req[x].meet = req[x].slot /\ req[x].slot \in Slots
             /\ CardOf[req[x].slot] = req[x].card
             /\ slot[req[x].slot].st = "BOOKED" /\ slot[req[x].slot].by = x
  <2>1. x \in Requests /\ req[x].meet # None /\ req[x].meet = req[x].slot
        /\ req[x].st = "ACCEPTED"
    BY DEF IInv, Rows, Requested, MeetIsSlot, Met
  <2>2. req[x].slot \in Slots
    BY <2>1, Facts DEF IInv, ReqType
  <2>3. QED
    BY <2>1, <2>2 DEF IInv, Rows, Requested, SlotsAgree, SlotIsHeld, Held
<1>2. QED
  BY <1>1 DEF IInv, Rows, NoOverlap, Shown

THEOREM Meetings == Spec => []MeetingsHold
<1>1. IInv => MeetingsHold
  BY MeetingsAreApart
<1>2. QED
  BY <1>1, Invariance, PTL

\* An answer is given once: no late call changes what became of a request, nor
\* the time of its meeting.
THEOREM Finality == Spec => OutcomeIsFinal
<1> DEFINE Final == \A r \in Requests : Settled(r) =>
                      \/ req'[r].st = "gone"
                      \/ req'[r].st = req[r].st /\ req'[r].meet = req[r].meet
                           /\ req'[r].slot = req[r].slot
<1>1. ASSUME TypeOK, Next
      PROVE  Final
  <2> SUFFICES ASSUME NEW r \in Requests, Settled(r)
               PROVE  \/ req'[r].st = "gone"
                      \/ req'[r].st = req[r].st /\ req'[r].meet = req[r].meet
                           /\ req'[r].slot = req[r].slot
    OBVIOUS
  <2>1. ReqMoves(r)
    BY <1>1, ReqSteps
  <2>2. ~Pending(r) /\ req[r].st # "new"
    BY DEF Settled, Pending
  <2>3. QED
    BY <2>1, <2>2 DEF ReqMoves
<1>2. IInv /\ [Next]_<<env, vars>> => [Final]_vars
  BY <1>1 DEF IInv, vars
<1>3. QED
  BY <1>2, Invariance, PTL DEF Spec, OutcomeIsFinal
=============================================================================
