------------------------------- MODULE Campaigns -------------------------------
(***************************************************************************)
(* A notification campaign (notification-campaigns.service.ts): an         *)
(* administrator drafts, edits, queues, cancels and removes it; every ten  *)
(* seconds a pass of dispatchScheduledCampaigns takes a lock with a TTL in *)
(* Redis, claims the campaign and sends one chunk: it reads the cursor     *)
(* (lastProcessedUserId) and the next recipients, and in one transaction   *)
(* inserts their notifications (dedupKey is unique, duplicates are         *)
(* skipped) and moves the cursor.  A pass may be slower than its lock, so  *)
(* passes overlap.                                                         *)
(*                                                                         *)
(* Users are the numbers of their ids in the order of the database.  Other *)
(* campaigns of the pass only take time.  The draft is taken from its      *)
(* creation; texts, totals and the Redis side of a notification (best      *)
(* effort, its errors are caught) are left out.                            *)
(***************************************************************************)
EXTENDS Naturals, FiniteSets

CONSTANTS
  Users,      \* ids of users
  Workers,    \* passes of the cron
  None,       \* no pass
  ChunkSize,  \* CHUNK_SIZE
  MaxFaults,  \* bound: failures, crashes, locks that expire under their holder
  MaxEdits,   \* bound: edits of the campaign and changes of users
  Cases       \* the sets of events to look at

\* fail: a call to PostgreSQL fails; crash: the process dies; slow: a pass
\* outlives its lock; edit: the administrator edits, cancels, removes; people:
\* users are deactivated and activated.
Events == {"fail", "crash", "slow", "edit", "people"}

ASSUME ConstantsAssumption ==
  /\ Users \subseteq Nat \ {0} /\ IsFiniteSet(Users)
  /\ None \notin Workers
  /\ ChunkSize \in Nat \ {0}
  /\ MaxFaults \in Nat /\ MaxEdits \in Nat
  /\ Cases \subseteq SUBSET Events

VARIABLES
  env,       \* the events that may happen in this behaviour; it never changes
  camp,      \* status, targetType ALL or the recipients, lastProcessedUserId (0:
             \*   none), sentCount, and whether sentAt is set
  notified,  \* the users with a notification of the campaign
  active,    \* the users who are active
  late,      \* the recipients by a change made after the first claim
  worker,    \* worker[w]: where a pass is, the cursor and the chunk it has read
  lock,      \* the pass whose token the lock holds
  faults, edits

vars == <<camp, notified, active, late, worker, lock, faults, edits>>

NoWork == [pc |-> "idle", cursor |-> 0, all |-> FALSE, ids |-> {}]
Gone == [st |-> "gone", all |-> FALSE, to |-> {}, cursor |-> 0, sent |-> 0,
         sentAt |-> FALSE]

Init ==
  /\ env \in Cases
  /\ \E st \in {"DRAFT", "SCHEDULED"}, all \in BOOLEAN, to \in SUBSET Users :
       /\ all \/ to # {}
       /\ all => to = {}
       /\ camp = [Gone EXCEPT !.st = st, !.all = all, !.to = to]
  /\ notified = {}
  /\ active = Users
  /\ late = {}
  /\ worker = [w \in Workers |-> NoWork]
  /\ lock = None
  /\ faults = 0
  /\ edits = 0

\* The active recipients of campaign c among the active users S.
Recipients(c, S) == {u \in S : c.all \/ u \in c.to}
Audience == Recipients(camp, active)

Fault(kind) == kind \in env /\ faults < MaxFaults /\ faults' = faults + 1
Edit(kind) == kind \in env /\ edits < MaxEdits /\ edits' = edits + 1

\* Campaign c and active users S come after the first claim: those who enter the
\* audience are late, and everyone is when a list becomes ALL, for a pass that has
\* read the old target type finds no recipients.
Latecomers(c, S) ==
  late' = IF ~camp.sentAt THEN late
          ELSE late \cup (IF c.all = camp.all THEN Recipients(c, S) \ Audience
                          ELSE Recipients(c, S))

-----------------------------------------------------------------------------
\* update: new recipients of a campaign that is not under way.
Update ==
  /\ Edit("edit")
  /\ camp.st \in {"DRAFT", "SCHEDULED"}
  /\ \E all \in BOOLEAN, to \in SUBSET active :
       /\ IF all THEN to = {} ELSE to # {}
       /\ camp' = [camp EXCEPT !.all = all, !.to = to]
       /\ Latecomers(camp', active)
  /\ UNCHANGED <<notified, active, worker, lock, faults>>

\* queue: a draft, or a campaign that has failed, which keeps its cursor.
Queue ==
  /\ camp.st \in {"DRAFT", "FAILED"}
  /\ camp' = [camp EXCEPT !.st = "SCHEDULED"]
  /\ UNCHANGED <<notified, active, late, worker, lock, faults, edits>>

Cancel ==
  /\ "edit" \in env
  /\ camp.st \in {"SCHEDULED", "PROCESSING"}
  /\ camp' = [camp EXCEPT !.st = "CANCELLED"]
  /\ UNCHANGED <<notified, active, late, worker, lock, faults, edits>>

\* remove: the recipients go with the campaign, the notifications stay.
Remove ==
  /\ "edit" \in env
  /\ camp.st \in {"DRAFT", "CANCELLED"}
  /\ camp' = Gone
  /\ UNCHANGED <<notified, active, late, worker, lock, faults, edits>>

Deactivate(u) ==
  /\ Edit("people")
  /\ u \in active
  /\ active' = active \ {u}
  /\ UNCHANGED <<camp, notified, late, worker, lock, faults>>

Activate(u) ==
  /\ Edit("people")
  /\ u \in Users \ active
  /\ active' = active \cup {u}
  /\ Latecomers(camp, active')
  /\ UNCHANGED <<camp, notified, worker, lock, faults>>

-----------------------------------------------------------------------------
\* A pass with the lock finds the campaign; one with nothing to do only takes
\* and gives back the lock.
Start(w) ==
  /\ worker[w] = NoWork
  /\ w = CHOOSE v \in Workers : worker[v] = NoWork
  /\ lock = None
  /\ camp.st \in {"SCHEDULED", "PROCESSING"}
  /\ lock' = w
  /\ worker' = [worker EXCEPT ![w].pc =
                  IF camp.st = "SCHEDULED" THEN "claim" ELSE "campaign"]
  /\ UNCHANGED <<camp, notified, active, late, faults, edits>>

\* Worker w goes on to pc.
To(w, pc) == worker' = [worker EXCEPT ![w] = [NoWork EXCEPT !.pc = pc]]

Claim(w) ==
  /\ worker[w].pc = "claim"
  /\ IF camp.st = "SCHEDULED"
     THEN /\ camp' = [camp EXCEPT !.st = "PROCESSING", !.sentAt = TRUE]
          /\ To(w, "campaign")
     ELSE UNCHANGED camp /\ To(w, "release")
  /\ UNCHANGED <<notified, active, late, lock, faults, edits>>

\* processCampaignChunk reads the campaign, its cursor and target type,
ReadCampaign(w) ==
  /\ worker[w].pc = "campaign"
  /\ IF camp.st = "PROCESSING"
     THEN worker' = [worker EXCEPT ![w] =
                       [NoWork EXCEPT !.pc = "ids", !.cursor = camp.cursor,
                                      !.all = camp.all]]
     ELSE To(w, "release")
  /\ UNCHANGED <<camp, notified, active, late, lock, faults, edits>>

\* The recipients after the cursor of the pass, by the target type it has read.
Rest(w) == {u \in Recipients([camp EXCEPT !.all = worker[w].all], active) :
              u > worker[w].cursor}

\* Mutant of ReadIds: the last full chunk is taken for the end.
ReadIds_ShortChunk(w) ==
  LET rest == Rest(w) IN
  /\ worker[w].pc = "ids"
  /\ IF Cardinality(rest) < ChunkSize THEN To(w, "complete")
     ELSE \E last \in rest :
            LET ids == {u \in rest : u <= last} IN
            /\ Cardinality(ids) = ChunkSize
            /\ worker' = [worker EXCEPT ![w] =
                            [NoWork EXCEPT !.pc = "chunk", !.cursor = last,
                                           !.ids = ids]]
  /\ UNCHANGED <<camp, notified, active, late, lock, faults, edits>>

\* then the next recipients after the cursor, the last one the new cursor;
ReadIds(w) ==
  LET rest == Rest(w) IN
  /\ worker[w].pc = "ids"
  /\ IF rest = {} THEN To(w, "complete")
     ELSE \E last \in rest :
            LET ids == {u \in rest : u <= last} IN
            /\ \/ Cardinality(ids) = ChunkSize
               \/ Cardinality(ids) < ChunkSize /\ ids = rest
            /\ worker' = [worker EXCEPT ![w] =
                            [NoWork EXCEPT !.pc = "chunk", !.cursor = last,
                                           !.ids = ids]]
  /\ UNCHANGED <<camp, notified, active, late, lock, faults, edits>>

\* when there are none, the campaign is complete, if it still is under way.
Complete(w) ==
  /\ worker[w].pc = "complete"
  /\ camp' = [camp EXCEPT !.st = IF @ = "PROCESSING" THEN "COMPLETED" ELSE @]
  /\ To(w, "release")
  /\ UNCHANGED <<notified, active, late, lock, faults, edits>>

\* Mutant of Chunk: every recipient of the chunk is counted.
Chunk_CountsAll(w) ==
  LET k == worker[w] IN
  /\ k.pc = "chunk"
  /\ IF camp.st = "PROCESSING"
     THEN /\ notified' = notified \cup k.ids
          /\ camp' = [camp EXCEPT !.sent = @ + Cardinality(k.ids),
                                  !.cursor = k.cursor]
          /\ To(w, "release")
     ELSE UNCHANGED <<notified, camp>> /\ To(w, "failed")
  /\ UNCHANGED <<active, late, lock, faults, edits>>

\* Mutant of Chunk: the status is not compared.
Chunk_NoCompare(w) ==
  LET k == worker[w] IN
  /\ k.pc = "chunk"
  /\ IF camp.st # "gone"
     THEN /\ notified' = notified \cup k.ids
          /\ camp' = [camp EXCEPT !.sent = @ + Cardinality(k.ids \ notified),
                                  !.cursor = k.cursor]
          /\ To(w, "release")
     ELSE UNCHANGED <<notified, camp>> /\ To(w, "failed")
  /\ UNCHANGED <<active, late, lock, faults, edits>>

\* The transaction of a chunk; a campaign that is not under way any more
\* rolls it back.  An old reading may move the cursor back.
Chunk(w) ==
  LET k == worker[w] IN
  /\ k.pc = "chunk"
  /\ IF camp.st = "PROCESSING"
     THEN /\ notified' = notified \cup k.ids
          /\ camp' = [camp EXCEPT !.sent = @ + Cardinality(k.ids \ notified),
                                  !.cursor = k.cursor]
          /\ To(w, "release")
     ELSE UNCHANGED <<notified, camp>> /\ To(w, "failed")
  /\ UNCHANGED <<active, late, lock, faults, edits>>

\* A call fails: the error is written to the campaign, or that fails as well.
CallFails(w) ==
  /\ worker[w].pc \in {"claim", "campaign", "ids", "complete", "chunk", "failed"}
  /\ Fault("fail")
  /\ To(w, IF worker[w].pc = "failed" THEN "release" ELSE "failed")
  /\ UNCHANGED <<camp, notified, active, late, lock, edits>>

MarkFailed(w) ==
  /\ worker[w].pc = "failed"
  /\ camp' = [camp EXCEPT !.st = IF @ = "PROCESSING" THEN "FAILED" ELSE @]
  /\ To(w, "release")
  /\ UNCHANGED <<notified, active, late, lock, faults, edits>>

\* compareAndDelete: only its own lock.
Release(w) ==
  /\ worker[w].pc = "release"
  /\ lock' = IF lock = w THEN None ELSE lock
  /\ worker' = [worker EXCEPT ![w] = NoWork]
  /\ UNCHANGED <<camp, notified, active, late, faults, edits>>

Crash(w) ==
  /\ Fault("crash")
  /\ worker[w] # NoWork
  /\ worker' = [worker EXCEPT ![w] = NoWork]
  /\ UNCHANGED <<camp, notified, active, late, lock, edits>>

\* Mutant of LockExpires: the lock has no TTL.
LockExpires_NoTtl == FALSE /\ UNCHANGED vars

\* The lock expires: its holder is dead, or slow.
LockExpires ==
  /\ lock # None
  /\ \/ worker[lock] = NoWork /\ UNCHANGED faults
     \/ worker[lock] # NoWork /\ Fault("slow")
  /\ lock' = None
  /\ UNCHANGED <<camp, notified, active, late, worker, edits>>

-----------------------------------------------------------------------------
Pass(w) ==
  \/ Start(w) \/ Claim(w) \/ ReadCampaign(w) \/ ReadIds(w) \/ Complete(w)
  \/ Chunk(w) \/ MarkFailed(w) \/ Release(w)

Admin == Update \/ Queue \/ Cancel \/ Remove

Step ==
  \/ \E w \in Workers : Pass(w) \/ CallFails(w) \/ Crash(w)
  \/ Admin \/ LockExpires
  \/ \E u \in Users : Deactivate(u) \/ Activate(u)

Next == Step /\ UNCHANGED env

Spec == Init /\ [][Next]_<<vars, env>>

\* The cron fires again and again, what it has begun goes on, locks expire.
Fairness == WF_vars(LockExpires) /\ WF_vars(\E w \in Workers : Start(w))
              /\ \A w \in Workers : WF_vars(Pass(w))
FairSpec == Spec /\ Fairness

-----------------------------------------------------------------------------
Statuses == {"DRAFT", "SCHEDULED", "PROCESSING", "COMPLETED", "CANCELLED",
             "FAILED", "gone"}

TypeOK ==
  /\ env \in Cases
  /\ camp \in [st : Statuses, all : BOOLEAN, to : SUBSET Users, cursor : Nat,
               sent : Nat, sentAt : BOOLEAN]
  /\ notified \subseteq Users
  /\ active \subseteq Users
  /\ late \subseteq Users
  /\ worker \in [Workers -> [pc : {"idle", "claim", "campaign", "ids", "complete",
                                   "chunk", "failed", "release"},
                             cursor : Nat, all : BOOLEAN, ids : SUBSET Users]]
  /\ lock \in Workers \cup {None}
  /\ faults \in Nat /\ edits \in Nat

\* sentCount is the number of people who have the notification, whichever
\* passes overlap, fail after their commit or run with an old cursor.
SentIsNotified ==
  /\ TypeOK
  /\ camp.st # "gone" => camp.sent = Cardinality(notified)

\* A campaign that says COMPLETED has reached every active recipient, except
\* by a change after its first claim: a campaign that had failed goes on behind
\* its cursor, where new recipients may have smaller ids, and so may new users.
CompletedMeansAll == camp.st = "COMPLETED" => Audience \ late \subseteq notified

\* Nobody is notified once the campaign is cancelled or complete, and it stays
\* so: not even by a pass that had read its chunk before.
EndsForGood ==
  [][camp.st \in {"CANCELLED", "COMPLETED"} =>
       \/ camp'.st = "gone"
       \/ camp'.st = camp.st /\ notified' = notified]_vars

\* A campaign that is due does not stay so: it ends, fails or is cancelled,
\* whatever dies in between.
QueuedEnds == []<>(camp.st \notin {"SCHEDULED", "PROCESSING"})
=============================================================================
