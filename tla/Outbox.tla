------------------------------- MODULE Outbox -------------------------------
(***************************************************************************)
(* The notification outbox of apps/api: NotificationDispatcher.dispatch    *)
(* writes a row in the transaction of the business change; every second a  *)
(* pass of NotificationOutboxRelay.relay reads the due rows and delivers   *)
(* them one after another, first to the in-app channel, then to the        *)
(* Telegram queue.  Nothing keeps a pass from starting while an earlier    *)
(* one, of this process or of another instance, is still at work: a pass   *)
(* claims a row by comparing `attempts` and incrementing it.               *)
(*                                                                         *)
(* A row's nextAttemptAt is kept as `due`, true once it has passed.  The   *)
(* order by nextAttemptAt and the batch size of 50 are left out: a pass    *)
(* takes all due rows, in any order.                                       *)
(***************************************************************************)
EXTENDS Naturals, FiniteSets

CONSTANTS
  Rows,         \* outbox rows
  Passes,       \* passes of relay() that may be at work at one time
  MaxAttempts,  \* maxAttempts of the relay
  MaxFaults,    \* bound: failures and crashes in one behaviour
  Cases         \* the sets of events to look at

\* fail: a channel fails; db: the database fails; crash: a process dies;
\* unlinked: the recipient has no Telegram chat; overlap: passes overlap.
Events == {"fail", "db", "crash", "unlinked", "overlap"}

ASSUME ConstantsAssumption ==
  /\ IsFiniteSet(Passes)
  /\ MaxAttempts \in Nat \ {0}
  /\ MaxFaults \in Nat
  /\ Cases \subseteq SUBSET Events

VARIABLES
  env,     \* the events that may happen in this behaviour; it never changes
  row,     \* row[r]: status, attempts, and whether nextAttemptAt has passed
  pass,    \* pass[p]: pc, rows still to do, row at hand with the attempts
           \*   its claim was made from, and the attempts re-read after it
  bell,    \* rows whose Notification exists (upsert by dedupKey)
  told,    \* rows the Telegram channel has resolved for
  copies,  \* copies[r]: messages of r the broker has taken
  waits,   \* waits[r]: back-offs of r that have elapsed (history)
  faults   \* failures and crashes so far

vars == <<row, pass, bell, told, copies, waits, faults>>
channels == <<bell, told, copies>>

NoRow == [id |-> "none", seen |-> 0]
Idle == [pc |-> "idle", todo |-> {}, at |-> NoRow, got |-> 0]

Init ==
  /\ env \in Cases
  /\ row = [r \in Rows |-> [status |-> "none", attempts |-> 0, due |-> FALSE]]
  /\ pass = [p \in Passes |-> Idle]
  /\ bell = {}
  /\ told = {}
  /\ copies = [r \in Rows |-> 0]
  /\ waits = [r \in Rows |-> 0]
  /\ faults = 0

-----------------------------------------------------------------------------
\* dispatch: the row commits together with the business change.
Dispatch(r) ==
  /\ row[r].status = "none"
  /\ row' = [row EXCEPT ![r] =
       [status |-> "PENDING", attempts |-> 0, due |-> TRUE]]
  /\ UNCHANGED <<pass, channels, waits, faults>>

\* nextAttemptAt passes.
BackoffElapses(r) ==
  /\ row[r].status = "PENDING"
  /\ ~row[r].due
  /\ row' = [row EXCEPT ![r].due = TRUE]
  /\ waits' = [waits EXCEPT ![r] = @ + 1]
  /\ UNCHANGED <<pass, channels, faults>>

\* relay: the rows that are due, each with its attempts as read now.
Due == {r \in Rows : row[r].status = "PENDING" /\ row[r].due}

Relay(p) ==
  /\ pass[p] = Idle
  /\ "overlap" \in env \/ \A q \in Passes : pass[q] = Idle
  /\ Due # {}
  /\ pass' = [pass EXCEPT ![p].pc = "claim",
       ![p].todo = {[id |-> r, seen |-> row[r].attempts] : r \in Due}]
  /\ UNCHANGED <<row, channels, waits, faults>>

\* What p is left with when it is through with one row: the next, or the end.
NextRow(todo) ==
  IF todo = {} THEN Idle ELSE [Idle EXCEPT !.pc = "claim", !.todo = todo]

Go(p, pc) == pass' = [pass EXCEPT ![p].pc = pc]

\* Mutant of Claimable: the claim only checks that the row is PENDING.
Claimable_NoCompare(t) == row[t.id].status = "PENDING"

\* The updateMany of process: a compare-and-swap on attempts.
Claimable(t) == row[t.id].status = "PENDING" /\ row[t.id].attempts = t.seen

\* One claim attempt of p; a claimed row has the given status.
ClaimAs(p, status) ==
  /\ pass[p].pc = "claim"
  /\ \E t \in pass[p].todo :
       \/ /\ Claimable(t)
          /\ row' = [row EXCEPT ![t.id].attempts = @ + 1, ![t.id].status = status]
          /\ pass' = [pass EXCEPT ![p].pc = "read", ![p].at = t,
                                  ![p].todo = @ \ {t}]
       \/ /\ ~Claimable(t)
          /\ pass' = [pass EXCEPT ![p] = NextRow(@.todo \ {t})]
          /\ UNCHANGED row
  /\ UNCHANGED <<channels, waits, faults>>
Claim_Delivered(p) == ClaimAs(p, "DELIVERED")

\* The claimed row stays PENDING.
Claim(p) == ClaimAs(p, "PENDING")

\* findUniqueOrThrow: the row as it is now, maybe claimed again meanwhile.
ReadRow(p) ==
  /\ pass[p].pc = "read"
  /\ pass' = [pass EXCEPT ![p].pc = "inApp",
                          ![p].got = row[pass[p].at.id].attempts]
  /\ UNCHANGED <<row, channels, waits, faults>>

\* A failure of the given kind, while the budget lasts.
Fault(kind) ==
  /\ kind \in env
  /\ faults < MaxFaults
  /\ faults' = faults + 1

-----------------------------------------------------------------------------
\* deliver: the in-app channel first; a repeated upsert changes nothing.
InApp(p) ==
  /\ pass[p].pc = "inApp"
  /\ bell' = bell \cup {pass[p].at.id}
  /\ Go(p, "push")
  /\ UNCHANGED <<row, told, copies, waits, faults>>

\* It may fail before the upsert or after it (cache, SSE).
InAppFails(p) ==
  /\ pass[p].pc = "inApp"
  /\ bell' \in {bell, bell \cup {pass[p].at.id}}
  /\ Fault("fail")
  /\ Go(p, "failed")
  /\ UNCHANGED <<row, told, copies, waits>>

\* The Telegram channel: nobody to send to,
PushSkipped(p) ==
  /\ pass[p].pc = "push"
  /\ "unlinked" \in env
  /\ told' = told \cup {pass[p].at.id}
  /\ Go(p, "delivered")
  /\ UNCHANGED <<row, bell, copies, waits, faults>>

\* or the broker confirms,
PushConfirmed(p) ==
  /\ pass[p].pc = "push"
  /\ copies' = [copies EXCEPT ![pass[p].at.id] = @ + 1]
  /\ told' = told \cup {pass[p].at.id}
  /\ Go(p, "delivered")
  /\ UNCHANGED <<row, bell, waits, faults>>

\* Mutant of PushFails: deliver swallows the error of a channel.
PushFails_Swallowed(p) ==
  /\ pass[p].pc = "push"
  /\ \E taken \in {0, 1} :
       copies' = [copies EXCEPT ![pass[p].at.id] = @ + taken]
  /\ Fault("fail")
  /\ Go(p, "delivered")
  /\ UNCHANGED <<row, bell, told, waits>>

\* or publishing fails: by the timeout the broker may have taken the message.
PushFails(p) ==
  /\ pass[p].pc = "push"
  /\ \E taken \in {0, 1} :
       copies' = [copies EXCEPT ![pass[p].at.id] = @ + taken]
  /\ Fault("fail")
  /\ Go(p, "failed")
  /\ UNCHANGED <<row, bell, told, waits>>

-----------------------------------------------------------------------------
\* process, success: an update by id alone.
MarkDelivered(p) ==
  /\ pass[p].pc = "delivered"
  /\ row' = [row EXCEPT ![pass[p].at.id].status = "DELIVERED"]
  /\ pass' = [pass EXCEPT ![p] = NextRow(@.todo)]
  /\ UNCHANGED <<channels, waits, faults>>

\* The update throws inside the try: the delivered row goes to the catch.
MarkDeliveredFails(p) ==
  /\ pass[p].pc = "delivered"
  /\ Fault("db")
  /\ Go(p, "failed")
  /\ UNCHANGED <<row, channels, waits>>

\* process, failure: an update by id alone; `attempts` here already counts
\* this claim.
RecordFailure(p) ==
  /\ pass[p].pc = "failed"
  /\ row' = [row EXCEPT
       ![pass[p].at.id].status =
          IF pass[p].got + 1 >= MaxAttempts THEN "FAILED" ELSE "PENDING",
       ![pass[p].at.id].due = FALSE]
  /\ pass' = [pass EXCEPT ![p] = NextRow(@.todo)]
  /\ UNCHANGED <<channels, waits, faults>>

\* The database fails outside the try, or in the catch: the pass is over.
PassFails(p) ==
  /\ pass[p].pc \in {"claim", "read", "failed"}
  /\ Fault("db")
  /\ pass' = [pass EXCEPT ![p] = Idle]
  /\ UNCHANGED <<row, channels, waits>>

\* The process of p dies.
Crash(p) ==
  /\ pass[p] # Idle
  /\ Fault("crash")
  /\ pass' = [pass EXCEPT ![p] = Idle]
  /\ UNCHANGED <<row, channels, waits>>

-----------------------------------------------------------------------------
PassStep(p) ==
  \/ Claim(p) \/ ReadRow(p) \/ InApp(p) \/ InAppFails(p)
  \/ PushSkipped(p) \/ PushConfirmed(p) \/ PushFails(p)
  \/ MarkDelivered(p) \/ MarkDeliveredFails(p) \/ RecordFailure(p)

Step ==
  \/ \E r \in Rows : Dispatch(r) \/ BackoffElapses(r)
  \/ \E p \in Passes : Relay(p) \/ PassStep(p) \/ PassFails(p) \/ Crash(p)

Next == Step /\ UNCHANGED env

Spec == Init /\ [][Next]_<<vars, env>>

\* The cron fires, a pass goes on, time passes; faults need not happen.
Fairness ==
  /\ \A r \in Rows : WF_vars(BackoffElapses(r))
  /\ \A p \in Passes : WF_vars(Relay(p)) /\ WF_vars(PassStep(p))

FairSpec == Spec /\ Fairness

-----------------------------------------------------------------------------
Statuses == {"none", "PENDING", "DELIVERED", "FAILED"}
Tasks == [id : Rows, seen : Nat]

TypeOK ==
  /\ env \in Cases
  /\ row \in [Rows -> [status : Statuses, attempts : Nat, due : BOOLEAN]]
  /\ pass \in [Passes ->
       [pc : {"idle", "claim", "read", "inApp", "push", "delivered", "failed"},
        todo : SUBSET Tasks, at : Tasks \cup {NoRow}, got : Nat]]
  /\ bell \subseteq Rows
  /\ told \subseteq Rows
  /\ copies \in [Rows -> Nat]
  /\ waits \in [Rows -> Nat]
  /\ faults \in 0..MaxFaults

Working(p) == pass[p].pc \in {"read", "inApp", "push", "delivered", "failed"}

\* Two passes at work on one row hold different attempts of it: the
\* compare-and-swap gives each value of `attempts` to one claim, however
\* many passes and instances there are (process).
ClaimsAreDistinct ==
  \A p, q \in Passes :
    p # q /\ Working(p) /\ Working(q) => pass[p].at # pass[q].at

\* A row that reads DELIVERED was put into the in-app list, and its message
\* was confirmed by the broker or had no recipient: no channel is skipped and
\* no unconfirmed message counts (deliver, publish; ADR-004).
DeliveredEverywhere ==
  \A r \in Rows : row[r].status = "DELIVERED" => r \in bell \cap told

\* Faults that end leave no row behind: every row is in the end DELIVERED or
\* FAILED for good, whatever pass died or failed with it (relay, process).
Settles ==
  \A r \in Rows : <>[](row[r].status \in {"none", "DELIVERED", "FAILED"})

\* While one pass runs at a time, a row that is DELIVERED or FAILED stays so
\* (process updates the status by id alone).
SettledIsFinal ==
  [][\A r \in Rows :
       "overlap" \notin env /\ row[r].status \in {"DELIVERED", "FAILED"} =>
         row'[r].status = row[r].status]_vars

\* While one pass runs at a time and nothing but the channels fails, a row is
\* given up only after its back-offs: one between any two attempts («Откат:
\* минута, две, четыре...» at baseBackoffMs).
BackoffBetween ==
  {"overlap", "crash", "db"} \cap env = {} =>
    \A r \in Rows : row[r].status = "FAILED" => waits[r] >= MaxAttempts - 2

\* The broker has taken at most one message for each claim of a row, however many
\* passes have claimed it (process).
CopiesAreClaimed == \A r \in Rows : copies[r] <= row[r].attempts

\* A row is claimed once for each value of attempts, delivered once for each claim
\* and given up only after its back-offs (process).
ClaimsOK == TypeOK /\ ClaimsAreDistinct /\ CopiesAreClaimed /\ BackoffBetween

\* Every row gets an outcome, and while one pass runs at a time keeps it.
RowsSettle == Settles /\ SettledIsFinal
=============================================================================
