----------------------------- MODULE Outbox_proofs -----------------------------
(***************************************************************************)
(* What Outbox promises, for any number of rows, passes and attempts, with *)
(* passes that overlap, channels and databases that fail and processes     *)
(* that die.  The compare-and-swap makes `attempts' of a row greater than  *)
(* what any claim of it was made from, so no two claims are the same; each *)
(* claim that has not pushed yet still has one unit of `attempts' to spend.*)
(***************************************************************************)
EXTENDS Outbox, FiniteSetTheorems, TLAPS

PassStates ==
  [pc : {"idle", "claim", "read", "inApp", "push", "delivered", "failed"},
   todo : SUBSET Tasks, at : Tasks \cup {NoRow}, got : Nat]
RowStates == [status : Statuses, attempts : Nat, due : BOOLEAN]

\* A pass at work has a row at hand,
HasRow == \A p \in Passes : Working(p) => pass[p].at \in Tasks

\* claimed from a value of attempts that has been left behind.
ClaimIsPast ==
  \A p \in Passes : Working(p) => pass[p].at.seen < row[pass[p].at.id].attempts

\* A row that does not exist yet has no attempts.
Fresh == \A r \in Rows : row[r].status = "none" => row[r].attempts = 0

\* The claims of r that may still push it.
Unspent(r) == {p \in Passes : /\ pass[p].pc \in {"read", "inApp", "push"}
                              /\ pass[p].at.id = r}
CopiesFit ==
  \A r \in Rows : copies[r] + Cardinality(Unspent(r)) <= row[r].attempts

\* What a pass has behind it when it comes to the push, and to the end.
ChannelsDone ==
  \A p \in Passes :
    /\ pass[p].pc = "push" => pass[p].at.id \in bell
    /\ pass[p].pc = "delivered" => pass[p].at.id \in bell \cap told

\* While passes do not overlap and nothing but the channels fails: one pass is at
\* work; what it has read is still so; each attempt of a row but the one under way
\* has had its back-off.
Alone == {"overlap", "crash", "db"} \cap env = {}

InHand(r) == \E p \in Passes : Working(p) /\ pass[p].at.id = r

OnePass == \A p, q \in Passes : pass[p] # Idle /\ pass[q] # Idle => p = q

ReadingsHold ==
  \A p \in Passes :
    /\ \A t \in pass[p].todo : /\ row[t.id].due /\ row[t.id].attempts = t.seen
                               /\ Working(p) => pass[p].at.id # t.id
    /\ pass[p].pc \in {"inApp", "push", "delivered", "failed"} =>
         pass[p].got = row[pass[p].at.id].attempts

Waited ==
  \A r \in Rows :
    /\ row[r].attempts <= waits[r] + 1
    /\ row[r].status = "PENDING" /\ row[r].due /\ ~InHand(r) =>
         row[r].attempts <= waits[r]
    /\ row[r].status = "FAILED" => waits[r] >= MaxAttempts - 2

BackoffIInv == Alone => OnePass /\ ReadingsHold /\ Waited

IInv == /\ TypeOK /\ HasRow /\ ClaimIsPast /\ ClaimsAreDistinct /\ Fresh /\ CopiesFit
        /\ BackoffIInv

-----------------------------------------------------------------------------
(* Types *)

\* Every state of a pass that a step makes has its type.
LEMMA GoType ==
  ASSUME TypeOK, NEW p \in Passes,
         NEW pc \in {"idle", "claim", "read", "inApp", "push", "delivered",
                     "failed"},
         Go(p, pc)
  PROVE  pass' \in [Passes -> PassStates]
<1>1. pass \in [Passes -> PassStates] /\ pass[p] \in PassStates
  BY DEF TypeOK, PassStates
<1>2. [pass[p] EXCEPT !.pc = pc] \in PassStates
  BY <1>1 DEF PassStates
<1>3. pass' = [pass EXCEPT ![p] = [pass[p] EXCEPT !.pc = pc]]
  BY <1>1 DEF Go
<1>4. QED
  BY <1>1, <1>2, <1>3

\* So has the state of a pass that is through with a row.
LEMMA NextRowType ==
  ASSUME NEW todo \in SUBSET Tasks
  PROVE  NextRow(todo) \in PassStates /\ Idle \in PassStates
<1>1. Idle \in PassStates
  BY DEF Idle, PassStates, NoRow
<1>2. [Idle EXCEPT !.pc = "claim", !.todo = todo] \in PassStates
  BY <1>1 DEF PassStates
<1>3. QED
  BY <1>1, <1>2 DEF NextRow

\* The initial states are well typed.
LEMMA TypeInit == Init => TypeOK
<1> SUFFICES ASSUME Init PROVE TypeOK
  OBVIOUS
<1>1. pass \in [Passes -> PassStates]
  BY NextRowType DEF Init
<1>2. row \in [Rows -> RowStates]
  BY DEF Init, RowStates, Statuses
<1>3. faults \in 0..MaxFaults
  BY ConstantsAssumption DEF Init
<1>4. QED
  BY <1>1, <1>2, <1>3 DEF Init, TypeOK, PassStates, RowStates

\* A claim takes the row from the value it has read.
Takes(p, t) ==
  /\ Claimable(t)
  /\ \E x \in RowStates, s \in PassStates :
       /\ row' = [row EXCEPT ![t.id] = x] /\ pass' = [pass EXCEPT ![p] = s]
       /\ x.status = "PENDING" /\ x.attempts = row[t.id].attempts + 1
       /\ x.due = row[t.id].due
       /\ s.pc = "read" /\ s.at = t /\ s.todo = pass[p].todo \ {t}

\* A row that somebody else has claimed since is passed by.
PassesBy(p, t) ==
  /\ row' = row
  /\ NextRow(pass[p].todo \ {t}) \in PassStates
  /\ pass' = [pass EXCEPT ![p] = NextRow(pass[p].todo \ {t})]

\* A claim picks a row of its list, and takes it or passes it by.
LEMMA ClaimCases ==
  ASSUME TypeOK, NEW p \in Passes, Claim(p)
  PROVE  /\ pass[p].pc = "claim" /\ UNCHANGED <<channels, waits, faults>>
         /\ \E t \in pass[p].todo : /\ t \in Tasks /\ t.id \in Rows
                                    /\ Takes(p, t) \/ PassesBy(p, t)
<1>0. /\ pass \in [Passes -> PassStates] /\ pass[p] \in PassStates
      /\ row \in [Rows -> RowStates]
  BY DEF TypeOK, PassStates, RowStates
<1>1. PICK t \in pass[p].todo :
        \/ /\ Claimable(t)
           /\ row' = [row EXCEPT ![t.id].attempts = @ + 1, ![t.id].status = "PENDING"]
           /\ pass' = [pass EXCEPT ![p].pc = "read", ![p].at = t, ![p].todo = @ \ {t}]
        \/ /\ ~Claimable(t)
           /\ pass' = [pass EXCEPT ![p] = NextRow(@.todo \ {t})]
           /\ UNCHANGED row
  BY DEF Claim, ClaimAs
<1>2. t \in Tasks /\ t.id \in Rows /\ row[t.id] \in RowStates
  BY <1>0 DEF PassStates, Tasks
<1>3. CASE /\ Claimable(t)
           /\ row' = [row EXCEPT ![t.id].attempts = @ + 1, ![t.id].status = "PENDING"]
           /\ pass' = [pass EXCEPT ![p].pc = "read", ![p].at = t, ![p].todo = @ \ {t}]
  <2> DEFINE x == [row[t.id] EXCEPT !.attempts = @ + 1, !.status = "PENDING"]
             s == [pass[p] EXCEPT !.pc = "read", !.at = t, !.todo = @ \ {t}]
  <2>1. row' = [row EXCEPT ![t.id] = x] /\ pass' = [pass EXCEPT ![p] = s]
    BY <1>0, <1>2, <1>3
  <2>2. /\ x \in RowStates /\ x.status = "PENDING"
        /\ x.attempts = row[t.id].attempts + 1 /\ x.due = row[t.id].due
    <3>1. row[t.id].attempts + 1 \in Nat /\ "PENDING" \in Statuses
      BY <1>2 DEF RowStates, Statuses
    <3>2. x = [row[t.id] EXCEPT !.attempts = row[t.id].attempts + 1,
                                !.status = "PENDING"]
      BY <1>2 DEF RowStates
    <3> HIDE DEF x
    <3>3. QED
      BY <1>2, <3>1, <3>2 DEF RowStates
  <2>3. /\ s \in PassStates /\ s.pc = "read" /\ s.at = t
        /\ s.todo = pass[p].todo \ {t}
    BY <1>0, <1>2 DEF PassStates
  <2> HIDE DEF x, s
  <2>4. Takes(p, t)
    BY <1>3, <2>1, <2>2, <2>3 DEF Takes
  <2>5. QED
    BY <1>2, <1>3, <2>4 DEF Claim, ClaimAs
<1>4. CASE /\ ~Claimable(t)
           /\ pass' = [pass EXCEPT ![p] = NextRow(@.todo \ {t})]
           /\ UNCHANGED row
  <2>1. pass[p].todo \ {t} \in SUBSET Tasks
    BY <1>0 DEF PassStates
  <2>2. PassesBy(p, t)
    BY <1>0, <1>4, <2>1, NextRowType DEF PassesBy
  <2>3. QED
    BY <1>2, <2>2 DEF Claim, ClaimAs
<1>5. QED
  BY <1>1, <1>3, <1>4

\* Every step keeps the types, and a pass at work a row at hand.
LEMMA TypeStep ==
  TypeOK /\ HasRow /\ [Next]_<<vars, env>> => TypeOK' /\ HasRow'
<1> SUFFICES ASSUME TypeOK, HasRow, [Next]_<<vars, env>> PROVE TypeOK' /\ HasRow'
  OBVIOUS
<1>0. /\ pass \in [Passes -> PassStates] /\ row \in [Rows -> RowStates]
      /\ bell \subseteq Rows /\ told \subseteq Rows
      /\ copies \in [Rows -> Nat] /\ waits \in [Rows -> Nat]
      /\ faults \in 0..MaxFaults
  BY DEF TypeOK, PassStates, RowStates
<1> DEFINE Typed == /\ pass' \in [Passes -> PassStates]
                    /\ row' \in [Rows -> RowStates]
                    /\ bell' \subseteq Rows /\ told' \subseteq Rows
                    /\ copies' \in [Rows -> Nat] /\ waits' \in [Rows -> Nat]
                    /\ faults' \in 0..MaxFaults
           AtWork(s) == s.pc \in {"read", "inApp", "push", "delivered", "failed"}
           \* Pass p alone changes, into a state that keeps its row if at work.
           Moves(p) == \E s \in PassStates :
                         /\ pass' = [pass EXCEPT ![p] = s]
                         /\ AtWork(s) => s.at \in Tasks
<1>1. Typed => TypeOK'
  <2>1. env' = env
    BY DEF Next, vars
  <2>2. QED
    BY <2>1 DEF TypeOK, PassStates, RowStates
<1>a. ASSUME NEW p \in Passes, Moves(p)
      PROVE  pass' \in [Passes -> PassStates] /\ HasRow'
  BY <1>0, <1>a DEF HasRow, Working
<1>b. ASSUME NEW p \in Passes, Working(p)
      PROVE  pass[p].at \in Tasks /\ pass[p].at.id \in Rows
  BY <1>b DEF HasRow, Tasks
<1>c. ASSUME NEW p \in Passes, NEW pc \in {"push", "delivered", "failed"},
             Working(p), Go(p, pc)
      PROVE  Moves(p)
  <2>1. [pass[p] EXCEPT !.pc = pc] \in PassStates
    BY <1>0 DEF PassStates
  <2>2. [pass[p] EXCEPT !.pc = pc].at = pass[p].at
    BY <1>0 DEF PassStates
  <2>3. pass' = [pass EXCEPT ![p] = [pass[p] EXCEPT !.pc = pc]]
    BY <1>0, <1>c DEF Go
  <2>4. QED
    BY <1>b, <1>c, <2>1, <2>2, <2>3
<1>d. ASSUME NEW p \in Passes, NEW todo \in SUBSET Tasks,
             pass' = [pass EXCEPT ![p] = NextRow(todo)] \/ pass' = [pass EXCEPT ![p] = Idle]
      PROVE  Moves(p)
  <2>1. NextRow(todo) \in PassStates /\ Idle \in PassStates
    BY NextRowType
  <2>2. ~AtWork(NextRow(todo)) /\ ~AtWork(Idle)
    BY DEF NextRow, Idle
  <2>3. QED
    BY <1>d, <2>1, <2>2
<1>2. ASSUME NEW kind, Fault(kind) PROVE faults' \in 0..MaxFaults
  BY <1>0, <1>2, ConstantsAssumption DEF Fault
<1>3. ASSUME NEW r \in Rows, Dispatch(r) \/ BackoffElapses(r) PROVE Typed
  <2>1. row[r] \in RowStates
    BY <1>0
  <2>2. [row[r] EXCEPT !.due = TRUE] \in RowStates
    BY <2>1 DEF RowStates
  <2>3. [status |-> "PENDING", attempts |-> 0, due |-> TRUE] \in RowStates
    BY DEF RowStates, Statuses
  <2>4. CASE Dispatch(r)
    BY <1>0, <2>3, <2>4 DEF Dispatch, channels
  <2>5. CASE BackoffElapses(r)
    <3>1. row' = [row EXCEPT ![r] = [row[r] EXCEPT !.due = TRUE]]
      BY <1>0, <2>5 DEF BackoffElapses
    <3>2. waits' \in [Rows -> Nat]
      BY <1>0, <2>5 DEF BackoffElapses
    <3>3. row' \in [Rows -> RowStates]
      BY <1>0, <2>2, <3>1
    <3>4. QED
      BY <1>0, <2>5, <3>2, <3>3 DEF BackoffElapses, channels
  <2>6. QED
    BY <1>3, <2>4, <2>5
<1>4. ASSUME NEW p \in Passes, Relay(p) PROVE Typed /\ HasRow'
  <2> DEFINE due == {[id |-> r, seen |-> row[r].attempts] : r \in Due}
  <2>1. due \subseteq Tasks
    BY <1>0 DEF Due, Tasks, RowStates
  <2>2. /\ [pass[p] EXCEPT !.pc = "claim", !.todo = due] \in PassStates
        /\ [pass[p] EXCEPT !.pc = "claim", !.todo = due].pc = "claim"
    BY <1>0, <2>1 DEF PassStates
  <2>3. pass' = [pass EXCEPT ![p] = [pass[p] EXCEPT !.pc = "claim", !.todo = due]]
    BY <1>0, <1>4 DEF Relay
  <2> HIDE DEF due
  <2>4. Moves(p)
    BY <2>2, <2>3
  <2>5. pass' \in [Passes -> PassStates] /\ HasRow'
    BY <1>a, <2>4
  <2>6. QED
    BY <1>0, <1>4, <2>5 DEF Relay, channels
<1>5. ASSUME NEW p \in Passes, Claim(p) PROVE Typed /\ HasRow'
  <2>1. PICK t \in pass[p].todo : /\ t \in Tasks /\ t.id \in Rows
                                  /\ Takes(p, t) \/ PassesBy(p, t)
    BY <1>5, ClaimCases
  <2>2. CASE Takes(p, t)
    <3>1. PICK x \in RowStates, z \in PassStates :
            /\ row' = [row EXCEPT ![t.id] = x] /\ pass' = [pass EXCEPT ![p] = z]
            /\ z.at = t
      BY <2>2 DEF Takes
    <3>2. Moves(p)
      BY <2>1, <3>1
    <3>3. row' \in [Rows -> RowStates]
      BY <1>0, <2>1, <3>1
    <3>4. QED
      BY <1>0, <1>5, <1>a, <3>2, <3>3, ClaimCases DEF channels
  <2>3. CASE PassesBy(p, t)
    <3>1. pass[p].todo \ {t} \in SUBSET Tasks
      BY <1>0 DEF PassStates
    <3>2. Moves(p) /\ row' = row
      BY <1>d, <2>3, <3>1 DEF PassesBy
    <3>3. QED
      BY <1>0, <1>5, <1>a, <3>2, ClaimCases DEF channels
  <2>4. QED
    BY <2>1, <2>2, <2>3
<1>6. ASSUME NEW p \in Passes, ReadRow(p) PROVE Typed /\ HasRow'
  <2> DEFINE s == [pass[p] EXCEPT !.pc = "inApp",
                                  !.got = row[pass[p].at.id].attempts]
  <2>1. Working(p) /\ pass[p].at \in Tasks /\ pass[p].at.id \in Rows
    BY <1>6, <1>b DEF ReadRow, Working
  <2>2. s \in PassStates /\ s.at = pass[p].at
    BY <1>0, <2>1 DEF PassStates, RowStates
  <2>3. pass' = [pass EXCEPT ![p] = s]
    BY <1>0, <1>6 DEF ReadRow
  <2> HIDE DEF s
  <2>4. Moves(p)
    BY <2>1, <2>2, <2>3
  <2>5. QED
    BY <1>0, <1>6, <1>a, <2>4 DEF ReadRow, channels
<1>7. ASSUME NEW p \in Passes,
             \/ InApp(p) \/ InAppFails(p) \/ PushSkipped(p)
             \/ PushConfirmed(p) \/ PushFails(p) \/ MarkDeliveredFails(p)
      PROVE  Typed /\ HasRow'
  <2>1. Working(p)
    BY <1>7 DEF InApp, InAppFails, PushSkipped, PushConfirmed, PushFails,
                MarkDeliveredFails, Working
  <2>2. pass[p].at.id \in Rows
    BY <1>b, <2>1
  <2>3. Moves(p)
    BY <1>7, <1>c, <2>1 DEF InApp, InAppFails, PushSkipped, PushConfirmed,
                            PushFails, MarkDeliveredFails
  <2>4. pass' \in [Passes -> PassStates] /\ HasRow'
    BY <1>a, <2>3
  <2>5. row' = row /\ waits' = waits
    BY <1>7 DEF InApp, InAppFails, PushSkipped, PushConfirmed, PushFails,
                MarkDeliveredFails, channels
  <2>6. bell' \subseteq Rows /\ told' \subseteq Rows
    BY <1>0, <1>7, <2>2 DEF InApp, InAppFails, PushSkipped, PushConfirmed,
                            PushFails, MarkDeliveredFails, channels
  <2>7. copies' \in [Rows -> Nat]
    BY <1>0, <1>7, <2>2 DEF InApp, InAppFails, PushSkipped, PushConfirmed,
                            PushFails, MarkDeliveredFails, channels
  <2>8. faults' \in 0..MaxFaults
    BY <1>0, <1>2, <1>7 DEF InApp, InAppFails, PushSkipped, PushConfirmed,
                            PushFails, MarkDeliveredFails, channels
  <2>9. QED
    BY <1>0, <2>4, <2>5, <2>6, <2>7, <2>8
<1>8. ASSUME NEW p \in Passes, MarkDelivered(p) \/ RecordFailure(p)
      PROVE  Typed /\ HasRow'
  <2>1. pass[p].todo \in SUBSET Tasks
    BY <1>0 DEF PassStates
  <2>2. Moves(p)
    BY <1>0, <1>8, <1>d, <2>1 DEF MarkDelivered, RecordFailure
  <2>3. row' \in [Rows -> RowStates]
    <3>1. pass[p].at.id \in Rows
      BY <1>8, <1>b DEF MarkDelivered, RecordFailure, Working
    <3>2. row[pass[p].at.id] \in RowStates
      BY <1>0, <3>1
    <3>3. CASE MarkDelivered(p)
      BY <1>0, <3>1, <3>2, <3>3 DEF MarkDelivered, RowStates, Statuses
    <3>4. CASE RecordFailure(p)
      BY <1>0, <3>1, <3>2, <3>4 DEF RecordFailure, RowStates, Statuses
    <3>5. QED
      BY <1>8, <3>3, <3>4
  <2>4. QED
    BY <1>0, <1>8, <1>a, <2>2, <2>3 DEF MarkDelivered, RecordFailure, channels
<1>9. ASSUME NEW p \in Passes, PassFails(p) \/ Crash(p) PROVE Typed /\ HasRow'
  <2>1. pass[p].todo \in SUBSET Tasks
    BY <1>0 DEF PassStates
  <2>2. Moves(p)
    BY <1>9, <1>d, <2>1 DEF PassFails, Crash
  <2>3. faults' \in 0..MaxFaults
    BY <1>9, <1>2 DEF PassFails, Crash
  <2>4. QED
    BY <1>0, <1>9, <1>a, <2>2, <2>3 DEF PassFails, Crash, channels
<1>10. CASE UNCHANGED <<vars, env>>
  <2>1. Typed
    BY <1>0, <1>10 DEF vars
  <2>2. HasRow'
    BY <1>10 DEF vars, HasRow, Working
  <2>3. QED
    BY <1>1, <2>1, <2>2
<1>11. ASSUME NEW r \in Rows, Dispatch(r) \/ BackoffElapses(r) PROVE HasRow'
  BY <1>11 DEF Dispatch, BackoffElapses, HasRow, Working
<1>12. QED
  BY <1>1, <1>3, <1>4, <1>5, <1>6, <1>7, <1>8, <1>9, <1>10, <1>11
     DEF Next, Step, PassStep

\* The variables keep their types.
THEOREM TypeCorrect == Spec => [](TypeOK /\ HasRow)
<1>1. Init => TypeOK /\ HasRow
  <2>1. Init => HasRow
    BY DEF Init, Idle, HasRow, Working
  <2>2. QED
    BY <2>1, TypeInit
<1>2. QED
  BY <1>1, TypeStep, PTL DEF Spec

-----------------------------------------------------------------------------
(* What a step of a pass does *)

Acts(p) == Relay(p) \/ PassStep(p) \/ PassFails(p) \/ Crash(p)

\* It leaves the other passes alone, and no notification is taken back.
LEMMA ActsFrame ==
  ASSUME TypeOK, NEW p \in Passes, Acts(p)
  PROVE  /\ \A q \in Passes : q # p => pass'[q] = pass[q]
         /\ bell \subseteq bell' /\ told \subseteq told'
<1>0. pass \in [Passes -> PassStates]
  BY DEF TypeOK, PassStates
<1>1. CASE Claim(p)
  <2>1. PICK t \in pass[p].todo : Takes(p, t) \/ PassesBy(p, t)
    BY <1>1, ClaimCases
  <2>2. \A q \in Passes : q # p => pass'[q] = pass[q]
    BY <1>0, <2>1 DEF Takes, PassesBy
  <2>3. QED
    BY <1>1, <2>2, ClaimCases DEF channels
<1>2. CASE Relay(p) \/ ReadRow(p) \/ PassFails(p) \/ Crash(p)
  BY <1>0, <1>2 DEF Relay, ReadRow, PassFails, Crash, channels
<1>3. CASE InApp(p) \/ InAppFails(p) \/ PushSkipped(p) \/ PushConfirmed(p)
             \/ PushFails(p)
  BY <1>0, <1>3 DEF InApp, InAppFails, PushSkipped, PushConfirmed, PushFails, Go
<1>4. CASE MarkDelivered(p) \/ MarkDeliveredFails(p) \/ RecordFailure(p)
  BY <1>0, <1>4 DEF MarkDelivered, MarkDeliveredFails, RecordFailure, Go, channels
<1>5. QED
  BY <1>1, <1>2, <1>3, <1>4 DEF Acts, PassStep

\* A step that is no claim ends the work of its pass, or takes it one place on
\* with the same row.
LEMMA ActsNext ==
  ASSUME TypeOK, NEW p \in Passes, Acts(p), ~Claim(p)
  PROVE  \/ pass'[p].pc \in {"idle", "claim"}
         \/ /\ Working(p) /\ pass'[p].at = pass[p].at
            /\ pass'[p].todo = pass[p].todo
            /\ \/ /\ ReadRow(p) /\ pass'[p].pc = "inApp"
                  /\ pass'[p].got = row[pass[p].at.id].attempts
               \/ /\ InApp(p) /\ pass'[p].pc = "push" /\ pass'[p].got = pass[p].got
               \/ /\ PushSkipped(p) \/ PushConfirmed(p)
                  /\ pass'[p].pc = "delivered" /\ pass'[p].got = pass[p].got
               \/ /\ pass[p].pc \in {"inApp", "push", "delivered"}
                  /\ pass'[p].pc = "failed" /\ pass'[p].got = pass[p].got
<1>0. pass \in [Passes -> PassStates] /\ pass[p] \in PassStates
  BY DEF TypeOK, PassStates
<1>1. CASE Relay(p)
  BY <1>0, <1>1 DEF Relay, PassStates
<1>2. CASE PassFails(p) \/ Crash(p)
  BY <1>0, <1>2 DEF PassFails, Crash, Idle
<1>3. CASE MarkDelivered(p) \/ RecordFailure(p)
  <2>1. pass'[p] = NextRow(pass[p].todo)
    BY <1>0, <1>3 DEF MarkDelivered, RecordFailure
  <2>2. QED
    BY <2>1 DEF NextRow, Idle
<1>4. CASE ReadRow(p)
  BY <1>0, <1>4 DEF ReadRow, Working, PassStates
<1>5. CASE InApp(p)
  BY <1>0, <1>5 DEF InApp, Go, Working, PassStates
<1>6. CASE PushSkipped(p) \/ PushConfirmed(p)
  BY <1>0, <1>6 DEF PushSkipped, PushConfirmed, Go, Working, PassStates
<1>7. CASE InAppFails(p) \/ PushFails(p) \/ MarkDeliveredFails(p)
  BY <1>0, <1>7 DEF InAppFails, PushFails, MarkDeliveredFails, Go, Working,
                    PassStates
<1>8. QED
  BY <1>1, <1>2, <1>3, <1>4, <1>5, <1>6, <1>7 DEF Acts, PassStep

\* What happens to the rows: a claim adds one to attempts, the end of a row
\* writes its status, and nothing else touches either.
LEMMA ActsRow ==
  ASSUME TypeOK, HasRow, NEW p \in Passes, Acts(p), ~Claim(p), NEW r \in Rows
  PROVE  /\ row'[r].attempts = row[r].attempts
         /\ \/ row'[r] = row[r]
            \/ /\ MarkDelivered(p) /\ r = pass[p].at.id
               /\ row'[r].status = "DELIVERED" /\ row'[r].due = row[r].due
            \/ /\ RecordFailure(p) /\ r = pass[p].at.id /\ ~row'[r].due
               /\ row'[r].status \in {"FAILED", "PENDING"}
               /\ row'[r].status = "FAILED" => pass[p].got + 1 >= MaxAttempts
<1>0. row \in [Rows -> RowStates] /\ row[r] \in RowStates
  BY DEF TypeOK, RowStates
<1>1. CASE MarkDelivered(p)
  <2>1. pass[p].at.id \in Rows
    BY <1>1 DEF MarkDelivered, HasRow, Working, Tasks
  <2>2. QED
    BY <1>0, <1>1, <2>1 DEF MarkDelivered, RowStates
<1>2. CASE RecordFailure(p)
  <2>1. pass[p].at.id \in Rows
    BY <1>2 DEF RecordFailure, HasRow, Working, Tasks
  <2>2. QED
    BY <1>0, <1>2, <2>1 DEF RecordFailure, RowStates
<1>3. CASE ~MarkDelivered(p) /\ ~RecordFailure(p)
  <2>1. row' = row
    BY <1>3 DEF Acts, PassStep, Relay, PassFails, Crash, ReadRow, InApp,
         InAppFails, PushSkipped, PushConfirmed, PushFails, MarkDeliveredFails
  <2>2. QED
    BY <2>1
<1>4. QED
  BY <1>1, <1>2, <1>3

\* A claim changes one row, and only its attempts.
LEMMA ClaimRow ==
  ASSUME TypeOK, NEW p \in Passes, NEW t \in Tasks, Takes(p, t)
  PROVE  /\ pass'[p].pc = "read" /\ pass'[p].at = t
         /\ pass'[p].todo = pass[p].todo \ {t}
         /\ row[t.id].status = "PENDING" /\ t.seen = row[t.id].attempts
         /\ row'[t.id].status = "PENDING" /\ row'[t.id].due = row[t.id].due
         /\ row'[t.id].attempts = row[t.id].attempts + 1
         /\ \A r \in Rows : r # t.id => row'[r] = row[r]
<1>0. pass \in [Passes -> PassStates] /\ row \in [Rows -> RowStates] /\ t.id \in Rows
  BY DEF TypeOK, PassStates, RowStates, Tasks
<1>1. PICK x \in RowStates, z \in PassStates :
        /\ row' = [row EXCEPT ![t.id] = x] /\ pass' = [pass EXCEPT ![p] = z]
        /\ x.status = "PENDING" /\ x.attempts = row[t.id].attempts + 1
        /\ x.due = row[t.id].due
        /\ z.pc = "read" /\ z.at = t /\ z.todo = pass[p].todo \ {t}
  BY DEF Takes
<1>2. QED
  BY <1>0, <1>1 DEF Takes, Claimable

\* A pass that goes by leaves the rows and has no row at hand.
LEMMA PassesByRow ==
  ASSUME TypeOK, NEW p \in Passes, NEW t, PassesBy(p, t)
  PROVE  /\ row' = row /\ pass'[p].pc \in {"idle", "claim"}
         /\ pass'[p].todo \subseteq pass[p].todo
         /\ ~Working(p)'
<1>0. pass \in [Passes -> PassStates]
  BY DEF TypeOK, PassStates
<1>1. pass'[p] = NextRow(pass[p].todo \ {t}) /\ row' = row
  BY <1>0 DEF PassesBy
<1>2. QED
  BY <1>1 DEF NextRow, Idle, Working

-----------------------------------------------------------------------------
(* The channels *)

\* ChannelsDone and DeliveredEverywhere are inductive together.
LEMMA DeliveredStep ==
  ASSUME TypeOK, HasRow, ChannelsDone, DeliveredEverywhere, [Next]_<<vars, env>>
  PROVE  ChannelsDone' /\ DeliveredEverywhere'
<1>1. CASE UNCHANGED <<vars, env>>
  BY <1>1 DEF vars, ChannelsDone, DeliveredEverywhere
<1>2. ASSUME NEW r \in Rows, Dispatch(r) \/ BackoffElapses(r)
      PROVE  ChannelsDone' /\ DeliveredEverywhere'
  BY <1>2 DEF Dispatch, BackoffElapses, channels, ChannelsDone,
              DeliveredEverywhere, TypeOK
<1>3. ASSUME NEW p \in Passes, Acts(p)
      PROVE  ChannelsDone' /\ DeliveredEverywhere'
  <2>1. /\ \A q \in Passes : q # p => pass'[q] = pass[q]
        /\ bell \subseteq bell' /\ told \subseteq told'
    BY <1>3, ActsFrame
  <2>2. CASE Claim(p)
    <3>1. PICK t \in pass[p].todo : /\ t \in Tasks /\ t.id \in Rows
                                    /\ Takes(p, t) \/ PassesBy(p, t)
      BY <2>2, ClaimCases
    <3>2. pass'[p].pc \notin {"push", "delivered"}
      BY <3>1, ClaimRow, PassesByRow
    <3>3. \A r \in Rows : row'[r].status = "DELIVERED" => row[r].status = "DELIVERED"
      BY <3>1, ClaimRow, PassesByRow
    <3>4. QED
      BY <2>1, <3>2, <3>3 DEF ChannelsDone, DeliveredEverywhere
  <2>3. CASE ~Claim(p)
    <3> DEFINE Done(q) == /\ pass'[q].pc = "push" => pass'[q].at.id \in bell'
                          /\ pass'[q].pc = "delivered" =>
                               pass'[q].at.id \in bell' \cap told'
    <3>0. \A q \in Passes : q # p => Done(q)
      <4> SUFFICES ASSUME NEW q \in Passes, q # p PROVE Done(q)
        OBVIOUS
      <4>1. pass'[q] = pass[q]
        BY <2>1
      <4>2. QED
        BY <2>1, <4>1 DEF ChannelsDone
    <3>1. ASSUME pass'[p].pc \in {"idle", "claim", "inApp", "failed"}
          PROVE  Done(p)
      BY <3>1
    <3>2. ASSUME InApp(p) /\ pass'[p].pc = "push" /\ pass'[p].at = pass[p].at
          PROVE  Done(p)
      <4>1. pass[p].at.id \in bell'
        BY <3>2 DEF InApp
      <4>2. QED
        BY <3>2, <4>1
    <3>3. ASSUME PushSkipped(p) \/ PushConfirmed(p),
                 pass'[p].pc = "delivered" /\ pass'[p].at = pass[p].at
          PROVE  Done(p)
      <4>1. pass[p].pc = "push" /\ pass[p].at.id \in told'
        BY <3>3 DEF PushSkipped, PushConfirmed
      <4>2. QED
        BY <2>1, <3>3, <4>1 DEF ChannelsDone
    <3>4. ChannelsDone'
      <4>1. Done(p)
        BY <1>3, <2>3, <3>1, <3>2, <3>3, ActsNext
      <4>2. QED
        BY <3>0, <4>1 DEF ChannelsDone
    <3>5. ASSUME NEW r \in Rows, row'[r].status = "DELIVERED"
          PROVE  r \in bell' \cap told'
      <4>1. CASE row[r].status = "DELIVERED"
        BY <2>1, <4>1 DEF DeliveredEverywhere
      <4>2. CASE MarkDelivered(p) /\ r = pass[p].at.id
        BY <2>1, <4>2 DEF MarkDelivered, ChannelsDone
      <4>3. QED
        <5>1. row'[r] = row[r] \/ (MarkDelivered(p) /\ r = pass[p].at.id)
          <6>1. \/ row'[r] = row[r]
                \/ MarkDelivered(p) /\ r = pass[p].at.id
                \/ row'[r].status \in {"FAILED", "PENDING"}
            BY <1>3, <2>3, ActsRow
          <6>2. QED
            BY <3>5, <6>1
        <5>2. QED
          BY <3>5, <4>1, <4>2, <5>1
    <3>6. QED
      BY <3>4, <3>5 DEF DeliveredEverywhere
  <2>4. QED
    BY <2>2, <2>3
<1>4. QED
  BY <1>1, <1>2, <1>3 DEF Next, Step, Acts

\* DELIVERED is never false, however the passes overlap, fail and die.
THEOREM DeliveredIsTrue == Spec => []DeliveredEverywhere
<1>1. Init => ChannelsDone /\ DeliveredEverywhere
  BY DEF Init, Idle, ChannelsDone, DeliveredEverywhere
<1>2. /\ TypeOK /\ HasRow /\ ChannelsDone /\ DeliveredEverywhere
      /\ [Next]_<<vars, env>>
      => ChannelsDone' /\ DeliveredEverywhere'
  BY DeliveredStep
<1>3. QED
  BY <1>1, <1>2, TypeCorrect, PTL DEF Spec

-----------------------------------------------------------------------------
(* The claims *)

\* ClaimIsPast, ClaimsAreDistinct and Fresh are inductive together.
LEMMA ClaimsStep ==
  ASSUME TypeOK, HasRow, ClaimIsPast, ClaimsAreDistinct, Fresh,
         [Next]_<<vars, env>>
  PROVE  ClaimIsPast' /\ ClaimsAreDistinct' /\ Fresh'
<1>0. /\ pass \in [Passes -> PassStates] /\ row \in [Rows -> RowStates]
      /\ \A q \in Passes : Working(q) =>
           /\ pass[q].at.id \in Rows /\ pass[q].at.seen \in Nat
           /\ pass[q].at.seen < row[pass[q].at.id].attempts
  BY DEF TypeOK, PassStates, RowStates, HasRow, Tasks, ClaimIsPast
<1>1. CASE UNCHANGED <<vars, env>>
  BY <1>1 DEF vars, ClaimIsPast, ClaimsAreDistinct, Fresh, Working
<1>2. ASSUME NEW r \in Rows, Dispatch(r)
      PROVE  ClaimIsPast' /\ ClaimsAreDistinct' /\ Fresh'
  <2>1. pass' = pass /\ \A s \in Rows : row'[s].attempts = row[s].attempts
    BY <1>0, <1>2 DEF Dispatch, Fresh
  <2>2. \A s \in Rows : row'[s].status = "none" => row[s].status = "none"
    BY <1>0, <1>2 DEF Dispatch
  <2>3. QED
    BY <1>0, <2>1, <2>2 DEF ClaimIsPast, ClaimsAreDistinct, Fresh, Working
<1>3. ASSUME NEW r \in Rows, BackoffElapses(r)
      PROVE  ClaimIsPast' /\ ClaimsAreDistinct' /\ Fresh'
  <2>1. /\ pass' = pass
        /\ \A s \in Rows : /\ row'[s].attempts = row[s].attempts
                           /\ row'[s].status = row[s].status
    BY <1>0, <1>3 DEF BackoffElapses, RowStates
  <2>2. QED
    BY <1>0, <2>1 DEF ClaimIsPast, ClaimsAreDistinct, Fresh, Working
<1>4. ASSUME NEW p \in Passes, NEW t \in Tasks, Takes(p, t)
      PROVE  ClaimIsPast' /\ ClaimsAreDistinct' /\ Fresh'
  <2>1. /\ pass'[p].at = t /\ t.id \in Rows /\ t.seen \in Nat
        /\ t.seen = row[t.id].attempts
        /\ row'[t.id].attempts = row[t.id].attempts + 1
        /\ row'[t.id].status = "PENDING"
        /\ \A r \in Rows : r # t.id => row'[r] = row[r]
    BY <1>0, <1>4, ClaimRow DEF Tasks
  <2>2. \A q \in Passes : q # p => pass'[q] = pass[q]
    BY <1>0, <1>4 DEF Takes
  <2>3. ASSUME NEW q \in Passes, q # p, Working(q)'
        PROVE  /\ pass'[q].at = pass[q].at /\ Working(q)
               /\ pass'[q].at.seen < row'[pass'[q].at.id].attempts
    <3>1. pass'[q].at = pass[q].at /\ Working(q)
      BY <2>2, <2>3 DEF Working
    <3>2. row[pass[q].at.id].attempts \in Nat
      BY <1>0, <3>1 DEF RowStates
    <3>3. CASE pass[q].at.id = t.id
      BY <1>0, <2>1, <3>1, <3>2, <3>3
    <3>4. CASE pass[q].at.id # t.id
      BY <1>0, <2>1, <3>1, <3>4
    <3>5. QED
      BY <3>1, <3>3, <3>4
  <2>4. ClaimIsPast'
    <3>1. pass'[p].at.seen < row'[pass'[p].at.id].attempts
      BY <2>1
    <3>2. QED
      BY <2>3, <3>1 DEF ClaimIsPast
  <2>5. \A q \in Passes : q # p /\ Working(q)' => pass'[q].at # t
    BY <1>0, <2>1, <2>3
  <2>6. ClaimsAreDistinct'
    <3> SUFFICES ASSUME NEW q \in Passes, NEW v \in Passes, q # v,
                        Working(q)', Working(v)'
                 PROVE  pass'[q].at # pass'[v].at
      BY DEF ClaimsAreDistinct
    <3>1. CASE q = p \/ v = p
      BY <2>1, <2>5, <3>1
    <3>2. CASE q # p /\ v # p
      BY <2>3, <3>2 DEF ClaimsAreDistinct
    <3>3. QED
      BY <3>1, <3>2
  <2>7. Fresh'
    BY <2>1 DEF Fresh
  <2>8. QED
    BY <2>4, <2>6, <2>7
<1>5. ASSUME NEW p \in Passes,
             \A q \in Passes : q # p => pass'[q] = pass[q],
             Working(p)' => Working(p) /\ pass'[p].at = pass[p].at,
             \A r \in Rows : row'[r].attempts = row[r].attempts,
             \A r \in Rows : row'[r].status = "none" => row[r].status = "none"
      PROVE  ClaimIsPast' /\ ClaimsAreDistinct' /\ Fresh'
  <2>1. \A q \in Passes : Working(q)' => Working(q) /\ pass'[q].at = pass[q].at
    BY <1>5 DEF Working
  <2>2. QED
    BY <1>0, <1>5, <2>1 DEF ClaimIsPast, ClaimsAreDistinct, Fresh
<1>6. ASSUME NEW p \in Passes, NEW t \in Tasks, PassesBy(p, t)
      PROVE  ClaimIsPast' /\ ClaimsAreDistinct' /\ Fresh'
  <2>1. \A q \in Passes : q # p => pass'[q] = pass[q]
    BY <1>0, <1>6 DEF PassesBy
  <2>2. row' = row /\ ~Working(p)'
    BY <1>6, PassesByRow
  <2>3. QED
    BY <1>5, <2>1, <2>2
<1>7. ASSUME NEW p \in Passes, Acts(p), ~Claim(p)
      PROVE  ClaimIsPast' /\ ClaimsAreDistinct' /\ Fresh'
  <2>1. \A q \in Passes : q # p => pass'[q] = pass[q]
    BY <1>7, ActsFrame
  <2>2. Working(p)' => Working(p) /\ pass'[p].at = pass[p].at
    BY <1>7, ActsNext DEF Working
  <2>3. ASSUME NEW r \in Rows
        PROVE  /\ row'[r].attempts = row[r].attempts
               /\ row'[r].status = "none" => row[r].status = "none"
    <3>1. /\ row'[r].attempts = row[r].attempts
          /\ \/ row'[r] = row[r]
             \/ row'[r].status \in {"DELIVERED", "FAILED", "PENDING"}
      BY <1>7, ActsRow
    <3>2. QED
      BY <3>1
  <2>4. QED
    BY <1>5, <2>1, <2>2, <2>3
<1>8. ASSUME NEW p \in Passes, Claim(p)
      PROVE  ClaimIsPast' /\ ClaimsAreDistinct' /\ Fresh'
  BY <1>4, <1>6, <1>8, ClaimCases
<1>9. QED
  BY <1>1, <1>2, <1>3, <1>7, <1>8 DEF Next, Step, Acts

-----------------------------------------------------------------------------
(* The messages *)

\* Claims are finitely many.
LEMMA UnspentFinite ==
  ASSUME NEW r
  PROVE  IsFiniteSet(Unspent(r)) /\ Cardinality(Unspent(r)) \in Nat
<1>1. Unspent(r) \subseteq Passes
  BY DEF Unspent
<1>2. QED
  BY <1>1, ConstantsAssumption, FS_Subset, FS_CardinalityType

\* A claim adds itself to the unspent ones of its row; no other step adds any.
LEMMA UnspentStep ==
  ASSUME TypeOK, NEW p \in Passes, Acts(p), NEW r \in Rows
  PROVE  \/ \E t \in Tasks : Takes(p, t) /\ r = t.id /\ Claim(p)
                             /\ Unspent(r)' \subseteq Unspent(r) \cup {p}
         \/ Unspent(r)' \subseteq Unspent(r)
<1>1. \A q \in Passes : q # p => pass'[q] = pass[q]
  BY ActsFrame
<1>2. CASE Claim(p)
  <2>1. PICK t \in pass[p].todo : /\ t \in Tasks /\ t.id \in Rows
                                  /\ Takes(p, t) \/ PassesBy(p, t)
    BY <1>2, ClaimCases
  <2>2. CASE Takes(p, t)
    <3>1. pass'[p].at = t
      BY <2>1, <2>2, ClaimRow
    <3>2. CASE r = t.id
      BY <1>1, <1>2, <2>1, <2>2, <3>2 DEF Unspent
    <3>3. CASE r # t.id
      BY <1>1, <3>1, <3>3 DEF Unspent
    <3>4. QED
      BY <3>2, <3>3
  <2>3. CASE PassesBy(p, t)
    <3>1. pass'[p].pc \in {"idle", "claim"}
      BY <2>1, <2>3, PassesByRow
    <3>2. QED
      BY <1>1, <3>1 DEF Unspent
  <2>4. QED
    BY <2>1, <2>2, <2>3
<1>3. CASE ~Claim(p)
  <2>1. pass'[p].pc \in {"read", "inApp", "push"} =>
          pass[p].pc \in {"read", "inApp", "push"} /\ pass'[p].at = pass[p].at
    BY <1>3, ActsNext DEF ReadRow, InApp
  <2>2. QED
    BY <1>1, <2>1 DEF Unspent
<1>4. QED
  BY <1>2, <1>3

\* A message spends the claim it was sent for.
LEMMA CopiesStep ==
  ASSUME TypeOK, HasRow, Fresh, CopiesFit, [Next]_<<vars, env>>
  PROVE  CopiesFit'
<1>0. /\ pass \in [Passes -> PassStates] /\ row \in [Rows -> RowStates]
      /\ copies \in [Rows -> Nat]
      /\ \A r \in Rows : row[r].attempts \in Nat
  BY DEF TypeOK, PassStates, RowStates
<1>1. CASE UNCHANGED <<vars, env>>
  BY <1>1 DEF vars, CopiesFit, Unspent
<1>2. ASSUME NEW r \in Rows, Dispatch(r) \/ BackoffElapses(r) PROVE CopiesFit'
  <2>1. pass' = pass /\ copies' = copies
    BY <1>2 DEF Dispatch, BackoffElapses, channels
  <2>2. \A s \in Rows : row'[s].attempts = row[s].attempts
    BY <1>0, <1>2 DEF Dispatch, BackoffElapses, Fresh, RowStates
  <2>3. QED
    BY <2>1, <2>2 DEF CopiesFit, Unspent
<1>3. ASSUME NEW p \in Passes, Acts(p) PROVE CopiesFit'
  <2> SUFFICES ASSUME NEW r \in Rows
               PROVE  copies'[r] + Cardinality(Unspent(r)') <= row'[r].attempts
    BY DEF CopiesFit
  <2>0. /\ copies[r] \in Nat /\ row[r].attempts \in Nat
        /\ IsFiniteSet(Unspent(r)) /\ Cardinality(Unspent(r)) \in Nat
        /\ copies[r] + Cardinality(Unspent(r)) <= row[r].attempts
    BY <1>0, UnspentFinite DEF CopiesFit
  <2>1. CASE Claim(p)
    <3>1. copies' = copies
      BY <2>1, ClaimCases DEF channels
    <3>2. CASE \E t \in Tasks : Takes(p, t) /\ r = t.id
                                /\ Unspent(r)' \subseteq Unspent(r) \cup {p}
      <4>1. row'[r].attempts = row[r].attempts + 1
        BY <3>2, ClaimRow
      <4>2. /\ IsFiniteSet(Unspent(r) \cup {p})
            /\ Cardinality(Unspent(r) \cup {p}) <= Cardinality(Unspent(r)) + 1
            /\ Cardinality(Unspent(r) \cup {p}) \in Nat
        <5>1. /\ IsFiniteSet(Unspent(r) \cup {p})
              /\ Cardinality(Unspent(r) \cup {p}) =
                   IF p \in Unspent(r) THEN Cardinality(Unspent(r))
                   ELSE Cardinality(Unspent(r)) + 1
          BY <2>0, FS_AddElement
        <5>2. QED
          BY <2>0, <5>1
      <4>3. /\ Cardinality(Unspent(r)') <= Cardinality(Unspent(r) \cup {p})
            /\ Cardinality(Unspent(r)') \in Nat
        BY <3>2, <4>2, FS_Subset, FS_CardinalityType
      <4>4. QED
        BY <2>0, <3>1, <4>1, <4>2, <4>3
    <3>3. CASE Unspent(r)' \subseteq Unspent(r)
      <4>1. row'[r].attempts \in Nat /\ row'[r].attempts >= row[r].attempts
        <5>1. PICK t \in pass[p].todo : /\ t \in Tasks /\ t.id \in Rows
                                        /\ Takes(p, t) \/ PassesBy(p, t)
          BY <2>1, ClaimCases
        <5>2. CASE Takes(p, t)
          BY <2>0, <5>1, <5>2, ClaimRow
        <5>3. CASE PassesBy(p, t)
          BY <2>0, <5>1, <5>3, PassesByRow
        <5>4. QED
          BY <5>1, <5>2, <5>3
      <4>2. /\ Cardinality(Unspent(r)') <= Cardinality(Unspent(r))
            /\ Cardinality(Unspent(r)') \in Nat
        BY <2>0, <3>3, FS_Subset, FS_CardinalityType
      <4>3. QED
        BY <2>0, <3>1, <4>1, <4>2
    <3>4. QED
      BY <1>3, <3>2, <3>3, UnspentStep
  <2>2. CASE ~Claim(p)
    <3>1. row'[r].attempts = row[r].attempts
      BY <1>3, <2>2, ActsRow
    <3>2. Unspent(r)' \subseteq Unspent(r)
      BY <1>3, <2>2, UnspentStep
    <3>3. CASE copies'[r] = copies[r]
      <4>1. /\ Cardinality(Unspent(r)') <= Cardinality(Unspent(r))
            /\ Cardinality(Unspent(r)') \in Nat
        BY <2>0, <3>2, FS_Subset, FS_CardinalityType
      <4>2. QED
        BY <2>0, <3>1, <3>3, <4>1
    <3>4. CASE copies'[r] # copies[r]
      <4>1. /\ pass[p].pc = "push" /\ r = pass[p].at.id /\ copies'[r] = copies[r] + 1
            /\ pass'[p].pc \in {"delivered", "failed"}
        <5>1. PushConfirmed(p) \/ PushFails(p)
          BY <1>3, <2>2, <3>4 DEF Acts, PassStep, Relay, ReadRow, InApp, InAppFails,
               PushSkipped, MarkDelivered, MarkDeliveredFails, RecordFailure,
               PassFails, Crash, channels
        <5>2. pass'[p].pc \in {"delivered", "failed"}
          BY <1>0, <5>1 DEF PushConfirmed, PushFails, Go, PassStates
        <5>3. QED
          BY <1>0, <3>4, <5>1, <5>2 DEF PushConfirmed, PushFails
      <4>2. p \in Unspent(r) /\ Unspent(r)' \subseteq Unspent(r) \ {p}
        BY <3>2, <4>1 DEF Unspent
      <4>3. /\ IsFiniteSet(Unspent(r) \ {p})
            /\ Cardinality(Unspent(r) \ {p}) = Cardinality(Unspent(r)) - 1
        BY <2>0, <4>2, FS_RemoveElement
      <4>4. /\ Cardinality(Unspent(r)') <= Cardinality(Unspent(r) \ {p})
            /\ Cardinality(Unspent(r)') \in Nat
        BY <4>2, <4>3, FS_Subset, FS_CardinalityType
      <4>5. QED
        BY <2>0, <3>1, <4>1, <4>3, <4>4
    <3>5. QED
      BY <3>3, <3>4
  <2>3. QED
    BY <2>1, <2>2
<1>4. QED
  BY <1>1, <1>2, <1>3 DEF Next, Step, Acts

-----------------------------------------------------------------------------
(* The back-offs *)

\* While passes do not overlap, a pass is at work alone.
LEMMA OneActs ==
  ASSUME TypeOK, Alone, OnePass, NEW p \in Passes, Acts(p)
  PROVE  /\ \A q \in Passes : q # p => pass[q] = Idle /\ pass'[q] = Idle
         /\ OnePass'
         /\ ~PassFails(p) /\ ~Crash(p) /\ ~MarkDeliveredFails(p)
<1>1. \A q \in Passes : q # p => pass'[q] = pass[q]
  BY ActsFrame
<1>2. CASE Relay(p)
  <2>1. \A q \in Passes : pass[q] = Idle
    BY <1>2 DEF Relay, Alone
  <2>2. \A q \in Passes : q # p => pass[q] = Idle /\ pass'[q] = Idle
    BY <1>1, <2>1
  <2>3. OnePass'
    BY <2>2 DEF OnePass
  <2>4. ~PassFails(p) /\ ~Crash(p) /\ ~MarkDeliveredFails(p)
    BY DEF PassFails, Crash, MarkDeliveredFails, Fault, Alone
  <2>5. QED
    BY <2>2, <2>3, <2>4
<1>3. CASE ~Relay(p)
  <2>1. pass[p].pc # "idle"
    BY <1>3 DEF Acts, PassStep, Claim, ClaimAs, ReadRow, InApp, InAppFails,
         PushSkipped, PushConfirmed, PushFails, MarkDelivered, MarkDeliveredFails,
         RecordFailure, PassFails, Crash, Fault, Alone
  <2>2. pass[p] # Idle
    BY <2>1 DEF Idle
  <2>3. \A q \in Passes : q # p => pass[q] = Idle
    BY <2>2 DEF OnePass
  <2>4. QED
    BY <1>1, <2>3 DEF OnePass, PassFails, Crash, MarkDeliveredFails, Fault, Alone
<1>4. QED
  BY <1>2, <1>3

\* A claim takes a row whose back-off is over.
LEMMA BackoffClaim ==
  ASSUME TypeOK, HasRow, Alone, OnePass, ReadingsHold, Waited,
         NEW p \in Passes, Claim(p)
  PROVE  ReadingsHold' /\ Waited'
<1>0. /\ pass \in [Passes -> PassStates] /\ row \in [Rows -> RowStates]
      /\ waits \in [Rows -> Nat] /\ waits' = waits
      /\ pass[p].pc = "claim"
  BY ClaimCases DEF TypeOK, PassStates, RowStates
<1>1. Acts(p)
  BY DEF Acts, PassStep
<1>2. \A q \in Passes : q # p => pass[q] = Idle /\ pass'[q] = Idle
  BY <1>1, OneActs
<1>3. PICK t \in pass[p].todo : /\ t \in Tasks /\ t.id \in Rows
                                /\ Takes(p, t) \/ PassesBy(p, t)
  BY ClaimCases
<1>4. \A r \in Rows : ~InHand(r)
  BY <1>0, <1>2 DEF InHand, Working, Idle
<1>5. CASE Takes(p, t)
  <2>1. /\ pass'[p].pc = "read" /\ pass'[p].at = t
        /\ pass'[p].todo = pass[p].todo \ {t}
        /\ row[t.id].status = "PENDING" /\ t.seen = row[t.id].attempts
        /\ row'[t.id].status = "PENDING" /\ row'[t.id].due = row[t.id].due
        /\ row'[t.id].attempts = row[t.id].attempts + 1
        /\ \A r \in Rows : r # t.id => row'[r] = row[r]
    BY <1>3, <1>5, ClaimRow
  <2>2. row[t.id].due /\ row[t.id].attempts <= waits[t.id]
    BY <1>3, <1>4, <2>1 DEF ReadingsHold, Waited
  <2>3. ASSUME NEW v \in pass'[p].todo
        PROVE  /\ row'[v.id].due /\ row'[v.id].attempts = v.seen /\ t.id # v.id
    <3>1. /\ v \in pass[p].todo /\ v # t /\ v \in Tasks
          /\ row[v.id].due /\ row[v.id].attempts = v.seen
      BY <1>0, <2>1, <2>3 DEF ReadingsHold, PassStates
    <3>2. v.id # t.id
      BY <1>3, <2>1, <3>1 DEF Tasks
    <3>3. QED
      BY <2>1, <3>1, <3>2 DEF Tasks
  <2>4. ReadingsHold'
    <3> SUFFICES ASSUME NEW q \in Passes
                 PROVE  /\ \A v \in pass'[q].todo :
                             /\ row'[v.id].due /\ row'[v.id].attempts = v.seen
                             /\ Working(q)' => pass'[q].at.id # v.id
                        /\ pass'[q].pc \in {"inApp", "push", "delivered", "failed"}
                             => pass'[q].got = row'[pass'[q].at.id].attempts
      BY DEF ReadingsHold
    <3>1. CASE q = p
      BY <2>1, <2>3, <3>1
    <3>2. CASE q # p
      BY <1>2, <3>2 DEF Idle
    <3>3. QED
      BY <3>1, <3>2
  <2>5. InHand(t.id)'
    BY <2>1 DEF InHand, Working
  <2>6. row'[t.id].attempts <= waits[t.id] + 1
    BY <1>0, <1>3, <2>1, <2>2 DEF RowStates
  <2>7. Waited'
    <3> SUFFICES ASSUME NEW r \in Rows
                 PROVE  /\ row'[r].attempts <= waits'[r] + 1
                        /\ row'[r].status = "PENDING" /\ row'[r].due /\ ~InHand(r)' =>
                             row'[r].attempts <= waits'[r]
                        /\ row'[r].status = "FAILED" => waits'[r] >= MaxAttempts - 2
      BY DEF Waited
    <3>1. CASE r = t.id
      BY <1>0, <2>1, <2>5, <2>6, <3>1
    <3>2. CASE r # t.id
      BY <1>0, <1>4, <2>1, <3>2 DEF Waited
    <3>3. QED
      BY <3>1, <3>2
  <2>8. QED
    BY <2>4, <2>7
<1>6. CASE PassesBy(p, t)
  <2>1. /\ row' = row /\ pass'[p].pc \in {"idle", "claim"}
        /\ pass'[p].todo \subseteq pass[p].todo /\ ~Working(p)'
    BY <1>3, <1>6, PassesByRow
  <2>2. \A q \in Passes : ~Working(q)' /\ pass'[q].todo \subseteq pass[q].todo
                            /\ pass'[q].pc \in {"idle", "claim"}
    BY <1>2, <2>1 DEF Working, Idle
  <2>3. ReadingsHold'
    BY <2>1, <2>2 DEF ReadingsHold
  <2>4. Waited'
    BY <1>0, <1>4, <2>1 DEF Waited
  <2>5. QED
    BY <2>3, <2>4
<1>7. QED
  BY <1>3, <1>5, <1>6

\* What is not a claim: a row that fails must have waited as often as it was
\* tried, and it goes on with a new back-off.
LEMMA BackoffActs ==
  ASSUME TypeOK, HasRow, Alone, OnePass, ReadingsHold, Waited,
         NEW p \in Passes, Acts(p), ~Claim(p)
  PROVE  ReadingsHold' /\ Waited'
<1>0. /\ pass \in [Passes -> PassStates] /\ row \in [Rows -> RowStates]
      /\ waits \in [Rows -> Nat] /\ MaxAttempts \in Nat
      /\ \A r \in Rows : row[r].attempts \in Nat
      /\ Working(p) => pass[p].at.id \in Rows
  BY ConstantsAssumption DEF TypeOK, PassStates, RowStates, HasRow, Tasks
<1>1. \A q \in Passes : q # p => pass[q] = Idle /\ pass'[q] = Idle
  BY OneActs
<1>2. waits' = waits
  BY DEF Acts, PassStep, Relay, ReadRow, InApp, InAppFails, PushSkipped,
         PushConfirmed, PushFails, MarkDelivered, MarkDeliveredFails, RecordFailure,
         PassFails, Crash
<1>3. \A r \in Rows : row'[r].attempts = row[r].attempts
  BY ActsRow
<1>4. \A r \in Rows : InHand(r) <=> Working(p) /\ pass[p].at.id = r
  BY <1>1 DEF InHand, Working, Idle
<1>5. \A r \in Rows : InHand(r)' <=> Working(p)' /\ pass'[p].at.id = r
  BY <1>1 DEF InHand, Working, Idle
<1>6. ASSUME \A v \in pass'[p].todo :
               /\ row'[v.id].due /\ row'[v.id].attempts = v.seen
               /\ Working(p)' => pass'[p].at.id # v.id,
             pass'[p].pc \in {"inApp", "push", "delivered", "failed"} =>
               pass'[p].got = row'[pass'[p].at.id].attempts
      PROVE  ReadingsHold'
  <2> SUFFICES ASSUME NEW q \in Passes
               PROVE  /\ \A v \in pass'[q].todo :
                           /\ row'[v.id].due /\ row'[v.id].attempts = v.seen
                           /\ Working(q)' => pass'[q].at.id # v.id
                      /\ pass'[q].pc \in {"inApp", "push", "delivered", "failed"}
                           => pass'[q].got = row'[pass'[q].at.id].attempts
    BY DEF ReadingsHold
  <2>1. CASE q = p
    BY <1>6, <2>1
  <2>2. CASE q # p
    BY <1>1, <2>2 DEF Idle
  <2>3. QED
    BY <2>1, <2>2
<1>7. CASE Relay(p)
  <2>1. /\ row' = row /\ pass'[p].pc = "claim" /\ pass[p] = Idle
        /\ pass'[p].todo = {[id |-> r, seen |-> row[r].attempts] : r \in Due}
    BY <1>0, <1>7 DEF Relay, PassStates
  <2>2. ReadingsHold'
    BY <1>6, <2>1 DEF Due, Working
  <2>3. \A r \in Rows : ~InHand(r) /\ ~InHand(r)'
    BY <1>4, <1>5, <2>1 DEF Working, Idle
  <2>4. Waited'
    BY <1>2, <2>1, <2>3 DEF Waited
  <2>5. QED
    BY <2>2, <2>4
<1>8. CASE /\ Working(p) /\ Working(p)' /\ row' = row
           /\ pass'[p].at = pass[p].at /\ pass'[p].todo = pass[p].todo
           /\ pass'[p].got = row[pass[p].at.id].attempts
  <2>1. ReadingsHold'
    BY <1>6, <1>8 DEF ReadingsHold
  <2>2. \A r \in Rows : InHand(r)' <=> InHand(r)
    BY <1>4, <1>5, <1>8
  <2>3. Waited'
    BY <1>2, <1>8, <2>2 DEF Waited
  <2>4. QED
    BY <2>1, <2>3
<1>9. CASE MarkDelivered(p) \/ RecordFailure(p)
  <2> DEFINE r0 == pass[p].at.id
  <2>1. /\ Working(p) /\ r0 \in Rows /\ pass[p].got = row[r0].attempts
        /\ pass'[p] = NextRow(pass[p].todo)
    BY <1>0, <1>9 DEF MarkDelivered, RecordFailure, Working, ReadingsHold
  <2>2. ~Working(p)' /\ pass'[p].todo = pass[p].todo
          /\ pass'[p].pc \in {"idle", "claim"}
    BY <2>1 DEF NextRow, Idle, Working
  <2>3. \A r \in Rows : r # r0 => row'[r] = row[r]
    BY ActsRow
  <2>4. \A v \in pass[p].todo : v.id # r0 /\ v.id \in Rows
    BY <1>0, <2>1 DEF ReadingsHold, PassStates, Tasks
  <2>5. ReadingsHold'
    BY <1>6, <2>2, <2>3, <2>4 DEF ReadingsHold
  <2>6. /\ row[r0].attempts <= waits[r0] + 1
        /\ row'[r0].status = "PENDING" => ~row'[r0].due
        /\ row'[r0].status = "FAILED" => pass[p].got + 1 >= MaxAttempts
    <3>1. row[r0].attempts <= waits[r0] + 1
      BY <2>1 DEF Waited
    <3>2. CASE MarkDelivered(p)
      BY <1>0, <2>1, <3>1, <3>2 DEF MarkDelivered, RowStates
    <3>3. CASE RecordFailure(p)
      <4>1. row[r0] \in RowStates
        BY <1>0, <2>1
      <4>2. ~row'[r0].due
        BY <1>0, <2>1, <3>3, <4>1 DEF RecordFailure, RowStates
      <4>3. row'[r0].status = "FAILED" => pass[p].got + 1 >= MaxAttempts
        BY <1>0, <2>1, <3>3, <4>1 DEF RecordFailure, RowStates
      <4>4. QED
        BY <3>1, <4>2, <4>3
    <3>4. QED
      BY <1>9, <3>2, <3>3
  <2>7. Waited'
    <3> SUFFICES ASSUME NEW r \in Rows
                 PROVE  /\ row'[r].attempts <= waits'[r] + 1
                        /\ row'[r].status = "PENDING" /\ row'[r].due /\ ~InHand(r)' =>
                             row'[r].attempts <= waits'[r]
                        /\ row'[r].status = "FAILED" => waits'[r] >= MaxAttempts - 2
      BY DEF Waited
    <3>1. CASE r = r0
      BY <1>0, <1>2, <1>3, <2>1, <2>6, <3>1
    <3>2. CASE r # r0
      <4>1. ~InHand(r) /\ row'[r] = row[r]
        BY <1>4, <2>3, <3>2
      <4>2. QED
        BY <1>2, <4>1 DEF Waited
    <3>3. QED
      BY <3>1, <3>2
  <2>8. QED
    BY <2>5, <2>7
<1>10. CASE ~Relay(p) /\ ~MarkDelivered(p) /\ ~RecordFailure(p)
  <2>1. row' = row
    BY <1>10, OneActs DEF Acts, PassStep, ReadRow, InApp, InAppFails, PushSkipped,
                          PushConfirmed, PushFails
  <2>2. /\ Working(p) /\ pass'[p].at = pass[p].at /\ pass'[p].todo = pass[p].todo
        /\ pass'[p].pc \in {"inApp", "push", "delivered", "failed"}
        /\ pass'[p].got = row[pass[p].at.id].attempts
    <3>1. pass'[p].pc \notin {"idle", "claim"}
      <4>1. \/ ReadRow(p) \/ InApp(p) \/ InAppFails(p) \/ PushSkipped(p)
            \/ PushConfirmed(p) \/ PushFails(p)
        BY <1>10, OneActs DEF Acts, PassStep
      <4>2. CASE ReadRow(p)
        BY <1>0, <4>2 DEF ReadRow, PassStates
      <4>3. CASE InApp(p) \/ InAppFails(p)
        BY <1>0, <4>3 DEF InApp, InAppFails, Go, PassStates
      <4>4. CASE PushSkipped(p) \/ PushConfirmed(p) \/ PushFails(p)
        BY <1>0, <4>4 DEF PushSkipped, PushConfirmed, PushFails, Go, PassStates
      <4>5. QED
        BY <4>1, <4>2, <4>3, <4>4
    <3>2. CASE ReadRow(p)
      BY <3>1, <3>2, ActsNext DEF ReadRow, InApp, PushSkipped, PushConfirmed
    <3>3. CASE ~ReadRow(p)
      <4>1. /\ Working(p) /\ pass'[p].at = pass[p].at
            /\ pass'[p].todo = pass[p].todo /\ pass'[p].got = pass[p].got
            /\ pass'[p].pc \in {"inApp", "push", "delivered", "failed"}
            /\ pass[p].pc \in {"inApp", "push", "delivered"}
        BY <3>1, <3>3, ActsNext DEF InApp, PushSkipped, PushConfirmed
      <4>2. QED
        BY <4>1 DEF ReadingsHold
    <3>4. QED
      BY <3>2, <3>3
  <2>3. Working(p)'
    BY <2>2 DEF Working
  <2>4. QED
    BY <1>8, <2>1, <2>2, <2>3
<1>11. QED
  BY <1>7, <1>9, <1>10

\* The back-offs themselves.
LEMMA BackoffStep ==
  ASSUME TypeOK, HasRow, Fresh, BackoffIInv, [Next]_<<vars, env>>
  PROVE  BackoffIInv'
<1>0. /\ pass \in [Passes -> PassStates] /\ row \in [Rows -> RowStates]
      /\ waits \in [Rows -> Nat] /\ MaxAttempts \in Nat
      /\ \A r \in Rows : row[r].attempts \in Nat
  BY ConstantsAssumption DEF TypeOK, PassStates, RowStates
<1>1. env' = env
  BY DEF Next, vars
<1> SUFFICES ASSUME Alone PROVE OnePass' /\ ReadingsHold' /\ Waited'
  BY <1>1 DEF BackoffIInv, Alone
<1>2. OnePass /\ ReadingsHold /\ Waited
  BY DEF BackoffIInv
<1>3. CASE UNCHANGED <<vars, env>>
  BY <1>2, <1>3 DEF vars, OnePass, ReadingsHold, Waited, InHand, Working
<1>4. ASSUME NEW r \in Rows, Dispatch(r) \/ BackoffElapses(r)
      PROVE  OnePass' /\ ReadingsHold' /\ Waited'
  <2>1. pass' = pass
    BY <1>4 DEF Dispatch, BackoffElapses
  <2>2. \A s \in Rows : s # r => row'[s] = row[s] /\ waits'[s] = waits[s]
    BY <1>0, <1>4 DEF Dispatch, BackoffElapses
  <2>3. row'[r].due /\ row'[r].attempts = row[r].attempts /\ row'[r].status = "PENDING"
    BY <1>0, <1>4 DEF Dispatch, BackoffElapses, Fresh, RowStates
  <2>4. waits'[r] \in Nat /\ waits'[r] >= row'[r].attempts
    <3>1. CASE Dispatch(r)
      BY <1>0, <2>3, <3>1 DEF Dispatch, Fresh
    <3>2. CASE BackoffElapses(r)
      <4>1. waits'[r] = waits[r] + 1
        BY <1>0, <3>2 DEF BackoffElapses
      <4>2. row[r].attempts <= waits[r] + 1
        BY <1>2 DEF Waited
      <4>3. QED
        BY <1>0, <2>3, <4>1, <4>2
    <3>3. QED
      BY <1>4, <3>1, <3>2
  <2>5. ReadingsHold'
    <3>1. \A p \in Passes : \A t \in pass[p].todo : t.id \in Rows
      BY <1>0 DEF PassStates, Tasks
    <3>2. \A p \in Passes : pass[p].pc \in {"inApp", "push", "delivered", "failed"}
                              => pass[p].at.id \in Rows
      BY DEF HasRow, Working, Tasks
    <3>3. \A s \in Rows : /\ row'[s].attempts = row[s].attempts
                          /\ row[s].due => row'[s].due
      BY <2>2, <2>3
    <3>4. QED
      BY <1>2, <2>1, <3>1, <3>2, <3>3 DEF ReadingsHold, Working
  <2>6. Waited'
    <3> SUFFICES ASSUME NEW s \in Rows
                 PROVE  /\ row'[s].attempts <= waits'[s] + 1
                        /\ row'[s].status = "PENDING" /\ row'[s].due /\ ~InHand(s)' =>
                             row'[s].attempts <= waits'[s]
                        /\ row'[s].status = "FAILED" => waits'[s] >= MaxAttempts - 2
      BY DEF Waited
    <3>1. CASE s = r
      BY <1>0, <2>3, <2>4, <3>1
    <3>2. CASE s # r
      BY <1>2, <2>1, <2>2, <3>2 DEF Waited, InHand, Working
    <3>3. QED
      BY <3>1, <3>2
  <2>7. QED
    BY <1>2, <2>1, <2>5, <2>6 DEF OnePass
<1>5. ASSUME NEW p \in Passes, Acts(p)
      PROVE  OnePass' /\ ReadingsHold' /\ Waited'
  <2>1. OnePass'
    BY <1>2, <1>5, OneActs
  <2>2. CASE Claim(p)
    BY <1>2, <2>1, <2>2, BackoffClaim
  <2>3. CASE ~Claim(p)
    BY <1>2, <1>5, <2>1, <2>3, BackoffActs
  <2>4. QED
    BY <2>2, <2>3
<1>6. QED
  BY <1>3, <1>4, <1>5 DEF Next, Step, Acts

\* The inductive invariant.
THEOREM Invariance == Spec => []IInv
<1>1. Init => IInv
  <2> SUFFICES ASSUME Init PROVE IInv
    OBVIOUS
  <2>1. /\ \A p \in Passes : pass[p] = Idle /\ ~Working(p) /\ pass[p].todo = {}
        /\ \A r \in Rows : /\ row[r].attempts = 0 /\ row[r].status = "none"
                           /\ copies[r] = 0 /\ waits[r] = 0
    BY DEF Init, Idle, Working
  <2>2. CopiesFit
    <3>1. \A r \in Rows : Unspent(r) = {}
      BY <2>1 DEF Unspent, Idle
    <3>2. QED
      BY <2>1, <3>1, FS_EmptySet DEF CopiesFit
  <2>3. OnePass /\ ReadingsHold /\ Waited
    BY <2>1 DEF OnePass, ReadingsHold, Waited, Idle
  <2>4. QED
    BY <2>1, <2>2, <2>3, TypeInit
       DEF IInv, HasRow, ClaimIsPast, ClaimsAreDistinct, Fresh, BackoffIInv
<1>2. IInv /\ [Next]_<<vars, env>> => IInv'
  BY TypeStep, ClaimsStep, CopiesStep, BackoffStep DEF IInv
<1>3. QED
  BY <1>1, <1>2, PTL DEF Spec

\* A row is claimed once for each value of attempts, however many passes overlap,
\* no claim sends two messages, and without overlaps and crashes a row is given
\* up only after its back-offs.
THEOREM ClaimsAreOK == Spec => []ClaimsOK
<1>1. IInv => ClaimsOK
  <2> SUFFICES ASSUME IInv PROVE ClaimsOK
    OBVIOUS
  <2>1. CopiesAreClaimed
    <3> SUFFICES ASSUME NEW r \in Rows PROVE copies[r] <= row[r].attempts
      BY DEF CopiesAreClaimed
    <3>1. copies[r] \in Nat /\ row[r].attempts \in Nat
      BY DEF IInv, TypeOK
    <3>2. Cardinality(Unspent(r)) \in Nat
      BY UnspentFinite
    <3>3. copies[r] + Cardinality(Unspent(r)) <= row[r].attempts
      BY DEF IInv, CopiesFit
    <3>4. QED
      BY <3>1, <3>2, <3>3
  <2>2. BackoffBetween
    BY DEF IInv, BackoffIInv, Alone, Waited, BackoffBetween
  <2>3. QED
    BY <2>1, <2>2 DEF IInv, ClaimsOK
<1>2. QED
  BY <1>1, Invariance, PTL
=============================================================================
