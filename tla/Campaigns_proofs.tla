---------------------------- MODULE Campaigns_proofs ----------------------------
(***************************************************************************)
(* What Campaigns promises, for every set of users and passes, every size  *)
(* of a chunk and every bound.  The point of the argument is that what a   *)
(* pass has read may be old in every respect, and that it is enough that   *)
(* everybody up to ITS cursor has been notified: the audience without the  *)
(* latecomers only shrinks once the campaign has been claimed.             *)
(***************************************************************************)
EXTENDS Campaigns, FiniteSetTheorems, TLAPS

\* Whom the campaign owes a notification.
Target == Audience \ late
UpTo(cursor) == {u \in Target : u <= cursor}

\* A campaign nobody has claimed has not begun, and no pass is at work on it.
NotBegun ==
  ~camp.sentAt /\ camp.st # "gone" =>
    /\ camp.cursor = 0
    /\ \A w \in Workers : worker[w].pc \in {"idle", "claim", "release", "failed"}

BegunIsSet == camp.st \in {"PROCESSING", "COMPLETED", "FAILED"} => camp.sentAt

\* What a pass holds is right, however old: up to its cursor everybody was
\* notified, or will be by its chunk; a target type that is out of date has no
\* audience left.
PassOK(w) ==
  LET k == worker[w] IN
  /\ k.pc = "ids" =>
       UpTo(k.cursor) \subseteq notified /\ (camp.all /\ ~k.all => Target = {})
  /\ k.pc = "chunk" => UpTo(k.cursor) \subseteq notified \cup k.ids
  /\ k.pc = "complete" => Target \subseteq notified

Reached ==
  camp.sentAt =>
    /\ UpTo(camp.cursor) \subseteq notified
    /\ \A w \in Workers : PassOK(w)
    /\ camp.st = "COMPLETED" => Target \subseteq notified

IInv == TypeOK /\ NotBegun /\ BegunIsSet /\ Reached

-----------------------------------------------------------------------------
(* Types *)

Places == {"idle", "claim", "campaign", "ids", "complete", "chunk", "failed",
           "release"}
Passes == [pc : Places, cursor : Nat, all : BOOLEAN, ids : SUBSET Users]
Camps == [st : Statuses, all : BOOLEAN, to : SUBSET Users, cursor : Nat,
          sent : Nat, sentAt : BOOLEAN]

\* Wherever a pass goes with nothing read, its state has its type.
LEMMA ToType ==
  ASSUME TypeOK, NEW w \in Workers, NEW pc \in Places, To(w, pc)
  PROVE  worker' \in [Workers -> Passes]
<1>1. worker \in [Workers -> Passes]
  BY DEF TypeOK, Passes, Places
<1>2. [NoWork EXCEPT !.pc = pc] \in Passes
  BY DEF NoWork, Passes, Places
<1>3. QED
  BY <1>1, <1>2 DEF To

\* A chunk is finite, for there are finitely many users.
LEMMA ChunkFinite ==
  ASSUME NEW S \in SUBSET Users
  PROVE  IsFiniteSet(S) /\ Cardinality(S) \in Nat
BY ConstantsAssumption, FS_Subset, FS_CardinalityType

\* The initial states are well typed.
LEMMA TypeInit == Init => TypeOK
<1> SUFFICES ASSUME Init PROVE TypeOK
  OBVIOUS
<1>1. camp \in Camps
  <2>1. PICK st \in {"DRAFT", "SCHEDULED"}, all \in BOOLEAN, to \in SUBSET Users :
          camp = [Gone EXCEPT !.st = st, !.all = all, !.to = to]
    BY DEF Init
  <2>2. Gone \in Camps /\ st \in Statuses
    BY DEF Gone, Camps, Statuses
  <2>3. QED
    BY <2>1, <2>2 DEF Camps
<1>2. worker \in [Workers -> Passes]
  BY DEF Init, NoWork, Passes, Places
<1>3. QED
  BY <1>1, <1>2 DEF Init, TypeOK, Camps, Passes, Places

\* What the administrator does, and what happens to users, keeps the types.
LEMMA TypeAdmin ==
  ASSUME TypeOK,
         \/ Admin
         \/ \E u \in Users : Deactivate(u) \/ Activate(u)
  PROVE  /\ camp' \in Camps /\ notified' \subseteq Users /\ active' \subseteq Users
         /\ late' \subseteq Users /\ worker' \in [Workers -> Passes]
         /\ lock' \in Workers \cup {None} /\ faults' \in Nat /\ edits' \in Nat
<1>0. camp \in Camps /\ worker \in [Workers -> Passes]
  BY DEF TypeOK, Camps, Passes, Places
<1>1. CASE Update
  <2>1. PICK all \in BOOLEAN, to \in SUBSET active :
          /\ camp' = [camp EXCEPT !.all = all, !.to = to]
          /\ Latecomers(camp', active)
    BY <1>1 DEF Update
  <2>2. camp' \in Camps
    BY <1>0, <2>1 DEF TypeOK, Camps
  <2>3. late' \subseteq Users
    BY <2>1 DEF TypeOK, Latecomers, Recipients
  <2>4. QED
    BY <1>0, <1>1, <2>2, <2>3 DEF TypeOK, Update, Edit
<1>2. CASE Queue
  <2>1. camp' \in Camps
    BY <1>0, <1>2 DEF Queue, Camps, Statuses
  <2>2. QED
    BY <1>0, <1>2, <2>1 DEF TypeOK, Queue
<1>3. CASE Cancel
  <2>1. camp' \in Camps
    BY <1>0, <1>3 DEF Cancel, Camps, Statuses
  <2>2. QED
    BY <1>0, <1>3, <2>1 DEF TypeOK, Cancel
<1>4. CASE Remove
  <2>1. camp' \in Camps
    BY <1>4 DEF Remove, Gone, Camps, Statuses
  <2>2. QED
    BY <1>0, <1>4, <2>1 DEF TypeOK, Remove
<1>5. ASSUME NEW u \in Users, Deactivate(u) PROVE
        /\ camp' \in Camps /\ notified' \subseteq Users /\ active' \subseteq Users
        /\ late' \subseteq Users /\ worker' \in [Workers -> Passes]
        /\ lock' \in Workers \cup {None} /\ faults' \in Nat /\ edits' \in Nat
  BY <1>0, <1>5 DEF TypeOK, Deactivate, Edit
<1>6. ASSUME NEW u \in Users, Activate(u) PROVE
        /\ camp' \in Camps /\ notified' \subseteq Users /\ active' \subseteq Users
        /\ late' \subseteq Users /\ worker' \in [Workers -> Passes]
        /\ lock' \in Workers \cup {None} /\ faults' \in Nat /\ edits' \in Nat
  BY <1>0, <1>6 DEF TypeOK, Activate, Edit, Latecomers, Recipients
<1>7. QED
  BY <1>1, <1>2, <1>3, <1>4, <1>5, <1>6 DEF Admin

\* So does a pass.
LEMMA TypePass ==
  ASSUME TypeOK, NEW w \in Workers, Pass(w)
  PROVE  /\ camp' \in Camps /\ notified' \subseteq Users /\ active' \subseteq Users
         /\ late' \subseteq Users /\ worker' \in [Workers -> Passes]
         /\ lock' \in Workers \cup {None} /\ faults' \in Nat /\ edits' \in Nat
<1>0. camp \in Camps /\ worker \in [Workers -> Passes] /\ worker[w] \in Passes
  BY DEF TypeOK, Camps, Passes, Places
<1>1. CASE Start(w)
  <2>1. [worker[w] EXCEPT !.pc = IF camp.st = "SCHEDULED" THEN "claim"
                                 ELSE "campaign"] \in Passes
    BY <1>0 DEF Passes, Places
  <2>2. worker' \in [Workers -> Passes]
    BY <1>0, <1>1, <2>1 DEF Start
  <2>3. QED
    BY <1>0, <1>1, <2>2 DEF TypeOK, Start
<1>2. CASE Claim(w)
  <2>1. camp' \in Camps
    BY <1>0, <1>2 DEF Claim, Camps, Statuses
  <2>2. worker' \in [Workers -> Passes]
    BY <1>2, ToType DEF Claim, Places
  <2>3. QED
    BY <1>2, <2>1, <2>2 DEF TypeOK, Claim
<1>3. CASE ReadCampaign(w)
  <2>1. [NoWork EXCEPT !.pc = "ids", !.cursor = camp.cursor, !.all = camp.all]
          \in Passes
    BY <1>0 DEF NoWork, Passes, Places, Camps
  <2>2. worker' \in [Workers -> Passes]
    BY <1>0, <1>3, <2>1, ToType DEF ReadCampaign, Places
  <2>3. QED
    BY <1>0, <1>3, <2>2 DEF TypeOK, ReadCampaign
<1>4. CASE ReadIds(w)
  <2>1. Rest(w) \subseteq Users
    BY DEF Rest, Recipients, TypeOK
  <2>2. CASE Rest(w) = {}
    BY <1>0, <1>4, <2>2, ToType DEF TypeOK, ReadIds, Places
  <2>3. CASE Rest(w) # {}
    <3>1. PICK last \in Rest(w) :
            worker' = [worker EXCEPT ![w] =
                         [NoWork EXCEPT !.pc = "chunk", !.cursor = last,
                                        !.ids = {u \in Rest(w) : u <= last}]]
      BY <1>4, <2>3 DEF ReadIds
    <3>2. last \in Nat
      BY <2>1, ConstantsAssumption
    <3>3. [NoWork EXCEPT !.pc = "chunk", !.cursor = last,
                         !.ids = {u \in Rest(w) : u <= last}] \in Passes
      BY <2>1, <3>2 DEF NoWork, Passes, Places
    <3>4. worker' \in [Workers -> Passes]
      BY <1>0, <3>1, <3>3
    <3>5. QED
      BY <1>0, <1>4, <3>4 DEF TypeOK, ReadIds
  <2>4. QED
    BY <2>2, <2>3
<1>5. CASE Complete(w)
  <2>1. camp' \in Camps
    BY <1>0, <1>5 DEF Complete, Camps, Statuses
  <2>2. worker' \in [Workers -> Passes]
    BY <1>5, ToType DEF Complete, Places
  <2>3. QED
    BY <1>5, <2>1, <2>2 DEF TypeOK, Complete
<1>6. CASE Chunk(w)
  <2>1. worker' \in [Workers -> Passes]
    BY <1>6, ToType DEF Chunk, Places
  <2>2. worker[w].ids \subseteq Users /\ worker[w].cursor \in Nat
    BY <1>0 DEF Passes
  <2>3. Cardinality(worker[w].ids \ notified) \in Nat
    BY <2>2, ChunkFinite
  <2>4. camp' \in Camps
    <3>1. camp.sent + Cardinality(worker[w].ids \ notified) \in Nat
      BY <1>0, <2>3 DEF Camps
    <3>2. CASE camp.st = "PROCESSING"
      BY <1>0, <1>6, <2>2, <3>1, <3>2 DEF Chunk, Camps
    <3>3. CASE camp.st # "PROCESSING"
      BY <1>0, <1>6, <3>3 DEF Chunk
    <3>4. QED
      BY <3>2, <3>3
  <2>5. notified' \subseteq Users
    BY <1>6, <2>2 DEF Chunk, TypeOK
  <2>6. QED
    BY <1>6, <2>1, <2>4, <2>5 DEF TypeOK, Chunk
<1>7. CASE MarkFailed(w)
  <2>1. camp' \in Camps
    BY <1>0, <1>7 DEF MarkFailed, Camps, Statuses
  <2>2. worker' \in [Workers -> Passes]
    BY <1>7, ToType DEF MarkFailed, Places
  <2>3. QED
    BY <1>7, <2>1, <2>2 DEF TypeOK, MarkFailed
<1>8. CASE Release(w)
  <2>1. NoWork \in Passes
    BY DEF NoWork, Passes, Places
  <2>2. worker' \in [Workers -> Passes]
    BY <1>0, <1>8, <2>1 DEF Release
  <2>3. QED
    BY <1>0, <1>8, <2>2 DEF TypeOK, Release
<1>9. QED
  BY <1>1, <1>2, <1>3, <1>4, <1>5, <1>6, <1>7, <1>8 DEF Pass

\* Every step keeps the types.
LEMMA TypeStep == TypeOK /\ [Next]_<<vars, env>> => TypeOK'
<1> SUFFICES ASSUME TypeOK, [Next]_<<vars, env>> PROVE TypeOK'
  OBVIOUS
<1>0. camp \in Camps /\ worker \in [Workers -> Passes]
  BY DEF TypeOK, Camps, Passes, Places
<1>1. env' = env
  BY DEF Next, vars
<1>2. ASSUME camp' \in Camps /\ notified' \subseteq Users /\ active' \subseteq Users,
             late' \subseteq Users /\ worker' \in [Workers -> Passes],
             lock' \in Workers \cup {None} /\ faults' \in Nat /\ edits' \in Nat
      PROVE  TypeOK'
  BY <1>1, <1>2 DEF TypeOK, Camps, Passes, Places
<1>3. CASE Admin \/ \E u \in Users : Deactivate(u) \/ Activate(u)
  BY <1>2, <1>3, TypeAdmin
<1>4. ASSUME NEW w \in Workers, Pass(w) PROVE TypeOK'
  BY <1>2, <1>4, TypePass
<1>5. ASSUME NEW w \in Workers, CallFails(w) PROVE TypeOK'
  <2>1. worker' \in [Workers -> Passes]
    BY <1>5, ToType DEF CallFails, Places
  <2>2. QED
    BY <1>0, <1>2, <1>5, <2>1 DEF TypeOK, CallFails, Fault
<1>6. ASSUME NEW w \in Workers, Crash(w) PROVE TypeOK'
  <2>1. NoWork \in Passes
    BY DEF NoWork, Passes, Places
  <2>2. worker' \in [Workers -> Passes]
    BY <1>0, <1>6, <2>1 DEF Crash
  <2>3. QED
    BY <1>0, <1>2, <1>6, <2>2 DEF TypeOK, Crash, Fault
<1>7. CASE LockExpires
  BY <1>0, <1>2, <1>7 DEF TypeOK, LockExpires, Fault
<1>8. CASE UNCHANGED <<vars, env>>
  BY <1>0, <1>2, <1>8 DEF TypeOK, vars
<1>9. QED
  BY <1>3, <1>4, <1>5, <1>6, <1>7, <1>8 DEF Next, Step

\* The variables keep their types.
THEOREM TypeCorrect == Spec => []TypeOK
<1>1. QED
  BY TypeInit, TypeStep, PTL DEF Spec

-----------------------------------------------------------------------------
(* The count *)

\* A campaign that is gone stays so.
LEMMA GoneStays ==
  ASSUME TypeOK, Next, camp.st = "gone"
  PROVE  camp' = camp
<1>1. camp = [camp EXCEPT !.st = camp.st]
  BY DEF TypeOK
<1>2. CASE Admin \/ \E u \in Users : Deactivate(u) \/ Activate(u)
  BY <1>2 DEF Admin, Update, Queue, Cancel, Remove, Deactivate, Activate
<1>3. ASSUME NEW w \in Workers, Pass(w) PROVE camp' = camp
  BY <1>1, <1>3 DEF Pass, Start, Claim, ReadCampaign, ReadIds, Complete, Chunk,
                    MarkFailed, Release
<1>4. ASSUME NEW w \in Workers, CallFails(w) \/ Crash(w) PROVE camp' = camp
  BY <1>4 DEF CallFails, Crash
<1>5. CASE LockExpires
  BY <1>5 DEF LockExpires
<1>6. QED
  BY <1>2, <1>3, <1>4, <1>5 DEF Next, Step

\* Every step that leaves the campaign there and is no chunk leaves the count
\* and the notifications alone.
LEMMA SameCount ==
  ASSUME TypeOK, Next, camp'.st # "gone",
         ~ \E w \in Workers : Chunk(w)
  PROVE  camp'.sent = camp.sent /\ notified' = notified
<1>1. CASE Admin \/ \E u \in Users : Deactivate(u) \/ Activate(u)
  <2>1. CASE Update
    BY <2>1 DEF Update, TypeOK
  <2>2. CASE Queue \/ Cancel
    BY <2>2 DEF Queue, Cancel, TypeOK
  <2>3. CASE Remove
    BY <2>3 DEF Remove, Gone
  <2>4. ASSUME NEW u \in Users, Deactivate(u) \/ Activate(u)
        PROVE  camp'.sent = camp.sent /\ notified' = notified
    BY <2>4 DEF Deactivate, Activate
  <2>5. QED
    BY <1>1, <2>1, <2>2, <2>3, <2>4 DEF Admin
<1>2. ASSUME NEW w \in Workers, Pass(w)
      PROVE  camp'.sent = camp.sent /\ notified' = notified
  BY <1>2 DEF Pass, Start, Claim, ReadCampaign, ReadIds, Complete, MarkFailed,
              Release, TypeOK
<1>3. ASSUME NEW w \in Workers, CallFails(w) \/ Crash(w)
      PROVE  camp'.sent = camp.sent /\ notified' = notified
  BY <1>3 DEF CallFails, Crash
<1>4. CASE LockExpires
  BY <1>4 DEF LockExpires
<1>5. QED
  BY <1>1, <1>2, <1>3, <1>4 DEF Next, Step

\* SentIsNotified is inductive.
LEMMA SentStep ==
  ASSUME TypeOK, SentIsNotified, [Next]_<<vars, env>>
  PROVE  SentIsNotified'
<1>1. TypeOK'
  BY TypeStep
<1> SUFFICES ASSUME camp'.st # "gone"
             PROVE  camp'.sent = Cardinality(notified')
  BY <1>1 DEF SentIsNotified
<1>2. CASE UNCHANGED <<vars, env>>
  BY <1>2 DEF vars, SentIsNotified
<1>3. CASE Next /\ ~ \E w \in Workers : Chunk(w)
  <2>1. camp.st # "gone"
    BY <1>3, GoneStays
  <2>2. QED
    BY <1>3, <2>1, SameCount DEF SentIsNotified
<1>4. ASSUME NEW w \in Workers, Chunk(w)
      PROVE  camp'.sent = Cardinality(notified')
  <2>1. CASE camp.st = "PROCESSING"
    <3> DEFINE new == worker[w].ids \ notified
    <3>1. worker[w].ids \subseteq Users
      BY DEF TypeOK
    <3>2. /\ IsFiniteSet(notified) /\ IsFiniteSet(new)
          /\ Cardinality(notified) \in Nat /\ Cardinality(new) \in Nat
      BY <3>1, ChunkFinite DEF TypeOK
    <3>3. notified' = notified \cup new
      BY <1>4, <2>1 DEF Chunk
    <3>4. camp'.sent = camp.sent + Cardinality(new)
      BY <1>4, <2>1 DEF Chunk, TypeOK
    <3>5. Cardinality(notified \cup new) = Cardinality(notified) + Cardinality(new)
      <4>1. notified \cap new = {}
        OBVIOUS
      <4>2. Cardinality(notified \cap new) = 0
        BY <4>1, FS_EmptySet
      <4>3. Cardinality(notified \cup new) =
              Cardinality(notified) + Cardinality(new) - Cardinality(notified \cap new)
        <5> HIDE DEF new
        <5>1. QED
          BY <3>2, FS_Union
      <4>4. QED
        BY <3>2, <4>2, <4>3
    <3>6. camp.sent = Cardinality(notified)
      BY <2>1 DEF SentIsNotified
    <3>7. QED
      BY <3>3, <3>4, <3>5, <3>6
  <2>2. CASE camp.st # "PROCESSING"
    BY <1>4, <2>2 DEF Chunk, SentIsNotified
  <2>3. QED
    BY <2>1, <2>2
<1>5. QED
  BY <1>2, <1>3, <1>4

\* sentCount is the number of people notified, for any number of overlapping
\* passes and any size of a chunk.
THEOREM SentIsCounted == Spec => []SentIsNotified
<1>1. Init => SentIsNotified
  <2> SUFFICES ASSUME Init PROVE SentIsNotified
    OBVIOUS
  <2>1. camp.sent = 0
    BY DEF Init, Gone
  <2>2. Cardinality(notified) = 0
    BY FS_EmptySet DEF Init
  <2>3. QED
    BY <2>1, <2>2, TypeInit DEF SentIsNotified
<1>2. TypeOK /\ SentIsNotified /\ [Next]_<<vars, env>> => SentIsNotified'
  BY SentStep
<1>3. QED
  BY <1>1, <1>2, TypeCorrect, PTL DEF Spec

-----------------------------------------------------------------------------
(* The end *)

\* No step of anybody notifies a user of a campaign that was cancelled or is
\* complete, or gives it another status than gone.
LEMMA EndStep ==
  ASSUME TypeOK, Next, camp.st \in {"CANCELLED", "COMPLETED"}
  PROVE  camp'.st = "gone" \/ (camp'.st = camp.st /\ notified' = notified)
<1>1. CASE Admin \/ \E u \in Users : Deactivate(u) \/ Activate(u)
  <2>1. CASE Update
    BY <2>1 DEF Update
  <2>2. CASE Queue \/ Cancel
    BY <2>2 DEF Queue, Cancel
  <2>3. CASE Remove
    BY <2>3 DEF Remove, Gone
  <2>4. ASSUME NEW u \in Users, Deactivate(u) \/ Activate(u)
        PROVE  camp'.st = camp.st /\ notified' = notified
    BY <2>4 DEF Deactivate, Activate
  <2>5. QED
    BY <1>1, <2>1, <2>2, <2>3, <2>4 DEF Admin
<1>2. ASSUME NEW w \in Workers, Pass(w)
      PROVE  camp'.st = camp.st /\ notified' = notified
  BY <1>2 DEF Pass, Start, Claim, ReadCampaign, ReadIds, Complete, Chunk,
              MarkFailed, Release, TypeOK
<1>3. ASSUME NEW w \in Workers, CallFails(w) \/ Crash(w)
      PROVE  camp'.st = camp.st /\ notified' = notified
  BY <1>3 DEF CallFails, Crash
<1>4. CASE LockExpires
  BY <1>4 DEF LockExpires
<1>5. QED
  BY <1>1, <1>2, <1>3, <1>4 DEF Next, Step

\* A campaign that was cancelled, or is complete, sends nothing more.
THEOREM Ended == Spec => EndsForGood
<1>1. TypeOK /\ [Next]_<<vars, env>> =>
        [camp.st \in {"CANCELLED", "COMPLETED"} =>
           \/ camp'.st = "gone"
           \/ camp'.st = camp.st /\ notified' = notified]_vars
  <2> SUFFICES ASSUME TypeOK, [Next]_<<vars, env>>
               PROVE  [camp.st \in {"CANCELLED", "COMPLETED"} =>
                         \/ camp'.st = "gone"
                         \/ camp'.st = camp.st /\ notified' = notified]_vars
    OBVIOUS
  <2>1. CASE Next
    BY <2>1, EndStep
  <2>2. CASE UNCHANGED <<vars, env>>
    BY <2>2
  <2>3. QED
    BY <2>1, <2>2
<1>2. QED
  BY <1>1, TypeCorrect, PTL DEF Spec, EndsForGood

-----------------------------------------------------------------------------
(* Completion *)

\* A claimed campaign never owes more people than before; and when its target
\* type changes, it owes nobody.
LEMMA TargetShrinks ==
  ASSUME TypeOK, Step, camp.sentAt, camp'.sentAt
  PROVE  /\ Target' \subseteq Target
         /\ camp'.all = camp.all \/ Target' = {}
         /\ notified \subseteq notified'
<1>1. CASE Update
  <2>1. /\ camp' = [camp EXCEPT !.all = camp'.all, !.to = camp'.to]
        /\ Latecomers(camp', active) /\ active' = active /\ notified' = notified
    BY <1>1 DEF Update, TypeOK
  <2>2. late' = late \cup (IF camp'.all = camp.all
                           THEN Recipients(camp', active) \ Audience
                           ELSE Recipients(camp', active))
    BY <2>1 DEF Latecomers
  <2>3. Target' = Recipients(camp', active) \ late'
    BY <2>1 DEF Target, Audience, Recipients
  <2>4. QED
    BY <2>1, <2>2, <2>3 DEF Target
<1>2. ASSUME NEW u \in Users, Activate(u)
      PROVE  /\ Target' \subseteq Target /\ camp'.all = camp.all
             /\ notified \subseteq notified'
  <2>1. /\ late' = late \cup (Recipients(camp, active') \ Audience)
        /\ camp' = camp /\ notified' = notified
    BY <1>2 DEF Activate, Latecomers
  <2>2. Target' = Recipients(camp, active') \ late'
    BY <2>1 DEF Target, Audience, Recipients
  <2>3. QED
    BY <2>1, <2>2 DEF Target
<1>3. ASSUME NEW u \in Users, Deactivate(u)
      PROVE  /\ Target' \subseteq Target /\ camp'.all = camp.all
             /\ notified \subseteq notified'
  BY <1>3 DEF Deactivate, Target, Audience, Recipients
<1>4. ASSUME camp'.all = camp.all, camp'.to = camp.to, active' = active,
             late' = late, notified \subseteq notified'
      PROVE  /\ Target' \subseteq Target /\ camp'.all = camp.all
             /\ notified \subseteq notified'
  BY <1>4 DEF Target, Audience, Recipients
<1>5. CASE Queue \/ Cancel
  BY <1>4, <1>5 DEF Queue, Cancel, TypeOK
<1>6. CASE Remove
  BY <1>6 DEF Remove, Gone
<1>7. ASSUME NEW w \in Workers, Pass(w)
      PROVE  /\ Target' \subseteq Target /\ camp'.all = camp.all
             /\ notified \subseteq notified'
  <2>1. active' = active /\ late' = late
    BY <1>7 DEF Pass, Start, Claim, ReadCampaign, ReadIds, Complete, Chunk,
                MarkFailed, Release
  <2>2. camp'.all = camp.all /\ camp'.to = camp.to
    BY <1>7 DEF Pass, Start, Claim, ReadCampaign, ReadIds, Complete, Chunk,
                MarkFailed, Release, TypeOK
  <2>3. notified \subseteq notified'
    BY <1>7 DEF Pass, Start, Claim, ReadCampaign, ReadIds, Complete, Chunk,
                MarkFailed, Release
  <2>4. QED
    BY <1>4, <2>1, <2>2, <2>3
<1>8. ASSUME NEW w \in Workers, CallFails(w) \/ Crash(w)
      PROVE  /\ Target' \subseteq Target /\ camp'.all = camp.all
             /\ notified \subseteq notified'
  BY <1>4, <1>8 DEF CallFails, Crash
<1>9. CASE LockExpires
  BY <1>4, <1>9 DEF LockExpires
<1>10. QED
  BY <1>1, <1>2, <1>3, <1>5, <1>6, <1>7, <1>8, <1>9 DEF Step, Admin

\* What a pass holds stays right while it does nothing.
LEMMA PassKept ==
  ASSUME NEW w \in Workers, PassOK(w), worker'[w] = worker[w],
         Target' \subseteq Target, notified \subseteq notified',
         camp'.all = camp.all \/ Target' = {}
  PROVE  PassOK(w)'
<1>1. \A c : UpTo(c)' \subseteq UpTo(c)
  BY DEF UpTo
<1>2. QED
  BY <1>1 DEF PassOK

\* The administrator resets nothing but a campaign that is removed.
LEMMA AdminCamp ==
  ASSUME TypeOK, Admin
  PROVE  \/ ~camp'.sentAt /\ camp'.st = "gone"
         \/ /\ camp'.sentAt = camp.sentAt /\ camp'.cursor = camp.cursor
            /\ camp.st # "gone"
            /\ camp'.st = camp.st \/ camp'.st \in {"SCHEDULED", "CANCELLED"}
<1>0. camp \in Camps
  BY DEF TypeOK, Camps
<1>1. CASE Update
  <2>1. PICK all \in BOOLEAN, to \in SUBSET active :
          camp' = [camp EXCEPT !.all = all, !.to = to]
    BY <1>1 DEF Update
  <2>2. /\ camp'.sentAt = camp.sentAt /\ camp'.cursor = camp.cursor
        /\ camp'.st = camp.st
    BY <1>0, <2>1 DEF Camps
  <2>3. QED
    BY <1>1, <2>2 DEF Update
<1>2. CASE Queue
  BY <1>0, <1>2 DEF Queue, Camps
<1>3. CASE Cancel
  BY <1>0, <1>3 DEF Cancel, Camps
<1>4. CASE Remove
  BY <1>4 DEF Remove, Gone
<1>5. QED
  BY <1>1, <1>2, <1>3, <1>4 DEF Admin

\* NotBegun and BegunIsSet are inductive together.
LEMMA BeginStep ==
  ASSUME TypeOK, NotBegun, BegunIsSet, Next
  PROVE  NotBegun' /\ BegunIsSet'
<1> DEFINE Quiet(pc) == pc \in {"idle", "claim", "release", "failed"}
<1>0. /\ worker \in [Workers -> Passes]
      /\ camp.sentAt \in BOOLEAN
  BY DEF TypeOK, Passes, Places
<1>1. CASE Admin \/ \E u \in Users : Deactivate(u) \/ Activate(u)
  <2>1. worker' = worker
    BY <1>1 DEF Admin, Update, Queue, Cancel, Remove, Deactivate, Activate
  <2>2. CASE Admin
    BY <2>1, <2>2, AdminCamp DEF NotBegun, BegunIsSet
  <2>3. CASE \E u \in Users : Deactivate(u) \/ Activate(u)
    <3>1. camp' = camp
      BY <2>3 DEF Deactivate, Activate
    <3>2. QED
      BY <2>1, <3>1 DEF NotBegun, BegunIsSet
  <2>4. QED
    BY <1>1, <2>2, <2>3
<1>2. ASSUME NEW w \in Workers, Pass(w) \/ CallFails(w) \/ Crash(w)
      PROVE  NotBegun' /\ BegunIsSet'
  <2>1. CASE Claim(w) /\ camp.st = "SCHEDULED"
    BY <2>1 DEF Claim, NotBegun, BegunIsSet, TypeOK
  <2>2. CASE ~(Claim(w) /\ camp.st = "SCHEDULED")
    <3>1. camp'.sentAt = camp.sentAt
      BY <1>2, <2>2 DEF Pass, Start, Claim, ReadCampaign, ReadIds, Complete,
           Chunk, MarkFailed, Release, CallFails, Crash, TypeOK
    <3>2. camp'.st = camp.st \/ (camp.st = "PROCESSING" /\ camp'.st # "gone")
      BY <1>2, <2>2 DEF Pass, Start, Claim, ReadCampaign, ReadIds, Complete,
           Chunk, MarkFailed, Release, CallFails, Crash, TypeOK
    <3>3. BegunIsSet'
      BY <3>1, <3>2 DEF BegunIsSet
    <3>4. ASSUME ~camp'.sentAt, camp'.st # "gone"
          PROVE  /\ camp'.cursor = 0
                 /\ \A v \in Workers : Quiet(worker'[v].pc)
      <4>1. /\ camp.cursor = 0 /\ camp.st # "PROCESSING"
            /\ \A v \in Workers : Quiet(worker[v].pc)
        BY <3>1, <3>2, <3>4 DEF NotBegun, BegunIsSet
      <4>2. camp'.cursor = camp.cursor
        BY <1>2, <2>2, <4>1 DEF Pass, Start, Claim, ReadCampaign, ReadIds,
             Complete, Chunk, MarkFailed, Release, CallFails, Crash, TypeOK
      <4>3. \E pc \in {"idle", "claim", "release", "failed"} :
              \/ worker' = [worker EXCEPT ![w].pc = pc]
              \/ worker' = [worker EXCEPT ![w] = [NoWork EXCEPT !.pc = pc]]
              \/ worker' = [worker EXCEPT ![w] = NoWork]
        <5>1. ~ReadCampaign(w) /\ ~ReadIds(w) /\ ~Complete(w) /\ ~Chunk(w)
          BY <4>1 DEF ReadCampaign, ReadIds, Complete, Chunk
        <5>2. CASE Start(w)
          BY <4>1, <5>2 DEF Start
        <5>3. CASE Claim(w)
          BY <2>2, <5>3 DEF Claim, To
        <5>4. CASE MarkFailed(w)
          BY <5>4 DEF MarkFailed, To
        <5>5. CASE Release(w) \/ Crash(w)
          BY <5>5 DEF Release, Crash
        <5>6. CASE CallFails(w)
          BY <5>6 DEF CallFails, To
        <5>7. QED
          BY <1>2, <5>1, <5>2, <5>3, <5>4, <5>5, <5>6 DEF Pass
      <4>4. Quiet(worker'[w].pc)
        BY <1>0, <4>3 DEF NoWork, Passes
      <4>5. \A v \in Workers : v # w => worker'[v] = worker[v]
        BY <1>0, <4>3
      <4>6. QED
        BY <4>1, <4>2, <4>4, <4>5
    <3>5. QED
      BY <3>3, <3>4 DEF NotBegun
  <2>3. QED
    BY <2>1, <2>2
<1>3. CASE LockExpires
  BY <1>3 DEF LockExpires, NotBegun, BegunIsSet
<1>4. QED
  BY <1>1, <1>2, <1>3 DEF Next, Step

\* A pass that has read the campaign and its recipients knows what is left.
LEMMA ReadingOK ==
  ASSUME TypeOK, Reached, camp.sentAt, NEW w \in Workers,
         ReadCampaign(w) \/ ReadIds(w)
  PROVE  PassOK(w)'
<1>0. worker \in [Workers -> Passes] /\ PassOK(w)
  BY DEF TypeOK, Passes, Places, Reached
<1>1. UNCHANGED <<Target, notified, camp.all>> /\ \A c : UpTo(c)' = UpTo(c)
  BY DEF ReadCampaign, ReadIds, Target, Audience, Recipients, UpTo
<1>2. CASE ReadCampaign(w)
  <2>1. CASE camp.st = "PROCESSING"
    <3>1. worker'[w].pc = "ids" /\ worker'[w].cursor = camp.cursor
            /\ worker'[w].all = camp.all
      BY <1>0, <1>2, <2>1 DEF ReadCampaign, NoWork
    <3>2. UpTo(camp.cursor) \subseteq notified
      BY DEF Reached
    <3>3. QED
      BY <1>1, <3>1, <3>2 DEF PassOK
  <2>2. CASE camp.st # "PROCESSING"
    <3>1. worker'[w].pc = "release"
      BY <1>0, <1>2, <2>2 DEF ReadCampaign, To, NoWork
    <3>2. QED
      BY <3>1 DEF PassOK
  <2>3. QED
    BY <2>1, <2>2
<1>3. CASE ReadIds(w)
  <2> DEFINE k == worker[w]
  <2>1. UpTo(k.cursor) \subseteq notified /\ (camp.all /\ ~k.all => Target = {})
    BY <1>0, <1>3 DEF ReadIds, PassOK
  <2>2. Target \subseteq notified \cup Rest(w)
    <3>1. ASSUME NEW u \in Target, u \notin notified PROVE u \in Rest(w)
      <4>1. u \in active /\ (camp.all \/ u \in camp.to)
        BY DEF Target, Audience, Recipients
      <4>2. k.all \/ u \in camp.to
        BY <2>1, <4>1
      <4>3. ~(u <= k.cursor)
        BY <2>1, <3>1 DEF UpTo
      <4>4. u \in Nat /\ k.cursor \in Nat
        BY <1>0, <4>1, ConstantsAssumption DEF TypeOK, Passes
      <4>5. u \in Recipients([camp EXCEPT !.all = k.all], active)
        BY <4>1, <4>2 DEF Recipients, TypeOK
      <4>6. QED
        BY <4>3, <4>4, <4>5 DEF Rest
    <3>2. QED
      BY <3>1
  <2>3. CASE Rest(w) = {}
    <3>1. worker'[w].pc = "complete"
      BY <1>0, <1>3, <2>3 DEF ReadIds, To, NoWork
    <3>2. QED
      BY <1>1, <2>2, <2>3, <3>1 DEF PassOK
  <2>4. CASE Rest(w) # {}
    <3>1. PICK last \in Rest(w) :
            worker' = [worker EXCEPT ![w] =
                         [NoWork EXCEPT !.pc = "chunk", !.cursor = last,
                                        !.ids = {u \in Rest(w) : u <= last}]]
      BY <1>3, <2>4 DEF ReadIds
    <3>2. /\ worker'[w].pc = "chunk" /\ worker'[w].cursor = last
          /\ worker'[w].ids = {u \in Rest(w) : u <= last}
      BY <1>0, <3>1 DEF NoWork
    <3>3. UpTo(last) \subseteq notified \cup {u \in Rest(w) : u <= last}
      BY <2>2 DEF UpTo
    <3>4. QED
      BY <1>1, <3>2, <3>3 DEF PassOK
  <2>5. QED
    BY <2>3, <2>4
<1>4. QED
  BY <1>2, <1>3

\* After every step, what each pass holds is right.
LEMMA PassesOK ==
  ASSUME TypeOK, BegunIsSet, Reached, Step, camp.sentAt, camp'.sentAt,
         NEW v \in Workers
  PROVE  PassOK(v)'
<1>0. worker \in [Workers -> Passes] /\ PassOK(v)
  BY DEF TypeOK, Passes, Places, Reached
<1>1. CASE worker'[v] = worker[v]
  BY <1>0, <1>1, TargetShrinks, PassKept
<1>2. ASSUME worker'[v].pc \notin {"ids", "chunk", "complete"} PROVE PassOK(v)'
  BY <1>2 DEF PassOK
<1>3. ASSUME NEW w \in Workers, Pass(w) PROVE PassOK(v)'
  <2>1. CASE v # w
    <3>1. worker'[v] = worker[v]
      BY <1>0, <1>3, <2>1 DEF Pass, Start, Claim, ReadCampaign, ReadIds, Complete,
                              Chunk, MarkFailed, Release, To
    <3>2. QED
      BY <1>1, <3>1
  <2>2. CASE v = w /\ (ReadCampaign(v) \/ ReadIds(v))
    BY <2>2, ReadingOK
  <2>3. CASE v = w /\ Start(v)
    <3>1. worker'[v].pc \in {"claim", "campaign"}
      BY <1>0, <2>3 DEF Start, Passes
    <3>2. QED
      BY <1>2, <3>1
  <2>4. CASE v = w /\ ~Start(v) /\ ~ReadCampaign(v) /\ ~ReadIds(v)
    <3>1. worker'[v].pc \in {"campaign", "release", "failed", "idle"}
      BY <1>0, <1>3, <2>4 DEF Pass, Claim, Complete, Chunk, MarkFailed, Release,
                              To, NoWork
    <3>2. QED
      BY <1>2, <3>1
  <2>5. QED
    BY <1>3, <2>1, <2>2, <2>3, <2>4
<1>4. ASSUME NEW w \in Workers, CallFails(w) \/ Crash(w) PROVE PassOK(v)'
  <2>1. CASE v # w
    <3>1. worker'[v] = worker[v]
      BY <1>0, <1>4, <2>1 DEF CallFails, Crash, To
    <3>2. QED
      BY <1>1, <3>1
  <2>2. CASE v = w
    <3>1. worker'[v].pc \in {"release", "failed", "idle"}
      BY <1>0, <1>4, <2>2 DEF CallFails, Crash, To, NoWork
    <3>2. QED
      BY <1>2, <3>1
  <2>3. QED
    BY <2>1, <2>2
<1>5. CASE Admin \/ LockExpires \/ \E u \in Users : Deactivate(u) \/ Activate(u)
  <2>1. worker' = worker
    BY <1>5 DEF Admin, Update, Queue, Cancel, Remove, LockExpires, Deactivate,
                Activate
  <2>2. QED
    BY <1>1, <2>1
<1>6. QED
  BY <1>3, <1>4, <1>5 DEF Step

\* The cursor of the campaign moves only with the chunk that justifies it.
LEMMA CursorOK ==
  ASSUME TypeOK, Reached, Step, camp.sentAt, camp'.sentAt
  PROVE  UpTo(camp.cursor)' \subseteq notified'
<1>0. worker \in [Workers -> Passes]
  BY DEF TypeOK, Passes, Places
<1>1. /\ UpTo(camp.cursor)' = {u \in Target' : u <= camp'.cursor}
      /\ Target' \subseteq Target /\ notified \subseteq notified'
  BY TargetShrinks DEF UpTo
<1>2. CASE camp'.cursor = camp.cursor
  BY <1>1, <1>2 DEF Reached, UpTo
<1>3. ASSUME NEW w \in Workers, Chunk(w), camp.st = "PROCESSING"
      PROVE  UpTo(camp.cursor)' \subseteq notified'
  <2>1. camp'.cursor = worker[w].cursor /\ notified' = notified \cup worker[w].ids
    BY <1>3 DEF Chunk, TypeOK
  <2>2. UpTo(worker[w].cursor) \subseteq notified \cup worker[w].ids
    BY <1>3 DEF Chunk, Reached, PassOK
  <2>3. QED
    BY <1>1, <2>1, <2>2 DEF UpTo
<1>4. ASSUME ~ \E w \in Workers : Chunk(w) /\ camp.st = "PROCESSING"
      PROVE  camp'.cursor = camp.cursor
  <2>1. CASE Admin
    BY <2>1, AdminCamp
  <2>2. CASE LockExpires \/ \E u \in Users : Deactivate(u) \/ Activate(u)
    BY <2>2 DEF LockExpires, Deactivate, Activate
  <2>3. ASSUME NEW w \in Workers, Pass(w) \/ CallFails(w) \/ Crash(w)
        PROVE  camp'.cursor = camp.cursor
    BY <1>4, <2>3 DEF Pass, Start, Claim, ReadCampaign, ReadIds, Complete, Chunk,
                      MarkFailed, Release, CallFails, Crash, TypeOK
  <2>4. QED
    BY <2>1, <2>2, <2>3 DEF Step
<1>5. QED
  BY <1>2, <1>3, <1>4

\* A campaign becomes COMPLETED only by a pass that has found nobody left.
LEMMA DoneOK ==
  ASSUME TypeOK, Reached, Step, camp.sentAt, camp'.sentAt, camp'.st = "COMPLETED"
  PROVE  Target' \subseteq notified'
<1>1. CASE camp.st = "COMPLETED"
  BY <1>1, TargetShrinks DEF Reached
<1>2. ASSUME NEW w \in Workers, Complete(w) PROVE Target' \subseteq notified'
  <2>1. Target \subseteq notified
    BY <1>2 DEF Complete, Reached, PassOK
  <2>2. QED
    BY <2>1, TargetShrinks
<1>3. ASSUME ~ \E w \in Workers : Complete(w) PROVE camp.st = "COMPLETED"
  <2>1. CASE Admin
    BY <2>1, AdminCamp
  <2>2. CASE LockExpires \/ \E u \in Users : Deactivate(u) \/ Activate(u)
    BY <2>2 DEF LockExpires, Deactivate, Activate
  <2>3. ASSUME NEW w \in Workers, Pass(w) \/ CallFails(w) \/ Crash(w)
        PROVE  camp.st = "COMPLETED"
    BY <1>3, <2>3 DEF Pass, Start, Claim, ReadCampaign, ReadIds, Chunk,
                      MarkFailed, Release, CallFails, Crash, TypeOK
  <2>4. QED
    BY <2>1, <2>2, <2>3 DEF Step
<1>4. QED
  BY <1>1, <1>2, <1>3

\* The first claim: nobody has been passed over yet, and no pass holds anything.
LEMMA ClaimOK ==
  ASSUME TypeOK, NotBegun, Step, ~camp.sentAt, camp'.sentAt
  PROVE  Reached'
<1>0. worker \in [Workers -> Passes]
  BY DEF TypeOK, Passes, Places
<1>1. PICK w \in Workers : Claim(w) /\ camp.st = "SCHEDULED"
  <2>1. CASE Admin
    BY <2>1, AdminCamp
  <2>2. CASE LockExpires \/ \E u \in Users : Deactivate(u) \/ Activate(u)
    BY <2>2 DEF LockExpires, Deactivate, Activate
  <2>3. ASSUME NEW w \in Workers, Pass(w) \/ CallFails(w) \/ Crash(w)
        PROVE  Claim(w) /\ camp.st = "SCHEDULED"
    BY <2>3 DEF Pass, Start, Claim, ReadCampaign, ReadIds, Complete, Chunk,
                MarkFailed, Release, CallFails, Crash, TypeOK
  <2>4. QED
    BY <2>1, <2>2, <2>3 DEF Step
<1>2. camp'.cursor = 0 /\ camp'.st = "PROCESSING"
  BY <1>1 DEF Claim, NotBegun, TypeOK
<1>3. UpTo(0)' = {}
  <2>1. Target' \subseteq Users
    BY <1>1 DEF Claim, Target, Audience, Recipients, TypeOK
  <2>2. \A u \in Users : ~(u <= 0)
    BY ConstantsAssumption
  <2>3. UpTo(0)' = {u \in Target' : u <= 0}
    BY DEF UpTo
  <2>4. QED
    BY <2>1, <2>2, <2>3
<1>4. \A v \in Workers : worker'[v].pc \in {"idle", "claim", "release", "failed",
                                            "campaign"}
  BY <1>0, <1>1 DEF Claim, To, NoWork, NotBegun
<1>5. \A v \in Workers : PassOK(v)'
  BY <1>4 DEF PassOK
<1>6. QED
  BY <1>2, <1>3, <1>5 DEF Reached

\* Reached is preserved.
LEMMA ReachedStep ==
  ASSUME TypeOK, NotBegun, BegunIsSet, Reached, Step
  PROVE  Reached'
<1>1. CASE camp.sentAt /\ camp'.sentAt
  <2>1. \A v \in Workers : PassOK(v)'
    BY <1>1, PassesOK
  <2>2. UpTo(camp.cursor)' \subseteq notified'
    BY <1>1, CursorOK
  <2>3. camp'.st = "COMPLETED" => Target' \subseteq notified'
    BY <1>1, DoneOK
  <2>4. QED
    BY <2>1, <2>2, <2>3 DEF Reached
<1>2. CASE ~camp.sentAt /\ camp'.sentAt
  BY <1>2, ClaimOK
<1>3. CASE ~camp'.sentAt
  BY <1>3 DEF Reached
<1>4. QED
  BY <1>1, <1>2, <1>3

\* The inductive invariant.
THEOREM Invariance == Spec => []IInv
<1>1. Init => IInv
  <2> SUFFICES ASSUME Init PROVE IInv
    OBVIOUS
  <2>1. ~camp.sentAt /\ camp.cursor = 0 /\ camp.st \in {"DRAFT", "SCHEDULED"}
    BY DEF Init, Gone
  <2>2. \A w \in Workers : worker[w].pc = "idle"
    BY DEF Init, NoWork
  <2>3. QED
    BY <2>1, <2>2, TypeInit DEF IInv, NotBegun, BegunIsSet, Reached
<1>2. IInv /\ [Next]_<<vars, env>> => IInv'
  <2> SUFFICES ASSUME IInv, [Next]_<<vars, env>> PROVE IInv'
    OBVIOUS
  <2>1. TypeOK'
    BY TypeStep DEF IInv
  <2>2. CASE Next
    <3>1. NotBegun' /\ BegunIsSet'
      BY <2>2, BeginStep DEF IInv
    <3>2. Reached'
      BY <2>2, ReachedStep DEF IInv, Next
    <3>3. QED
      BY <2>1, <3>1, <3>2 DEF IInv
  <2>3. CASE UNCHANGED <<vars, env>>
    BY <2>1, <2>3 DEF IInv, vars, NotBegun, BegunIsSet, Reached, PassOK, UpTo,
                      Target, Audience, Recipients
  <2>4. QED
    BY <2>2, <2>3
<1>3. QED
  BY <1>1, <1>2, PTL DEF Spec

\* A campaign that says it is complete has reached every active recipient that
\* it owes a notification since its first claim.
THEOREM CompletionIsComplete == Spec => []CompletedMeansAll
<1>1. IInv => CompletedMeansAll
  BY DEF IInv, BegunIsSet, Reached, Target, CompletedMeansAll
<1>2. QED
  BY <1>1, Invariance, PTL
=============================================================================
