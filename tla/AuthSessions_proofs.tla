------------------------- MODULE AuthSessions_proofs -------------------------
(***************************************************************************)
(* Proofs about AuthSessions, for any number of sessions, requests,        *)
(* workers, streams, generations and faults.                               *)
(***************************************************************************)
EXTENDS AuthSessions, TLAPS

(* The inductive invariant: what is below, and the invariants of the run. *)

\* Nothing is of a later generation than the user; what is to be revoked is
\* of an earlier one.
Generations ==
  /\ user.cred <= user.gen
  /\ fence <= user.gen
  /\ tasks \subseteq 1..user.gen - 1
  /\ \A s \in Sids : sess[s].gen <= user.gen /\ (Live(s) => sess[s].gen > 0)
  /\ \A q \in Reqs :
       /\ req[q].gen <= user.gen
       /\ req[q].pc \in {"verified", "restore", "undelete", "create",
                         "refresh", "rotate"} => req[q].gen > 0
  /\ \A w \in Workers :
       /\ work[w].pc # "idle" => work[w].gen \in 1..user.gen - 1
       /\ work[w].queue \subseteq 1..user.gen - 1
  /\ \A c \in Conns : conn[c].gen <= user.gen

\* While the generation that a sign-in or a refresh has read is the user's,
\* what it has checked about the user still holds.
ChecksHold ==
  \A q \in Reqs : req[q].gen = user.gen =>
    /\ req[q].pc \in {"verified", "restore", "undelete", "create", "refresh",
                      "rotate"} => req[q].cred = user.cred
    /\ req[q].pc \in {"restore", "undelete", "create", "rotate"} => user.active
    /\ req[q].pc \in {"create", "rotate"} => ~user.deleted

\* UsableIsEntitled, without the types.
Entitled ==
  \A s \in Sids :
    Live(s) /\ sess[s].gen = user.gen =>
      user.active /\ ~user.deleted /\ sess[s].cred = user.cred

\* A revocation past its first step has raised the fence above its task; of
\* the sessions it has to end, those that are left are in its list.
WorkIsFenced ==
  \A w \in Workers :
    /\ work[w].pc \in {"list", "delete", "publish", "finish"} => fence > work[w].gen
    /\ \A s \in Sids :
         Live(s) /\ sess[s].gen <= work[w].gen /\ sess[s].at <= work[w].gen =>
           /\ work[w].pc = "delete" => s \in work[w].todo
           /\ work[w].pc \notin {"publish", "finish"}

\* A stream of a revoked session, unless a signal has overtaken it, is closed
\* by a signal under way, or by that of a task nobody is about to delete.
SignalIsDue ==
  "lost" \notin env =>
    \A c \in Conns :
      conn[c].pc # "closed" /\ ~conn[c].raced /\ conn[c].gen < user.gen =>
        \/ signals > 0
        \/ /\ conn[c].gen \in tasks
           /\ \A w \in Workers : work[w].pc = "finish" => work[w].gen # conn[c].gen

IInv ==
  /\ TypeOK /\ Generations
  /\ ChecksHold /\ Entitled
  /\ WorkIsFenced /\ SettledIsFenced
  /\ SignalIsDue

-----------------------------------------------------------------------------
(* The next-state relation, cut for the case analyses. *)

\* A request that leaves the sessions alone.
ReqActs(q) ==
  \/ Login(q) \/ FreshUser(q) \/ RestoreRead(q) \/ RestoreWrite(q) \/ GetSession(q)
  \/ Refresh(q) \/ Logout(q) \/ AdminRead(q) \/ RestoreUser(q) \/ Activate(q)

\* A revocation between two tasks.
Between(w) == HandleCron(w) \/ Retry(w) \/ GiveUp(w) \/ CallFails(w)

\* A revocation that works on its task.
Works(w) ==
  SetFence(w) \/ ListSessions(w) \/ DeleteSessions(w) \/ DeleteSessionsFails(w)

ConnActs(c) ==
  CheckMinGeneration(c) \/ IsAuthSessionActive(c) \/ Register(c) \/ Disconnect(c)

LEMMA Acts ==
  ASSUME Step
  PROVE  \/ \E q \in Reqs : ReqActs(q) \/ CreateSession(q) \/ RevokeSession(q)
         \/ \E w \in Workers : \/ Operation(w) \/ Between(w) \/ Works(w)
                               \/ PublishOrThrow(w) \/ FinishTask(w)
         \/ \E c \in Conns : ConnActs(c)
         \/ LockExpires \/ Crash \/ EvictUser \/ SignalLost
BY DEF Step, ReqStep, WorkStep, ReqActs, Between, Works, ConnActs

(* The types, by name. *)

UserType == [gen : 1..MaxGen, active : BOOLEAN, deleted : BOOLEAN, cred : 1..MaxGen]

SessType == [st : {"new", "live", "gone"}, gen : 0..MaxGen, at : 0..MaxGen + 1,
             cred : 0..MaxGen]

ReqPcs == {"idle", "verified", "restore", "undelete", "create", "refresh", "rotate",
           "drop", "logout", "publish", "restoreUser", "activate"}

ReqType == [pc : ReqPcs, gen : 0..MaxGen, cred : 0..MaxGen, sid : Sids \cup {None}]

WorkPcs == {"idle", "fence", "list", "delete", "publish", "finish", "failed"}

WorkPlace == [pc : WorkPcs, gen : 0..MaxGen, todo : SUBSET Sids, cron : BOOLEAN,
              queue : SUBSET (1..MaxGen)]

ConnType == [pc : {"closed", "fenced", "checked", "open"}, sid : Sids \cup {None},
             gen : 0..MaxGen, raced : BOOLEAN]

Types ==
  /\ env \in Cases
  /\ user \in UserType
  /\ tasks \subseteq 1..MaxGen
  /\ fence \in 0..MaxGen
  /\ sess \in [Sids -> SessType]
  /\ req \in [Reqs -> ReqType]
  /\ work \in [Workers -> WorkPlace]
  /\ lock \in BOOLEAN
  /\ conn \in [Conns -> ConnType]
  /\ signals \in Nat
  /\ faults \in 0..MaxFaults

LEMMA TypesAreOK == Types <=> TypeOK
BY DEF Types, TypeOK, UserType, SessType, ReqPcs, ReqType, WorkPcs, WorkPlace, ConnType

LEMMA TypesAreOKNext == Types' <=> TypeOK'
BY DEF Types, TypeOK, UserType, SessType, ReqPcs, ReqType, WorkPcs, WorkPlace, ConnType

\* Another place for one of the fields.
LEMMA Fields ==
  ASSUME Types
  PROVE  /\ \A q \in Reqs, p \in ReqPcs : [req[q] EXCEPT !.pc = p] \in ReqType
         /\ \A w \in Workers, p \in WorkPcs, todo \in SUBSET Sids :
              [work[w] EXCEPT !.pc = p, !.todo = todo] \in WorkPlace
         /\ \A w \in Workers, p \in WorkPcs : [work[w] EXCEPT !.pc = p] \in WorkPlace
<1>1. \A q \in Reqs, p \in ReqPcs : [req[q] EXCEPT !.pc = p] \in ReqType
  BY DEF Types, ReqType
<1>2. \A v \in WorkPlace, p \in WorkPcs, todo \in SUBSET Sids :
        /\ [v EXCEPT !.pc = p] \in WorkPlace
        /\ [v EXCEPT !.pc = p, !.todo = todo] \in WorkPlace
  BY DEF WorkPlace
<1>3. QED
  BY <1>1, <1>2 DEF Types

LEMMA Nothings ==
  ASSUME MaxGen \in Nat
  PROVE  /\ NoReq \in ReqType /\ NoWork \in WorkPlace /\ NoConn \in ConnType
         /\ NoSession \in SessType /\ Gone \in SessType
BY DEF NoReq, NoWork, NoConn, NoSession, Gone, ReqType, ReqPcs, WorkPlace, WorkPcs,
       ConnType, SessType

\* The values a place among the workers takes between two tasks.
Waiting ==
  {v \in WorkPlace : /\ v.pc \in {"idle", "fence", "failed"}
                     /\ v.pc # "idle" => v.gen \in 1..user.gen - 1
                     /\ v.queue \subseteq 1..user.gen - 1}

LEMMA Bounds ==
  ASSUME TypeOK
  PROVE  /\ MaxGen \in Nat /\ user.gen \in Nat /\ user.gen >= 1 /\ user.gen <= MaxGen
         /\ fence \in Nat
BY ConstantsAssumption DEF ConstantsAssumption, TypeOK

LEMMA NoWorkWaits == ASSUME TypeOK PROVE NoWork \in Waiting
BY Bounds DEF NoWork, Waiting, WorkPlace, WorkPcs

\* The oldest of some tasks is one of them, and the rest are tasks.
LEMMA OldestWaits ==
  ASSUME TypeOK, NEW w, NEW queue \in SUBSET (1..user.gen - 1), OldestFirst(w, queue)
  PROVE  \E v \in Waiting : work' = [work EXCEPT ![w] = v]
<1>1. PICK g \in queue :
        work' = [work EXCEPT ![w] = [NoWork EXCEPT !.pc = "fence", !.gen = g,
                                     !.cron = TRUE, !.queue = queue \ {g}]]
  BY DEF OldestFirst
<1> DEFINE v == [NoWork EXCEPT !.pc = "fence", !.gen = g, !.cron = TRUE,
                               !.queue = queue \ {g}]
<1>2. g \in 1..user.gen - 1 /\ g \in 0..MaxGen /\ queue \ {g} \in SUBSET (1..MaxGen)
  BY Bounds
<1>3. v \in Waiting
  BY <1>2 DEF NoWork, Waiting, WorkPlace, WorkPcs
<1>4. QED
  BY <1>1, <1>3

LEMMA NextWaits ==
  ASSUME TypeOK, Generations, NEW w \in Workers, NextTask(w)
  PROVE  /\ \E v \in Waiting : work' = [work EXCEPT ![w] = v]
         /\ lock' \in BOOLEAN
<1>1. CASE work[w].queue # {}
  BY <1>1, OldestWaits DEF NextTask, Generations, TypeOK
<1>2. CASE work[w].queue = {}
  BY <1>2, NoWorkWaits DEF NextTask, TypeOK
<1>3. QED
  BY <1>1, <1>2

LEMMA BetweenWaits ==
  ASSUME TypeOK, Generations, NEW w \in Workers, Between(w)
  PROVE  /\ \E v \in Waiting : work' = [work EXCEPT ![w] = v]
         /\ lock' \in BOOLEAN /\ faults' \in 0..MaxFaults
         /\ UNCHANGED <<user, tasks, redis, req, conn>>
<1>0. MaxFaults \in Nat
  BY ConstantsAssumption DEF ConstantsAssumption
<1>1. CASE HandleCron(w)
  BY <1>1, OldestWaits DEF HandleCron, Generations, TypeOK
<1>2. CASE Retry(w)
  <2>1. [work[w] EXCEPT !.pc = "fence"] \in Waiting
    <3>1. work[w] \in WorkPlace
      BY TypesAreOK DEF Types
    <3>2. /\ work[w].gen \in 1..user.gen - 1
          /\ work[w].queue \subseteq 1..user.gen - 1
      BY <1>2 DEF Retry, Generations
    <3>3. QED
      BY <3>1, <3>2 DEF Waiting, WorkPlace, WorkPcs
  <2>2. work' = [work EXCEPT ![w] = [work[w] EXCEPT !.pc = "fence"]]
    BY <1>2 DEF Retry, TypeOK
  <2>3. QED
    BY <1>2, <2>1, <2>2 DEF Retry, TypeOK
<1>3. CASE GiveUp(w)
  BY <1>3, NextWaits DEF GiveUp, TypeOK
<1>4. CASE CallFails(w)
  <2>1. [work[w] EXCEPT !.pc = "failed", !.todo = {}] \in Waiting
    <3>1. work[w] \in WorkPlace
      BY TypesAreOK DEF Types
    <3>2. /\ work[w].gen \in 1..user.gen - 1
          /\ work[w].queue \subseteq 1..user.gen - 1
      BY <1>4 DEF CallFails, Generations
    <3>3. QED
      BY <3>1, <3>2 DEF Waiting, WorkPlace, WorkPcs
  <2>2. faults' \in 0..MaxFaults
    BY <1>0, <1>4 DEF CallFails, Fault, TypeOK
  <2>3. work' = [work EXCEPT ![w] = [work[w] EXCEPT !.pc = "failed", !.todo = {}]]
    BY <1>4 DEF CallFails, TypeOK
  <2>4. QED
    BY <1>4, <2>1, <2>2, <2>3 DEF CallFails, TypeOK
<1>5. QED
  BY <1>1, <1>2, <1>3, <1>4 DEF Between

\* What the ten operations that revoke have in common.
LEMMA Commits ==
  ASSUME TypeOK, Generations, NEW w \in Workers, Operation(w)
  PROVE  /\ user' \in [gen : {user.gen + 1}, active : BOOLEAN, deleted : BOOLEAN,
                       cred : {user.cred, user.cred + 1}]
         /\ user.gen < MaxGen
         /\ tasks' = tasks \cup {user.gen}
         /\ work' = [work EXCEPT ![w] = [NoWork EXCEPT !.pc = "fence", !.gen = user.gen]]
         /\ UNCHANGED <<redis, req, lock, conn, faults>>
<1>1. PICK u \in [gen : {user.gen}, active : BOOLEAN, deleted : BOOLEAN,
                  cred : {user.cred, user.cred + 1}] : Revoking(w, u)
  BY DEF Operation, LogoutAll, UpdateUser, ChangePassword, ResetPassword,
         ConfirmTelegramUnlink, UnlinkGithub, AdminResetPassword, DeactivateAccount,
         Block, DeleteUser, Changing, NewCredentials, TypeOK
<1>2. QED
  BY <1>1 DEF Revoking

-----------------------------------------------------------------------------
LEMMA InitInv == ASSUME Init PROVE IInv
<1>0. MaxGen \in Nat /\ MaxGen >= 1 /\ MaxFaults \in Nat
  BY ConstantsAssumption DEF ConstantsAssumption
<1>1. TypeOK
  <2>1. user \in UserType
    BY <1>0 DEF Init, UserType
  <2>2. /\ sess \in [Sids -> SessType] /\ req \in [Reqs -> ReqType]
        /\ work \in [Workers -> WorkPlace] /\ conn \in [Conns -> ConnType]
    BY <1>0, Nothings DEF Init
  <2>3. QED
    <3>1. tasks \subseteq 1..MaxGen /\ fence \in 0..MaxGen /\ faults \in 0..MaxFaults
      BY <1>0 DEF Init
    <3>2. env \in Cases /\ lock \in BOOLEAN /\ signals \in Nat
      BY DEF Init
    <3>3. QED
      BY <2>1, <2>2, <3>1, <3>2, TypesAreOK DEF Types
<1>2. Generations
  BY DEF Init, Generations, Live, NoReq, NoWork, NoConn, NoSession
<1>3. ChecksHold /\ Entitled
  BY DEF Init, ChecksHold, Entitled, Live, NoReq, NoSession
<1>4. WorkIsFenced /\ SettledIsFenced
  BY DEF Init, WorkIsFenced, SettledIsFenced, Live, NoWork, NoSession
<1>5. SignalIsDue
  BY DEF Init, SignalIsDue, NoConn
<1>6. QED
  BY <1>1, <1>2, <1>3, <1>4, <1>5 DEF IInv

LEMMA CreateType ==
  ASSUME TypeOK, NEW q \in Reqs, CreateSession(q)
  PROVE  \/ UNCHANGED sess
         \/ /\ req[q].pc = "create" /\ req[q].gen >= fence
            /\ \E s \in Sids, at \in {user.gen, user.gen + 1} :
                 sess' = [sess EXCEPT ![s] = [st |-> "live", gen |-> req[q].gen,
                                              at |-> at, cred |-> req[q].cred]]
<1>1. CASE Fresh # {} /\ Store(q) /\ req[q].gen >= fence
  <2>1. (CHOOSE s \in Sids : s \in Fresh) \in Sids
    BY <1>1 DEF Fresh
  <2>2. QED
    BY <1>1, <2>1 DEF Store, CreateSession
<1>2. QED
  BY <1>1 DEF CreateSession

LEMMA TypeStep == ASSUME TypeOK, Generations, Next PROVE TypeOK'
<1>0. /\ MaxGen \in Nat /\ MaxGen >= 1 /\ MaxFaults \in Nat
      /\ user.gen \in 1..MaxGen /\ user.cred \in 1..user.gen
  BY ConstantsAssumption DEF ConstantsAssumption, TypeOK, Generations
<1>a. Types /\ env' = env /\ Step
  BY TypesAreOK DEF Next
<1> SUFFICES Types'
  BY TypesAreOKNext
<1>1. ASSUME NEW q \in Reqs, ReqActs(q)
      PROVE  Types'
  <2>1. \E v \in ReqType : req' = [req EXCEPT ![q] = v]
    <3>1. CASE Login(q)
      <4>1. user.gen \in 0..MaxGen /\ user.cred \in 0..MaxGen
        BY <1>0
      <4>2. [pc |-> "verified", gen |-> user.gen, cred |-> user.cred, sid |-> None]
              \in ReqType
        BY <4>1 DEF ReqType, ReqPcs
      <4>3. QED
        BY <3>1, <4>2 DEF Login
    <3>2. CASE GetSession(q)
      <4>1. PICK s \in Sids, pc \in {"refresh", "logout"} :
              req' = [req EXCEPT ![q] = [pc |-> pc, gen |-> sess[s].gen,
                                         cred |-> sess[s].cred, sid |-> s]]
        BY <3>2 DEF GetSession
      <4>2. sess[s].gen \in 0..MaxGen /\ sess[s].cred \in 0..MaxGen
        BY <1>a DEF Types, SessType
      <4>3. QED
        BY <4>1, <4>2 DEF ReqType, ReqPcs
    <3>3. ASSUME \E p \in ReqPcs : To(q, p)
          PROVE  \E v \in ReqType : req' = [req EXCEPT ![q] = v]
      <4>1. PICK p \in ReqPcs : To(q, p)
        BY <3>3
      <4>2. req' = [req EXCEPT ![q] = [req[q] EXCEPT !.pc = p]]
        BY <4>1 DEF To
      <4>3. QED
        BY <1>a, <4>2, Fields
    <3>4. Done(q) => \E v \in ReqType : req' = [req EXCEPT ![q] = v]
      BY <1>0, Nothings DEF Done
    <3>5. CASE FreshUser(q) \/ RestoreRead(q) \/ RestoreWrite(q) \/ Refresh(q)
      BY <3>3, <3>4, <3>5 DEF FreshUser, RestoreRead, RestoreWrite, Refresh, ReqPcs
    <3>6. CASE AdminRead(q) \/ RestoreUser(q) \/ Activate(q) \/ Logout(q)
      BY <3>3, <3>4, <3>6 DEF AdminRead, RestoreUser, Activate, Logout, ReqPcs
    <3>7. QED
      BY <1>1, <3>1, <3>2, <3>5, <3>6 DEF ReqActs
  <2>2. user' \in UserType
    BY <1>1, <1>a DEF ReqActs, Login, FreshUser, RestoreRead, RestoreWrite, GetSession,
       Refresh, Logout, AdminRead, RestoreUser, Activate, Types, UserType
  <2>3. signals' \in Nat /\ faults' \in 0..MaxFaults
    BY <1>0, <1>1, <1>a DEF ReqActs, Login, FreshUser, RestoreRead, RestoreWrite,
       GetSession, Refresh, Logout, AdminRead, RestoreUser, Activate, Types, Fault, redis
  <2>4. UNCHANGED <<tasks, fence, sess, work, lock, conn>>
    BY <1>1 DEF ReqActs, Login, FreshUser, RestoreRead, RestoreWrite, GetSession,
       Refresh, Logout, AdminRead, RestoreUser, Activate, redis
  <2>5. QED
    BY <1>a, <2>1, <2>2, <2>3, <2>4 DEF Types
<1>2. ASSUME NEW q \in Reqs, CreateSession(q)
      PROVE  Types'
  <2>1. \A at \in {user.gen, user.gen + 1} :
          [st |-> "live", gen |-> req[q].gen, at |-> at, cred |-> req[q].cred] \in SessType
    BY <1>0, <1>a DEF Types, SessType, ReqType
  <2>2. sess' \in [Sids -> SessType]
    BY <1>2, <1>a, <2>1, CreateType DEF Types
  <2>3. req' \in [Reqs -> ReqType]
    BY <1>0, <1>2, <1>a, Nothings DEF CreateSession, Done, Types
  <2>4. QED
    BY <1>2, <1>a, <2>2, <2>3 DEF CreateSession, Types
<1>b. ASSUME NEW S, End(S)
      PROVE  sess' \in [Sids -> SessType]
  BY <1>0, <1>a, <1>b, Nothings DEF End, Types
<1>3. ASSUME NEW q \in Reqs, RevokeSession(q)
      PROVE  Types'
  <2>1. req' \in [Reqs -> ReqType]
    <3>1. CASE Done(q)
      BY <1>0, <1>a, <3>1, Nothings DEF Done, Types
    <3>2. CASE To(q, "publish")
      BY <1>a, <3>2, Fields DEF To, Types, ReqPcs
    <3>3. CASE req' = [req EXCEPT ![q].pc = "create", ![q].sid = None]
      <4>1. req' = [req EXCEPT ![q] = [req[q] EXCEPT !.pc = "create", !.sid = None]]
        BY <1>a, <3>3 DEF Types
      <4>2. [req[q] EXCEPT !.pc = "create", !.sid = None] \in ReqType
        BY <1>a DEF Types, ReqType, ReqPcs
      <4>3. QED
        BY <1>a, <4>1, <4>2 DEF Types
    <3>4. QED
      BY <1>3, <3>1, <3>2, <3>3 DEF RevokeSession
  <2>2. QED
    BY <1>3, <1>a, <1>b, <2>1 DEF RevokeSession, Types
<1>4. ASSUME NEW w \in Workers, Operation(w)
      PROVE  Types'
  <2>1. [NoWork EXCEPT !.pc = "fence", !.gen = user.gen] \in WorkPlace
    <3>1. user.gen \in 0..MaxGen
      BY <1>0
    <3>2. QED
      BY <3>1 DEF NoWork, WorkPlace, WorkPcs
  <2>2. user' \in UserType /\ tasks' \subseteq 1..MaxGen
    BY <1>0, <1>4, <1>a, Commits DEF Types, UserType
  <2>3. QED
    BY <1>4, <1>a, <2>1, <2>2, Commits DEF Types, redis
<1>c. ASSUME NEW w, \E v \in Waiting : work' = [work EXCEPT ![w] = v]
      PROVE  work' \in [Workers -> WorkPlace]
  BY <1>a, <1>c DEF Waiting, Types
<1>5. ASSUME NEW w \in Workers, Between(w)
      PROVE  Types'
  BY <1>5, <1>a, <1>c, BetweenWaits DEF Types, redis
<1>6. ASSUME NEW w \in Workers, Works(w) \/ PublishOrThrow(w)
      PROVE  Types'
  <2>1. \E p \in WorkPcs, todo \in SUBSET Sids :
          work' = [work EXCEPT ![w] = [work[w] EXCEPT !.pc = p, !.todo = todo]]
    <3>1. work[w].todo \in SUBSET Sids /\ work[w] = [work[w] EXCEPT !.todo = work[w].todo]
      BY <1>a DEF Types, WorkPlace
    <3>2. CASE SetFence(w) \/ PublishOrThrow(w)
      <4>1. PICK p \in WorkPcs : work' = [work EXCEPT ![w].pc = p]
        BY <3>2 DEF SetFence, PublishOrThrow, WorkPcs
      <4>2. work' = [work EXCEPT ![w] = [work[w] EXCEPT !.pc = p, !.todo = work[w].todo]]
        BY <1>a, <3>1, <4>1 DEF Types, WorkPlace
      <4>3. QED
        BY <3>1, <4>2
    <3>3. CASE ListSessions(w)
      BY <1>a, <3>3 DEF ListSessions, Types, WorkPcs
    <3>4. CASE DeleteSessions(w) \/ DeleteSessionsFails(w)
      BY <1>a, <3>4 DEF DeleteSessions, DeleteSessionsFails, Types, WorkPcs
    <3>5. QED
      BY <1>6, <3>2, <3>3, <3>4 DEF Works
  <2>2. work' \in [Workers -> WorkPlace]
    <3>1. PICK p \in WorkPcs, todo \in SUBSET Sids :
            work' = [work EXCEPT ![w] = [work[w] EXCEPT !.pc = p, !.todo = todo]]
      BY <2>1
    <3>2. [work[w] EXCEPT !.pc = p, !.todo = todo] \in WorkPlace
      BY <1>a, Fields
    <3>3. QED
      BY <1>a, <3>1, <3>2 DEF Types
  <2>3. CASE SetFence(w)
    <3>1. fence' \in 0..MaxGen
      BY <1>0, <1>a, <2>3 DEF SetFence, Generations, Types
    <3>2. QED
      BY <1>a, <2>2, <2>3, <3>1 DEF SetFence, Types
  <2>4. CASE ListSessions(w) \/ PublishOrThrow(w)
    BY <1>a, <2>2, <2>4 DEF ListSessions, PublishOrThrow, Types, redis
  <2>5. CASE DeleteSessions(w)
    BY <1>a, <1>b, <2>2, <2>5 DEF DeleteSessions, Types
  <2>6. CASE DeleteSessionsFails(w)
    BY <1>0, <1>a, <1>b, <2>2, <2>6 DEF DeleteSessionsFails, Fault, Types
  <2>7. QED
    BY <1>6, <2>3, <2>4, <2>5, <2>6 DEF Works
<1>8. ASSUME NEW w \in Workers, FinishTask(w)
      PROVE  Types'
  BY <1>8, <1>a, <1>c, NextWaits DEF FinishTask, Types, redis
<1>9. ASSUME NEW c \in Conns, ConnActs(c)
      PROVE  Types'
  <2>1. \E v \in ConnType : conn' = [conn EXCEPT ![c] = v]
    <3>1. CASE CheckMinGeneration(c)
      BY <1>a, <3>1 DEF CheckMinGeneration, Types, SessType, ConnType
    <3>2. CASE IsAuthSessionActive(c)
      BY <1>0, <1>a, <3>2, Nothings DEF IsAuthSessionActive, Types, ConnType
    <3>3. CASE Register(c)
      <4>1. conn' = [conn EXCEPT ![c] = [conn[c] EXCEPT !.pc = "open", !.sid = None]]
        BY <1>a, <3>3 DEF Register, Types
      <4>2. [conn[c] EXCEPT !.pc = "open", !.sid = None] \in ConnType
        BY <1>a DEF Types, ConnType
      <4>3. QED
        BY <4>1, <4>2
    <3>4. CASE Disconnect(c)
      BY <1>0, <3>4, Nothings DEF Disconnect
    <3>5. QED
      BY <1>9, <3>1, <3>2, <3>3, <3>4 DEF ConnActs
  <2>2. QED
    BY <1>9, <1>a, <2>1 DEF ConnActs, CheckMinGeneration, IsAuthSessionActive, Register,
                            Disconnect, Types, redis
<1>10. CASE LockExpires
  <2>1. faults' \in 0..MaxFaults
    <3>1. CASE UNCHANGED faults
      BY <1>a, <3>1 DEF Types
    <3>2. CASE Fault("slow")
      BY <1>0, <1>a, <3>2 DEF Fault, Types
    <3>3. QED
      BY <1>10, <3>1, <3>2 DEF LockExpires
  <2>2. QED
    BY <1>10, <1>a, <2>1 DEF LockExpires, Types, redis
<1>11. CASE Crash
  BY <1>0, <1>11, <1>a, Nothings DEF Crash, Done, Fault, Types, redis
<1>12. CASE EvictUser
  <2>1. \A c \in Conns : [conn[c] EXCEPT !.raced = TRUE] \in ConnType
    BY <1>a DEF Types, ConnType
  <2>2. conn' \in [Conns -> ConnType]
    BY <1>0, <1>12, <1>a, <2>1, Nothings DEF EvictUser, Types
  <2>3. QED
    BY <1>12, <1>a, <2>2 DEF EvictUser, Types
<1>13. CASE SignalLost
  BY <1>0, <1>13, <1>a DEF SignalLost, Fault, Types
<1>14. QED
  BY <1>a, <1>1, <1>2, <1>3, <1>4, <1>5, <1>6, <1>8, <1>9, <1>10, <1>11, <1>12, <1>13,
     Acts

-----------------------------------------------------------------------------
(* What the steps do to the generations. *)

\* The user's generation rises by one when a revocation commits.
LEMMA UserSteps ==
  ASSUME TypeOK, Generations, Step
  PROVE  \/ /\ user'.gen = user.gen + 1
            /\ user'.cred \in {user.cred, user.cred + 1}
            /\ tasks' = tasks \cup {user.gen}
            /\ \E w \in Workers :
                 work' = [work EXCEPT ![w] = [NoWork EXCEPT !.pc = "fence", !.gen = user.gen]]
            /\ UNCHANGED <<fence, sess, signals, req, conn>>
         \/ /\ user'.gen = user.gen /\ user'.cred = user.cred
            /\ user.active => user'.active
            /\ ~user.deleted => ~user'.deleted
<1>1. ASSUME NEW q \in Reqs, ReqActs(q) \/ CreateSession(q) \/ RevokeSession(q)
      PROVE  /\ user'.gen = user.gen /\ user'.cred = user.cred
             /\ user.active => user'.active
             /\ ~user.deleted => ~user'.deleted
  BY <1>1 DEF ReqActs, Login, FreshUser, RestoreRead, RestoreWrite, GetSession, Refresh,
     Logout, AdminRead, RestoreUser, Activate, CreateSession, RevokeSession, TypeOK
<1>2. ASSUME NEW w \in Workers, Operation(w)
      PROVE  /\ user'.gen = user.gen + 1
             /\ user'.cred \in {user.cred, user.cred + 1}
             /\ tasks' = tasks \cup {user.gen}
             /\ work' = [work EXCEPT ![w] = [NoWork EXCEPT !.pc = "fence", !.gen = user.gen]]
             /\ UNCHANGED <<fence, sess, signals, req, conn>>
  BY <1>2, Commits DEF redis
<1>3. ASSUME NEW w \in Workers,
             Between(w) \/ Works(w) \/ PublishOrThrow(w) \/ FinishTask(w)
      PROVE  UNCHANGED user
  BY <1>3 DEF Between, HandleCron, Retry, GiveUp, CallFails, Works, SetFence, ListSessions,
     DeleteSessions, DeleteSessionsFails, PublishOrThrow, FinishTask
<1>4. ASSUME NEW c \in Conns, ConnActs(c)
      PROVE  UNCHANGED user
  BY <1>4 DEF ConnActs, CheckMinGeneration, IsAuthSessionActive, Register, Disconnect
<1>5. ASSUME LockExpires \/ Crash \/ EvictUser \/ SignalLost
      PROVE  UNCHANGED user
  BY <1>5 DEF LockExpires, Crash, EvictUser, SignalLost
<1>6. QED
  BY <1>1, <1>2, <1>3, <1>4, <1>5, Acts

\* Sessions only end, but for the one CreateSession stores.
LEMMA SessSteps ==
  ASSUME TypeOK, Generations, Step
  PROVE  \/ \A s \in Sids : sess'[s] = sess[s] \/ sess'[s] = Gone
         \/ /\ UNCHANGED <<user, tasks, fence, work, lock, conn, signals, faults>>
            /\ \E q \in Reqs, s \in Sids, at \in {user.gen, user.gen + 1} :
                 /\ req[q].pc = "create" /\ req[q].gen >= fence
                 /\ sess' = [sess EXCEPT ![s] = [st |-> "live", gen |-> req[q].gen,
                                                 at |-> at, cred |-> req[q].cred]]
<1>1. ASSUME NEW q \in Reqs, ReqActs(q)
      PROVE  UNCHANGED sess
  BY <1>1 DEF ReqActs, Login, FreshUser, RestoreRead, RestoreWrite, GetSession, Refresh,
     Logout, AdminRead, RestoreUser, Activate, redis
<1>2. ASSUME NEW q \in Reqs, CreateSession(q)
      PROVE  UNCHANGED sess \/
             /\ UNCHANGED <<user, tasks, fence, work, lock, conn, signals, faults>>
             /\ \E s \in Sids, at \in {user.gen, user.gen + 1} :
                 /\ req[q].pc = "create" /\ req[q].gen >= fence
                 /\ sess' = [sess EXCEPT ![s] = [st |-> "live", gen |-> req[q].gen,
                                                 at |-> at, cred |-> req[q].cred]]
  BY <1>2, CreateType DEF CreateSession
<1>3. ASSUME NEW S, End(S)
      PROVE  \A s \in Sids : sess'[s] = sess[s] \/ sess'[s] = Gone
  BY <1>3 DEF End
<1>4. ASSUME NEW w \in Workers,
             Operation(w) \/ Between(w) \/ PublishOrThrow(w) \/ FinishTask(w)
      PROVE  UNCHANGED sess
  BY <1>4, Commits, BetweenWaits DEF redis, PublishOrThrow, FinishTask
<1>5. ASSUME NEW w \in Workers, Works(w)
      PROVE  \A s \in Sids : sess'[s] = sess[s] \/ sess'[s] = Gone
  BY <1>3, <1>5 DEF Works, SetFence, ListSessions, DeleteSessions, DeleteSessionsFails, redis
<1>6. ASSUME NEW c \in Conns, ConnActs(c)
      PROVE  UNCHANGED sess
  BY <1>6 DEF ConnActs, CheckMinGeneration, IsAuthSessionActive, Register, Disconnect, redis
<1>7. ASSUME LockExpires \/ Crash \/ EvictUser \/ SignalLost
      PROVE  UNCHANGED sess
  BY <1>7 DEF LockExpires, Crash, EvictUser, SignalLost, redis
<1>8. ASSUME NEW q \in Reqs, RevokeSession(q)
      PROVE  \A s \in Sids : sess'[s] = sess[s] \/ sess'[s] = Gone
  BY <1>3, <1>8 DEF RevokeSession
<1>9. QED
  BY <1>1, <1>2, <1>4, <1>5, <1>6, <1>7, <1>8, Acts

\* A request moves on; what it has read it keeps, or gets from the user or
\* from a session.
Keeps(p, from, to) ==
  /\ req[p].pc = from
  /\ req'[p].pc = to /\ req'[p].gen = req[p].gen /\ req'[p].cred = req[p].cred

ReqMoves(p) ==
  \/ req'[p] \in {req[p], NoReq}
  \/ req'[p].pc \in {"logout", "drop", "publish", "restoreUser", "activate"}
     /\ req'[p].gen <= user.gen
  \/ Keeps(p, "undelete", "create") /\ user'.deleted = FALSE
  \/ /\ user' = user
     /\ \/ /\ user.active
           /\ req'[p] = [pc |-> "verified", gen |-> user.gen, cred |-> user.cred,
                         sid |-> None]
        \/ user.active /\ user.deleted /\ Keeps(p, "verified", "restore")
        \/ user.active /\ ~user.deleted /\ Keeps(p, "verified", "create")
        \/ user.deleted /\ Keeps(p, "restore", "undelete")
        \/ ~user.deleted /\ Keeps(p, "restore", "create")
        \/ user.active /\ ~user.deleted /\ Keeps(p, "refresh", "rotate")
        \/ Keeps(p, "rotate", "create")
        \/ \E s \in Sids : /\ Live(s)
                           /\ req'[p] = [pc |-> "refresh", gen |-> sess[s].gen,
                                         cred |-> sess[s].cred, sid |-> s]

LEMMA ReqSteps ==
  ASSUME TypeOK, Generations, Step, NEW p \in Reqs
  PROVE  ReqMoves(p)
<1>0. /\ req \in [Reqs -> ReqType]
      /\ \A q \in Reqs : \A pc : To(q, pc) =>
           req' = [req EXCEPT ![q] = [req[q] EXCEPT !.pc = pc]]
  BY TypesAreOK DEF Types, To
<1>a. \A q \in Reqs : \A pc : To(q, pc) =>
        \/ req'[p] = req[p]
        \/ /\ p = q /\ req'[p].pc = pc
           /\ req'[p].gen = req[p].gen /\ req'[p].cred = req[p].cred
  BY <1>0 DEF ReqType
<1>b. \A q \in Reqs : Done(q) => req'[p] = req[p] \/ req'[p] = NoReq
  BY <1>0 DEF Done
<1>c. req[p].gen <= user.gen
  BY DEF Generations
<1>1. ASSUME NEW q \in Reqs, ReqActs(q)
      PROVE  ReqMoves(p)
  <2>1. CASE Login(q)
    BY <1>0, <2>1 DEF Login, Keeps, ReqMoves
  <2>2. CASE FreshUser(q) \/ RestoreRead(q) \/ RestoreWrite(q)
    BY <1>a, <1>b, <2>2 DEF FreshUser, RestoreRead, RestoreWrite, Keeps, ReqMoves, TypeOK
  <2>3. CASE GetSession(q)
    <3>1. PICK s \in Sids, pc \in {"refresh", "logout"} :
            /\ Live(s)
            /\ req' = [req EXCEPT ![q] = [pc |-> pc, gen |-> sess[s].gen,
                                          cred |-> sess[s].cred, sid |-> s]]
      BY <2>3 DEF GetSession
    <3>2. sess[s].gen <= user.gen /\ user' = user
      BY <2>3 DEF Generations, GetSession
    <3>3. CASE p = q
      BY <1>0, <3>1, <3>2, <3>3 DEF Keeps, ReqMoves
    <3>4. QED
      BY <1>0, <3>1, <3>3 DEF Keeps, ReqMoves
  <2>4. CASE Refresh(q)
    BY <1>a, <1>c, <2>4 DEF Refresh, Keeps, ReqMoves
  <2>5. CASE Logout(q) \/ RestoreUser(q) \/ Activate(q)
    BY <1>b, <2>5 DEF Logout, RestoreUser, Activate, Keeps, ReqMoves
  <2>6. CASE AdminRead(q)
    <3>1. \E pc \in {"restoreUser", "activate"} : To(q, pc)
      BY <2>6 DEF AdminRead
    <3>2. QED
      BY <1>a, <1>c, <3>1 DEF Keeps, ReqMoves
  <2>7. QED
    BY <1>1, <2>1, <2>2, <2>3, <2>4, <2>5, <2>6 DEF ReqActs
<1>2. ASSUME NEW q \in Reqs, CreateSession(q)
      PROVE  ReqMoves(p)
  BY <1>b, <1>2 DEF CreateSession, Keeps, ReqMoves
<1>3. ASSUME NEW q \in Reqs, RevokeSession(q)
      PROVE  ReqMoves(p)
  <2>1. CASE req[q].pc = "rotate"
    <3>1. req' = [req EXCEPT ![q] = [req[q] EXCEPT !.pc = "create", !.sid = None]]
      BY <1>0, <1>3, <2>1 DEF RevokeSession
    <3>2. user' = user
      BY <1>3 DEF RevokeSession
    <3>3. QED
      BY <1>0, <2>1, <3>1, <3>2 DEF Keeps, ReqMoves, ReqType
  <2>2. CASE req[q].pc = "drop"
    BY <1>b, <1>3, <2>2 DEF RevokeSession, Keeps, ReqMoves
  <2>3. CASE req[q].pc = "logout"
    BY <1>a, <1>c, <1>3, <2>3 DEF RevokeSession, Keeps, ReqMoves
  <2>4. QED
    BY <1>3, <2>1, <2>2, <2>3 DEF RevokeSession
<1>4. ASSUME NEW w \in Workers,
             \/ Operation(w) \/ Between(w) \/ Works(w)
             \/ PublishOrThrow(w) \/ FinishTask(w)
      PROVE  UNCHANGED req
  <2>1. CASE Operation(w) \/ Between(w)
    BY <2>1, Commits, BetweenWaits
  <2>2. CASE Works(w) \/ PublishOrThrow(w) \/ FinishTask(w)
    BY <2>2 DEF Works, SetFence, ListSessions, DeleteSessions, DeleteSessionsFails,
       PublishOrThrow, FinishTask
  <2>3. QED
    BY <1>4, <2>1, <2>2
<1>5. ASSUME NEW c \in Conns, ConnActs(c)
      PROVE  UNCHANGED req
  BY <1>5 DEF ConnActs, CheckMinGeneration, IsAuthSessionActive, Register, Disconnect
<1>6. ASSUME LockExpires \/ EvictUser \/ SignalLost
      PROVE  UNCHANGED req
  BY <1>6 DEF LockExpires, EvictUser, SignalLost
<1>7. CASE Crash
  BY <1>b, <1>7 DEF Crash, Keeps, ReqMoves
<1>8. UNCHANGED req => ReqMoves(p)
  BY DEF Keeps, ReqMoves
<1>9. QED
  BY <1>1, <1>2, <1>3, <1>4, <1>5, <1>6, <1>7, <1>8, Acts

\* A place among the workers waits, or goes on with its task.
WorkRests(v) ==
  /\ work'[v].pc \in {"idle", "fence", "failed"}
  /\ work'[v].pc # "idle" => work'[v].gen \in 1..user'.gen - 1
  /\ work'[v].queue \subseteq 1..user'.gen - 1

WorkMoves(v) ==
  \/ work'[v] = work[v]
  \/ WorkRests(v)
  \/ /\ SetFence(v) \/ ListSessions(v) \/ DeleteSessions(v) \/ PublishOrThrow(v)
     /\ work'[v].gen = work[v].gen /\ work'[v].queue = work[v].queue
     /\ work'[v].pc \in {"list", "delete", "publish", "finish"}

LEMMA WorkSteps ==
  ASSUME TypeOK, Generations, Step, NEW v \in Workers
  PROVE  WorkMoves(v)
<1>0. work \in [Workers -> WorkPlace] /\ user.gen \in 1..MaxGen /\ MaxGen \in Nat
  BY TypesAreOK, ConstantsAssumption DEF Types, UserType, ConstantsAssumption
<1>1. ASSUME NEW w \in Workers, Operation(w)
      PROVE  WorkMoves(v)
  <2>1. /\ user'.gen = user.gen + 1
        /\ work' = [work EXCEPT ![w] = [NoWork EXCEPT !.pc = "fence", !.gen = user.gen]]
    BY <1>1, Commits
  <2>2. QED
    BY <1>0, <2>1 DEF WorkMoves, WorkRests, NoWork
<1>2. ASSUME NEW w \in Workers, UNCHANGED user, \E u \in Waiting : work' = [work EXCEPT ![w] = u]
      PROVE  WorkMoves(v)
  BY <1>0, <1>2 DEF WorkMoves, WorkRests, Waiting
<1>3. ASSUME NEW w \in Workers, Between(w) \/ FinishTask(w)
      PROVE  WorkMoves(v)
  <2>1. CASE Between(w)
    BY <1>2, <2>1, BetweenWaits
  <2>2. CASE FinishTask(w)
    BY <1>2, <2>2, NextWaits DEF FinishTask
  <2>3. QED
    BY <1>3, <2>1, <2>2
<1>4. ASSUME NEW w \in Workers, Works(w) \/ PublishOrThrow(w)
      PROVE  WorkMoves(v)
  <2>0. CASE v # w
    BY <1>0, <1>4, <2>0 DEF Works, SetFence, ListSessions, DeleteSessions,
       DeleteSessionsFails, PublishOrThrow, WorkMoves
  <2>1. CASE v = w /\ (SetFence(w) \/ PublishOrThrow(w))
    BY <1>0, <2>1 DEF SetFence, PublishOrThrow, WorkMoves, WorkPlace
  <2>2. CASE v = w /\ ListSessions(w)
    BY <1>0, <2>2 DEF ListSessions, WorkMoves, WorkPlace
  <2>3. CASE v = w /\ DeleteSessions(w)
    BY <1>0, <2>3 DEF DeleteSessions, WorkMoves, WorkPlace
  <2>4. CASE v = w /\ DeleteSessionsFails(w)
    <3>1. user' = user /\ work'[v].pc = "failed"
      BY <1>0, <2>4 DEF DeleteSessionsFails, WorkPlace
    <3>2. work'[v].gen = work[v].gen /\ work'[v].queue = work[v].queue
      BY <1>0, <2>4 DEF DeleteSessionsFails, WorkPlace
    <3>3. work[v].gen \in 1..user.gen - 1 /\ work[v].queue \subseteq 1..user.gen - 1
      BY <2>4 DEF DeleteSessionsFails, Generations
    <3>4. QED
      BY <3>1, <3>2, <3>3 DEF WorkMoves, WorkRests
  <2>5. QED
    BY <1>4, <2>0, <2>1, <2>2, <2>3, <2>4 DEF Works
<1>5. ASSUME \/ \E q \in Reqs : ReqActs(q) \/ CreateSession(q) \/ RevokeSession(q)
             \/ \E c \in Conns : ConnActs(c)
             \/ LockExpires \/ EvictUser \/ SignalLost
      PROVE  UNCHANGED work
  BY <1>5 DEF ReqActs, Login, FreshUser, RestoreRead, RestoreWrite, GetSession, Refresh,
     Logout, AdminRead, RestoreUser, Activate, CreateSession, RevokeSession,
     ConnActs, CheckMinGeneration, IsAuthSessionActive, Register, Disconnect,
     LockExpires, EvictUser, SignalLost
<1>6. CASE Crash
  <2>1. user' = user
    BY <1>6 DEF Crash
  <2>2. UNCHANGED work \/ \E w \in Workers : work' = [work EXCEPT ![w] = NoWork]
    BY <1>6 DEF Crash
  <2>3. QED
    BY <1>2, <2>1, <2>2, NoWorkWaits DEF WorkMoves
<1>7. UNCHANGED work => WorkMoves(v)
  BY DEF WorkMoves
<1>8. QED
  BY <1>1, <1>3, <1>4, <1>5, <1>6, <1>7, Acts

\* The fence only rises, and not above the user's generation; a task goes
\* when its revocation is finished.
LEMMA FenceSteps ==
  ASSUME TypeOK, Generations, Step
  PROVE  /\ fence' >= fence /\ fence' <= user'.gen /\ fence' \in Nat
         /\ \A g \in tasks : \/ g \in tasks'
                             \/ \E w \in Workers : FinishTask(w) /\ work[w].gen = g
         /\ \/ tasks' \subseteq tasks /\ user'.gen = user.gen
            \/ tasks' = tasks \cup {user.gen} /\ user'.gen = user.gen + 1
<1>0. /\ fence \in Nat /\ user.gen \in Nat /\ fence <= user.gen /\ user.gen >= 1
  BY Bounds DEF Generations
<1>1. ASSUME NEW q \in Reqs, ReqActs(q) \/ CreateSession(q) \/ RevokeSession(q)
      PROVE  UNCHANGED <<tasks, fence>> /\ user'.gen = user.gen
  BY <1>1 DEF ReqActs, Login, FreshUser, RestoreRead, RestoreWrite, GetSession, Refresh,
     Logout, AdminRead, RestoreUser, Activate, CreateSession, RevokeSession, TypeOK, redis
<1>2. ASSUME NEW w \in Workers, Operation(w)
      PROVE  UNCHANGED fence /\ tasks' = tasks \cup {user.gen} /\ user'.gen = user.gen + 1
  BY <1>2, Commits DEF redis
<1>3. ASSUME NEW w \in Workers,
             Between(w) \/ ListSessions(w) \/ DeleteSessions(w)
             \/ DeleteSessionsFails(w) \/ PublishOrThrow(w)
      PROVE  UNCHANGED <<tasks, fence, user>>
  BY <1>3, BetweenWaits DEF ListSessions, DeleteSessions, DeleteSessionsFails,
     PublishOrThrow, redis
<1>4. ASSUME NEW w \in Workers, SetFence(w)
      PROVE  /\ UNCHANGED <<tasks, user>>
             /\ fence' >= fence /\ fence' <= user'.gen /\ fence' \in Nat
  <2>1. work[w].gen \in 1..user.gen - 1
    BY <1>4 DEF SetFence, Generations
  <2>2. QED
    BY <1>0, <1>4, <2>1 DEF SetFence
<1>5. ASSUME NEW w \in Workers, FinishTask(w)
      PROVE  UNCHANGED <<fence, user>> /\ tasks' = tasks \ {work[w].gen}
  BY <1>5 DEF FinishTask, redis
<1>6. ASSUME \/ \E c \in Conns : ConnActs(c)
             \/ LockExpires \/ Crash \/ EvictUser \/ SignalLost
      PROVE  UNCHANGED <<tasks, fence, user>>
  BY <1>6 DEF ConnActs, CheckMinGeneration, IsAuthSessionActive, Register, Disconnect,
     LockExpires, Crash, EvictUser, SignalLost, redis
<1>7. QED
  BY <1>0, <1>1, <1>2, <1>3, <1>4, <1>5, <1>6, Acts DEF Works

\* A stream is admitted, goes on, or ends.
ConnMoves(c) ==
  \/ /\ conn'[c].gen = conn[c].gen /\ conn'[c].raced = conn[c].raced
     /\ conn'[c].pc # "closed" => conn[c].pc # "closed" /\ ~EvictUser
  \/ conn'[c] = NoConn
  \/ conn'[c].gen = conn[c].gen /\ conn'[c].raced
  \/ CheckMinGeneration(c)

LEMMA ConnSteps ==
  ASSUME TypeOK, Generations, Step, NEW c \in Conns
  PROVE  ConnMoves(c)
<1>0. conn \in [Conns -> ConnType]
  BY TypesAreOK DEF Types
<1>1. CASE EvictUser
  <2>1. conn'[c] = CASE conn[c].pc = "open" -> NoConn
                     [] conn[c].pc \in {"fenced", "checked"} -> [conn[c] EXCEPT !.raced = TRUE]
                     [] OTHER -> conn[c]
    BY <1>1 DEF EvictUser
  <2>2. conn[c] \in ConnType
    BY <1>0
  <2>3. CASE conn[c].pc = "closed"
    BY <2>1, <2>3 DEF ConnMoves
  <2>4. QED
    BY <2>1, <2>2, <2>3 DEF ConnMoves, ConnType
<1>2. ASSUME ~EvictUser, UNCHANGED conn
      PROVE  ConnMoves(c)
  BY <1>2 DEF ConnMoves
<1>3. ASSUME ~EvictUser, NEW d \in Conns, ConnActs(d)
      PROVE  ConnMoves(c)
  <2>1. CASE c # d
    <3>1. conn'[c] = conn[c]
      BY <1>0, <1>3, <2>1 DEF ConnActs, CheckMinGeneration, IsAuthSessionActive, Register,
                              Disconnect
    <3>2. QED
      BY <1>3, <3>1 DEF ConnMoves
  <2>2. CASE c = d /\ (IsAuthSessionActive(c) \/ Register(c) \/ Disconnect(c))
    <3>1. conn[c] \in ConnType /\ conn'[c] \in {NoConn, [conn[c] EXCEPT !.pc = "checked"],
                                              [conn[c] EXCEPT !.pc = "open", !.sid = None]}
      BY <1>0, <2>2 DEF IsAuthSessionActive, Register, Disconnect
    <3>2. conn[c].pc # "closed"
      BY <2>2 DEF IsAuthSessionActive, Register, Disconnect
    <3>3. QED
      BY <1>3, <3>1, <3>2 DEF ConnMoves, ConnType
  <2>3. QED
    BY <1>3, <2>1, <2>2 DEF ConnActs, ConnMoves
<1>4. ASSUME \/ \E q \in Reqs : ReqActs(q) \/ CreateSession(q) \/ RevokeSession(q)
             \/ LockExpires \/ Crash \/ SignalLost
      PROVE  UNCHANGED conn
  BY <1>4 DEF ReqActs, Login, FreshUser, RestoreRead, RestoreWrite, GetSession, Refresh,
     Logout, AdminRead, RestoreUser, Activate, CreateSession, RevokeSession,
     LockExpires, Crash, SignalLost
<1>5. ASSUME NEW w \in Workers, \/ Operation(w) \/ Between(w) \/ Works(w)
                                \/ PublishOrThrow(w) \/ FinishTask(w)
      PROVE  UNCHANGED conn
  <2>1. CASE Operation(w) \/ Between(w)
    BY <2>1, Commits, BetweenWaits
  <2>2. CASE Works(w) \/ PublishOrThrow(w) \/ FinishTask(w)
    BY <2>2 DEF Works, SetFence, ListSessions, DeleteSessions, DeleteSessionsFails,
       PublishOrThrow, FinishTask
  <2>3. QED
    BY <1>5, <2>1, <2>2
<1>6. QED
  BY <1>1, <1>2, <1>3, <1>4, <1>5, Acts

\* Signals are lost only where they may be, and one that arrives is handled.
LEMMA SignalSteps ==
  ASSUME TypeOK, Generations, Step
  PROVE  signals' >= signals \/ EvictUser \/ SignalLost
<1>0. signals \in Nat
  BY DEF TypeOK
<1>1. ASSUME NEW q \in Reqs, ReqActs(q) \/ CreateSession(q) \/ RevokeSession(q)
      PROVE  signals' >= signals
  <2>1. signals' \in {signals, signals + 1}
    BY <1>1 DEF ReqActs, Login, FreshUser, RestoreRead, RestoreWrite, GetSession,
       Refresh, Logout, AdminRead, RestoreUser, Activate, CreateSession, RevokeSession, redis
  <2>2. QED
    BY <1>0, <2>1
<1>a. ASSUME (\E c \in Conns : ConnActs(c)) \/ LockExpires \/ Crash
      PROVE  signals' >= signals
  <2>1. UNCHANGED signals
    BY <1>a DEF ConnActs, CheckMinGeneration, IsAuthSessionActive, Register,
       Disconnect, LockExpires, Crash, redis
  <2>2. QED
    BY <1>0, <2>1
<1>2. ASSUME NEW w \in Workers, \/ Operation(w) \/ Between(w) \/ Works(w)
                                \/ PublishOrThrow(w) \/ FinishTask(w)
      PROVE  signals' >= signals
  <2>1. CASE Operation(w) \/ Between(w)
    BY <1>0, <2>1, Commits, BetweenWaits DEF redis
  <2>2. CASE Works(w) \/ PublishOrThrow(w) \/ FinishTask(w)
    BY <1>0, <2>2 DEF Works, SetFence, ListSessions, DeleteSessions, DeleteSessionsFails,
       PublishOrThrow, FinishTask, redis
  <2>3. QED
    BY <1>2, <2>1, <2>2
<1>3. QED
  BY <1>1, <1>a, <1>2, Acts

-----------------------------------------------------------------------------
(* The parts of the invariant are preserved. *)

LEMMA GenerationsStep == ASSUME TypeOK, Generations, Next PROVE Generations'
<1>s. Step
  BY DEF Next
<1>a. \A q \in Reqs : req'[q].gen \in Nat
  BY TypeStep, Bounds DEF TypeOK
<1>0. /\ user.gen \in Nat /\ user.gen >= 1 /\ user.cred \in Nat /\ user.cred <= user.gen
      /\ fence \in Nat /\ MaxGen \in Nat
      /\ \A s \in Sids : sess[s].gen \in Nat
      /\ \A q \in Reqs : req[q].gen \in Nat
      /\ \A c \in Conns : conn[c].gen \in Nat
  BY Bounds DEF TypeOK, Generations
<1>1. user'.gen \in {user.gen, user.gen + 1} /\ user'.cred <= user'.gen
  BY <1>0, <1>s, UserSteps
<1>2. fence' <= user'.gen /\ tasks' \subseteq 1..user'.gen - 1
  <2>1. fence' <= user'.gen
    BY <1>s, FenceSteps
  <2>2. CASE tasks' \subseteq tasks /\ user'.gen = user.gen
    BY <2>1, <2>2 DEF Generations
  <2>3. CASE tasks' = tasks \cup {user.gen} /\ user'.gen = user.gen + 1
    <3>1. user.gen \in 1..user'.gen - 1
      BY <1>0, <2>3
    <3>2. 1..user.gen - 1 \subseteq 1..user'.gen - 1
      BY <1>0, <2>3
    <3>3. QED
      BY <2>1, <2>3, <3>1, <3>2 DEF Generations
  <2>4. QED
    BY <1>s, <2>2, <2>3, FenceSteps
<1>3. ASSUME NEW s \in Sids
      PROVE  sess'[s].gen <= user'.gen /\ (Live(s)' => sess'[s].gen > 0)
  <2>1. CASE sess'[s] = sess[s] \/ sess'[s] = Gone
    BY <1>0, <1>1, <2>1 DEF Generations, Live, Gone, NoSession
  <2>2. ASSUME NEW q \in Reqs, NEW t \in Sids, NEW at, req[q].pc = "create",
               sess' = [sess EXCEPT ![t] = [st |-> "live", gen |-> req[q].gen,
                                            at |-> at, cred |-> req[q].cred]]
        PROVE  sess'[s].gen <= user'.gen /\ (Live(s)' => sess'[s].gen > 0)
    <3>1. req[q].gen <= user.gen /\ req[q].gen > 0
      BY <2>2 DEF Generations
    <3>2. QED
      BY <1>0, <1>1, <2>2, <3>1 DEF Generations, Live, TypeOK
  <2>3. QED
    BY <1>s, <2>1, <2>2, SessSteps
<1>4. ASSUME NEW q \in Reqs
      PROVE  /\ req'[q].gen <= user'.gen
             /\ req'[q].pc \in {"verified", "restore", "undelete", "create",
                                "refresh", "rotate"} => req'[q].gen > 0
  <2>1. /\ req[q].gen <= user'.gen /\ user.gen <= user'.gen
        /\ req[q].pc \in {"verified", "restore", "undelete", "refresh", "rotate"}
             => req[q].gen > 0
    BY <1>0, <1>1 DEF Generations
  <2>2. ASSUME NEW s \in Sids, Live(s)
        PROVE  sess[s].gen <= user'.gen /\ sess[s].gen > 0
    BY <1>0, <1>1, <2>2 DEF Generations
  <2>3. CASE req'[q] \in {req[q], NoReq}
    BY <1>0, <1>1, <2>1, <2>3 DEF NoReq, Generations
  <2>4. CASE \E from \in {"verified", "restore", "undelete", "refresh", "rotate"},
                to \in ReqPcs : Keeps(q, from, to)
    BY <2>1, <2>4 DEF Keeps
  <2>5. CASE \E s \in Sids : /\ Live(s)
                             /\ req'[q] = [pc |-> "refresh", gen |-> sess[s].gen,
                                           cred |-> sess[s].cred, sid |-> s]
    BY <2>2, <2>5
  <2>6. CASE req'[q] = [pc |-> "verified", gen |-> user.gen, cred |-> user.cred,
                        sid |-> None]
    BY <1>0, <2>1, <2>6
  <2>7. CASE /\ req'[q].pc \in {"logout", "drop", "publish", "restoreUser", "activate"}
             /\ req'[q].gen <= user.gen
    BY <1>0, <1>1, <1>a, <2>7
  <2>8. QED
    BY <2>3, <2>4, <2>5, <2>6, <2>7, <1>s, ReqSteps DEF ReqMoves, ReqPcs
<1>5. ASSUME NEW w \in Workers
      PROVE  /\ work'[w].pc # "idle" => work'[w].gen \in 1..user'.gen - 1
             /\ work'[w].queue \subseteq 1..user'.gen - 1
  <2>1. /\ work[w].pc # "idle" => work[w].gen \in 1..user'.gen - 1
        /\ work[w].queue \subseteq 1..user'.gen - 1
    BY <1>0, <1>1 DEF Generations
  <2>2. SetFence(w) \/ ListSessions(w) \/ DeleteSessions(w) \/ PublishOrThrow(w)
          => work[w].pc # "idle"
    BY DEF SetFence, ListSessions, DeleteSessions, PublishOrThrow
  <2>3. QED
    BY <1>s, <2>1, <2>2, WorkSteps DEF WorkMoves, WorkRests
<1>6. ASSUME NEW c \in Conns
      PROVE  conn'[c].gen <= user'.gen
  <2>1. CheckMinGeneration(c) => \E s \in Sids : conn'[c].gen = sess[s].gen
    BY DEF CheckMinGeneration, TypeOK
  <2>2. conn'[c].gen \in {conn[c].gen, 0} \/ CheckMinGeneration(c)
    BY <1>s, ConnSteps DEF ConnMoves, NoConn
  <2>3. QED
    BY <1>0, <1>1, <2>1, <2>2 DEF Generations
<1>7. QED
  BY <1>1, <1>2, <1>3, <1>4, <1>5, <1>6 DEF Generations

LEMMA ChecksStep ==
  ASSUME TypeOK, Generations, ChecksHold, Entitled, Step PROVE ChecksHold'
<1>0. user.gen \in Nat /\ user.gen >= 1 /\ \A q \in Reqs : req[q].gen <= user.gen
  BY Bounds DEF Generations
<1> SUFFICES ASSUME NEW q \in Reqs, req'[q].gen = user'.gen
             PROVE  /\ req'[q].pc \in {"verified", "restore", "undelete", "create",
                                       "refresh", "rotate"} => req'[q].cred = user'.cred
                    /\ req'[q].pc \in {"restore", "undelete", "create", "rotate"}
                         => user'.active
                    /\ req'[q].pc \in {"create", "rotate"} => ~user'.deleted
  BY DEF ChecksHold
<1>1. CASE user'.gen = user.gen + 1 /\ UNCHANGED req
  BY <1>0, <1>1
<1>2. CASE /\ user'.gen = user.gen /\ user'.cred = user.cred
           /\ user.active => user'.active
           /\ ~user.deleted => ~user'.deleted
  <2>1. ReqMoves(q)
    BY ReqSteps
  <2>2. CASE req'[q] \in {req[q], NoReq}
    BY <1>2, <2>2 DEF ChecksHold, NoReq
  <2>3. CASE req'[q].pc \in {"logout", "drop", "publish", "restoreUser", "activate"}
    BY <2>3
  <2>4. CASE Keeps(q, "undelete", "create") /\ user'.deleted = FALSE
    BY <1>2, <2>4 DEF Keeps, ChecksHold
  <2>5. CASE user' = user /\
             \/ user.active /\ user.deleted /\ Keeps(q, "verified", "restore")
             \/ user.active /\ ~user.deleted /\ Keeps(q, "verified", "create")
             \/ user.deleted /\ Keeps(q, "restore", "undelete")
    BY <2>5 DEF Keeps, ChecksHold
  <2>b. CASE user' = user /\
             \/ ~user.deleted /\ Keeps(q, "restore", "create")
             \/ user.active /\ ~user.deleted /\ Keeps(q, "refresh", "rotate")
             \/ Keeps(q, "rotate", "create")
    BY <2>b DEF Keeps, ChecksHold
  <2>a. CASE /\ user' = user /\ user.active
             /\ req'[q] = [pc |-> "verified", gen |-> user.gen, cred |-> user.cred,
                           sid |-> None]
    BY <2>a
  <2>6. CASE user' = user /\
             \E s \in Sids : /\ Live(s)
                            /\ req'[q] = [pc |-> "refresh", gen |-> sess[s].gen,
                                          cred |-> sess[s].cred, sid |-> s]
    BY <2>6 DEF Entitled
  <2>7. QED
    BY <2>1, <2>2, <2>3, <2>4, <2>5, <2>6, <2>a, <2>b DEF ReqMoves
<1>3. QED
  BY <1>1, <1>2, UserSteps

LEMMA EntitledStep ==
  ASSUME TypeOK, Generations, ChecksHold, Entitled, Step PROVE Entitled'
<1>0. user.gen \in Nat /\ \A s \in Sids : sess[s].gen \in Nat /\ sess[s].gen <= user.gen
  BY Bounds DEF Generations, TypeOK
<1> SUFFICES ASSUME NEW s \in Sids, Live(s)', sess'[s].gen = user'.gen
             PROVE  user'.active /\ ~user'.deleted /\ sess'[s].cred = user'.cred
  BY DEF Entitled
<1>1. CASE user'.gen = user.gen + 1 /\ UNCHANGED sess
  BY <1>0, <1>1
<1>2. CASE /\ user'.gen = user.gen /\ user'.cred = user.cred
           /\ user.active => user'.active
           /\ ~user.deleted => ~user'.deleted
  <2>1. CASE sess'[s] = sess[s] \/ sess'[s] = Gone
    BY <1>2, <2>1 DEF Entitled, Live, Gone, NoSession
  <2>2. ASSUME NEW q \in Reqs, NEW t \in Sids, NEW at, req[q].pc = "create",
               sess' = [sess EXCEPT ![t] = [st |-> "live", gen |-> req[q].gen,
                                            at |-> at, cred |-> req[q].cred]]
        PROVE  user'.active /\ ~user'.deleted /\ sess'[s].cred = user'.cred
    <3>1. CASE s = t
      <4>1. sess'[s].gen = req[q].gen /\ sess'[s].cred = req[q].cred
        BY <2>2, <3>1 DEF TypeOK
      <4>2. QED
        BY <1>2, <2>2, <4>1 DEF ChecksHold
    <3>2. CASE s # t
      BY <1>2, <2>2, <3>2 DEF Entitled, Live, TypeOK
    <3>3. QED
      BY <3>1, <3>2
  <2>3. QED
    BY <2>1, <2>2, SessSteps
<1>3. QED
  BY <1>1, <1>2, UserSteps

\* What the sessions of earlier generations behind the fence do: they end.
LEMMA Behind ==
  ASSUME TypeOK, Generations, Step, NEW s \in Sids, NEW g \in Nat, fence > g,
         Live(s)', sess'[s].gen <= g
  PROVE  Live(s) /\ sess'[s] = sess[s]
<1>1. fence \in Nat
  BY Bounds
<1>2. CASE sess'[s] = sess[s] \/ sess'[s] = Gone
  BY <1>2 DEF Live, Gone, NoSession
<1>3. ASSUME NEW q \in Reqs, NEW t \in Sids, NEW at, req[q].gen >= fence,
             sess' = [sess EXCEPT ![t] = [st |-> "live", gen |-> req[q].gen,
                                          at |-> at, cred |-> req[q].cred]]
      PROVE  Live(s) /\ sess'[s] = sess[s]
  <2>1. CASE s = t
    <3>1. sess'[s].gen = req[q].gen /\ req[q].gen \in Nat
      BY <1>3, <2>1, Bounds DEF TypeOK
    <3>2. QED
      BY <1>1, <1>3, <3>1
  <2>2. CASE s # t
    BY <1>3, <2>2 DEF Live, TypeOK
  <2>3. QED
    BY <2>1, <2>2
<1>4. QED
  BY <1>2, <1>3, SessSteps

LEMMA WorkStepInv ==
  ASSUME TypeOK, Generations, WorkIsFenced, Next PROVE WorkIsFenced'
<1>1. Step /\ work \in [Workers -> WorkPlace] /\ sess \in [Sids -> SessType]
  BY TypesAreOK DEF Next, Types
<1> SUFFICES ASSUME NEW w \in Workers
             PROVE  /\ work'[w].pc \in {"list", "delete", "publish", "finish"}
                         => fence' > work'[w].gen
                    /\ \A s \in Sids :
                         Live(s)' /\ sess'[s].gen <= work'[w].gen
                           /\ sess'[s].at <= work'[w].gen =>
                         /\ work'[w].pc = "delete" => s \in work'[w].todo
                         /\ work'[w].pc \notin {"publish", "finish"}
  BY DEF WorkIsFenced, Live
<1>2. /\ fence \in Nat /\ fence' \in Nat /\ fence' >= fence /\ work[w].gen \in Nat
  BY <1>1, Bounds, FenceSteps DEF TypeOK
<1>3. CASE WorkRests(w)
  BY <1>3 DEF WorkRests
<1>4. CASE work'[w] = work[w]
  <2>1. CASE work[w].pc \in {"delete", "publish", "finish"}
    <3>1. fence > work[w].gen
      BY <2>1 DEF WorkIsFenced
    <3>2. \A s \in Sids : Live(s)' /\ sess'[s].gen <= work[w].gen
                            => Live(s) /\ sess'[s] = sess[s]
      BY <1>1, <1>2, <3>1, Behind
    <3>3. QED
      BY <1>2, <1>4, <3>1, <3>2 DEF WorkIsFenced
  <2>2. CASE work[w].pc \notin {"delete", "publish", "finish"}
    BY <1>2, <1>4, <2>2 DEF WorkIsFenced
  <2>3. QED
    BY <2>1, <2>2
<1>5. CASE SetFence(w)
  BY <1>1, <1>2, <1>5 DEF SetFence, WorkPlace
<1>6. CASE ListSessions(w)
  <2>1. /\ fence' = fence /\ sess' = sess
        /\ work'[w].pc = "delete" /\ work'[w].gen = work[w].gen
        /\ work'[w].todo = {s \in Sids : /\ Live(s)
                                        /\ sess[s].gen <= work[w].gen
                                        /\ sess[s].at <= work[w].gen}
    BY <1>1, <1>6 DEF ListSessions, redis, WorkPlace
  <2>2. fence > work[w].gen
    BY <1>6 DEF ListSessions, WorkIsFenced
  <2>3. QED
    BY <2>1, <2>2 DEF Live
<1>7. CASE DeleteSessions(w)
  <2>1. /\ fence' = fence /\ work'[w].pc = "publish" /\ work'[w].gen = work[w].gen
        /\ fence > work[w].gen
    BY <1>1, <1>7 DEF DeleteSessions, WorkIsFenced, WorkPlace
  <2>2. ASSUME NEW s \in Sids, Live(s)', sess'[s].gen <= work[w].gen,
               sess'[s].at <= work[w].gen
        PROVE  FALSE
    <3>1. sess' = [t \in Sids |-> IF t \in work[w].todo THEN Gone ELSE sess[t]]
      BY <1>7 DEF DeleteSessions, End
    <3>2. Live(s) /\ sess'[s] = sess[s] /\ s \notin work[w].todo
      BY <2>2, <3>1 DEF Live, Gone, NoSession
    <3>3. QED
      BY <1>7, <2>2, <3>2 DEF DeleteSessions, WorkIsFenced
  <2>3. QED
    BY <2>1, <2>2
<1>8. CASE PublishOrThrow(w)
  <2>1. /\ fence' = fence /\ sess' = sess
        /\ work'[w].pc = "finish" /\ work'[w].gen = work[w].gen
    BY <1>1, <1>8 DEF PublishOrThrow, WorkPlace
  <2>2. QED
    BY <1>8, <2>1 DEF PublishOrThrow, WorkIsFenced, Live
<1>9. QED
  BY <1>1, <1>3, <1>4, <1>5, <1>6, <1>7, <1>8, WorkSteps DEF WorkMoves

LEMMA SettledStep ==
  ASSUME TypeOK, Generations, WorkIsFenced, SettledIsFenced, Next
  PROVE  SettledIsFenced'
<1>1. /\ Step /\ fence \in Nat /\ fence' \in Nat /\ fence' >= fence /\ fence' <= user'.gen
      /\ user.gen \in Nat
  BY Bounds, FenceSteps DEF Next
<1> SUFFICES ASSUME NEW g \in 1..user'.gen - 1, g \notin tasks'
             PROVE  /\ fence' > g
                    /\ \A s \in Sids : Live(s)' /\ sess'[s].gen <= g => sess'[s].at > g
  BY <1>1 DEF SettledIsFenced
<1>2. g \in Nat /\ g <= user.gen - 1
  <2>1. CASE tasks' = tasks \cup {user.gen} /\ user'.gen = user.gen + 1
    BY <1>1, <2>1
  <2>2. CASE user'.gen = user.gen
    BY <1>1, <2>2
  <2>3. QED
    BY <1>1, <2>1, <2>2, FenceSteps
<1>3. fence > g /\ \A s \in Sids : Live(s) /\ sess[s].gen <= g => sess[s].at > g
  <2>1. CASE g \notin tasks
    BY <1>1, <1>2, <2>1 DEF SettledIsFenced
  <2>2. CASE g \in tasks
    <3>1. PICK w \in Workers : FinishTask(w) /\ work[w].gen = g
      BY <1>1, <2>2, FenceSteps
    <3>2. \A s \in Sids : sess[s].at \in Nat
      BY Bounds DEF TypeOK
    <3>3. QED
      BY <1>2, <3>1, <3>2 DEF FinishTask, WorkIsFenced
  <2>3. QED
    BY <2>1, <2>2
<1>4. \A s \in Sids : Live(s)' /\ sess'[s].gen <= g => sess'[s].at > g
  BY <1>1, <1>2, <1>3, Behind
<1>5. QED
  BY <1>1, <1>2, <1>3, <1>4

LEMMA SignalStep ==
  ASSUME TypeOK, Generations, WorkIsFenced, SettledIsFenced, SignalIsDue, Next
  PROVE  SignalIsDue'
<1>1. /\ Step /\ env' = env /\ signals \in Nat /\ user.gen \in Nat /\ fence \in Nat
      /\ \A c \in Conns : conn[c].gen \in Nat
  BY Bounds DEF Next, TypeOK
<1>a. signals' \in Nat
  BY TypeStep DEF TypeOK
<1> SUFFICES ASSUME NEW c \in Conns, "lost" \notin env, conn'[c].pc # "closed",
                    ~conn'[c].raced, conn'[c].gen < user'.gen, ~(signals' > 0)
             PROVE  /\ conn'[c].gen \in tasks'
                    /\ \A w \in Workers :
                         work'[w].pc = "finish" => work'[w].gen # conn'[c].gen
  BY <1>1 DEF SignalIsDue
<1>2. ~SignalLost
  BY DEF SignalLost, Fault
<1>3. ~EvictUser /\ signals = 0
  BY <1>1, <1>2, <1>a, ConnSteps, SignalSteps DEF ConnMoves, NoConn, CheckMinGeneration,
     EvictUser, TypeOK
<1>4. CASE conn'[c].gen = conn[c].gen /\ conn[c].pc # "closed" /\ ~conn[c].raced
  <2>1. CASE conn[c].gen < user.gen
    <3>1. /\ conn[c].gen \in tasks
          /\ \A w \in Workers : work[w].pc = "finish" => work[w].gen # conn[c].gen
      BY <1>3, <1>4, <2>1 DEF SignalIsDue
    <3>2. conn[c].gen \in tasks'
      BY <1>1, <3>1, FenceSteps DEF FinishTask
    <3>3. ASSUME NEW w \in Workers, work'[w].pc = "finish"
          PROVE  work'[w].gen # conn[c].gen
      <4>1. work'[w] = work[w] \/ PublishOrThrow(w)
        <5>1. work \in [Workers -> WorkPlace]
          BY TypesAreOK DEF Types
        <5>2. SetFence(w) \/ ListSessions(w) \/ DeleteSessions(w)
                => work'[w].pc # "finish"
          BY <5>1 DEF SetFence, ListSessions, DeleteSessions, WorkPlace
        <5>3. QED
          BY <1>1, <3>3, <5>2, WorkSteps DEF WorkMoves, WorkRests
      <4>2. ~PublishOrThrow(w)
        BY <1>1, <1>a, <1>3 DEF PublishOrThrow
      <4>3. QED
        BY <3>1, <3>3, <4>1, <4>2
    <3>4. QED
      BY <1>4, <3>2, <3>3
  <2>2. CASE conn[c].gen = user.gen
    <3>1. /\ user'.gen = user.gen + 1 /\ tasks' = tasks \cup {user.gen}
          /\ \E w \in Workers :
               work' = [work EXCEPT ![w] = [NoWork EXCEPT !.pc = "fence", !.gen = user.gen]]
      BY <1>1, <1>4, <2>2, UserSteps
    <3>2. ASSUME NEW w \in Workers, work'[w].pc = "finish"
          PROVE  work'[w].gen # user.gen
      <4>1. work'[w] = work[w]
        BY <3>1, <3>2 DEF NoWork, TypeOK
      <4>2. QED
        BY <1>1, <3>2, <4>1 DEF Generations
    <3>3. QED
      BY <1>4, <2>2, <3>1, <3>2
  <2>3. QED
    BY <1>1, <2>1, <2>2 DEF Generations
<1>5. CASE CheckMinGeneration(c)
  <2>1. PICK s \in Sids : /\ Live(s) /\ sess[s].gen >= fence
                          /\ conn'[c].gen = sess[s].gen
    BY <1>5 DEF CheckMinGeneration, TypeOK
  <2>2. UNCHANGED <<user, tasks, work>>
    BY <1>5 DEF CheckMinGeneration
  <2>3. sess[s].gen \in 1..user.gen - 1
    BY <1>1, <2>1, <2>2, Bounds DEF Generations, TypeOK
  <2>4. sess[s].gen \in tasks
    BY <1>1, <2>1, <2>3 DEF SettledIsFenced
  <2>5. \A w \in Workers : work[w].pc = "finish" => work[w].gen # sess[s].gen
    BY <1>1, <2>1, <2>3 DEF WorkIsFenced, TypeOK
  <2>6. QED
    BY <2>1, <2>2, <2>4, <2>5
<1>6. QED
  BY <1>1, <1>3, <1>4, <1>5, ConnSteps DEF ConnMoves, NoConn

-----------------------------------------------------------------------------
LEMMA StepInv == ASSUME IInv, Next PROVE IInv'
<1>1. Step
  BY DEF Next
<1>2. TypeOK' /\ Generations'
  BY TypeStep, GenerationsStep DEF IInv
<1>3. ChecksHold' /\ Entitled'
  BY <1>1, ChecksStep, EntitledStep DEF IInv
<1>4. WorkIsFenced' /\ SettledIsFenced' /\ SignalIsDue'
  BY WorkStepInv, SettledStep, SignalStep DEF IInv
<1>5. QED
  BY <1>2, <1>3, <1>4 DEF IInv

LEMMA StutterInv == ASSUME IInv, UNCHANGED <<vars, env>> PROVE IInv'
BY DEF vars, IInv, TypeOK, Generations, ChecksHold, Entitled, WorkIsFenced,
       SettledIsFenced, SignalIsDue, Live

\* The inductive invariant holds in every behaviour, whatever fails, dies or
\* overlaps.
THEOREM Invariance == Spec => []IInv
<1>1. Init => IInv
  BY InitInv
<1>2. IInv /\ [Next]_<<vars, env>> => IInv'
  BY StepInv, StutterInv
<1>3. QED
  BY <1>1, <1>2, PTL DEF Spec

\* Nobody holds a usable session he is not entitled to: login, refresh and
\* createSession against a block, a deletion, new credentials, a restored
\* account.
THEOREM Entitlement == Spec => []UsableIsEntitled
<1>1. IInv => UsableIsEntitled
  BY DEF IInv, Entitled, UsableIsEntitled
<1>2. QED
  BY <1>1, Invariance, PTL

\* A revocation whose task is gone is fenced off and has ended its sessions
\* (revokeAllUserSessions, finalizeRevocation, processPendingTasks).
THEOREM Settlement == Spec => []SettledIsFenced
<1>1. IInv => SettledIsFenced
  BY DEF IInv
<1>2. QED
  BY <1>1, Invariance, PTL

\* No stream of a revoked session stays open but for those that a signal has
\* overtaken (ServeHTTP, EvictUser).
THEOREM Streams == Spec => []NoStaleStream
<1>1. IInv => NoStaleStream
  BY DEF IInv, SignalIsDue, NoStaleStream
<1>2. QED
  BY <1>1, Invariance, PTL
=============================================================================
