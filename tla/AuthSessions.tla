---------------------------- MODULE AuthSessions ----------------------------
(***************************************************************************)
(* Authentication sessions of one user and their revocation.               *)
(*                                                                         *)
(* PostgreSQL holds the user with a generation; every operation that must  *)
(* end the user's sessions increments it and stores an AuthRevocationTask  *)
(* in the same transaction.  Redis holds the sessions and min_generation,  *)
(* the fence.  The request itself works its task off (revokeAllUser-       *)
(* Sessions, a signal on auth:revocations, delete the task); when it fails *)
(* or dies, SessionRevocationCron does.  apps/realtime admits a stream     *)
(* after looking at the fence and at the session, and closes the user's    *)
(* streams when the signal arrives.                                        *)
(*                                                                         *)
(* A task is named by the generation it ends.  A session's createdAt is    *)
(* kept as `at`, one more than the last task it is not older than: `at <=  *)
(* g` says that it is not newer than task g.  The ZSET of a user's session *)
(* ids is written by the script that writes the session and is left out,   *)
(* as are expiry by TTL and the 30 days of grace of a deleted account.     *)
(***************************************************************************)
EXTENDS Naturals, FiniteSets

CONSTANTS
  Sids,       \* session ids
  None,       \* no session id
  Reqs,       \* requests to apps/api that sign in, refresh, sign out, restore
  Workers,    \* requests that revoke, and passes of the cron
  Conns,      \* streams of apps/realtime
  MaxGen,     \* bound: the user's last generation
  MaxFaults,  \* bound: failures, crashes and expired locks
  Cases       \* the sets of events to look at

\* fail: Redis or PostgreSQL fails; crash: a process of apps/api dies; slow:
\* a pass of the cron outlives its lock; lost: a signal is lost (Pub/Sub);
\* minute: the cron fires while revocations are at work; account: isActive,
\* deletedAt and the credentials change; rotate: tokens are refreshed and signed out; stream: there
\* are streams.
Events ==
  {"fail", "crash", "slow", "lost", "minute", "account", "rotate", "stream"}

ASSUME ConstantsAssumption ==
  /\ None \notin Sids
  /\ MaxGen \in Nat \ {0}
  /\ MaxFaults \in Nat
  /\ Cases \subseteq SUBSET Events

VARIABLES
  env,      \* the events that may happen in this behaviour; it never changes
  user,     \* generation, isActive, deletedAt set, and a count of the
            \*   changes of the credentials the user signs in with
  tasks,    \* AuthRevocationTask rows
  fence,    \* min_generation; 0 when there is none
  sess,     \* sess[s]: the session, and the credentials it was opened with
  req,      \* req[q]: where a request is, and what it has read
  work,     \* work[w]: where a revocation is, its task, sessions to delete,
            \*   and the tasks of the cron's pass still to do
  lock,     \* the cron's lock
  conn,     \* conn[c]: where a stream is, its session and generation, and whether a signal
            \*   arrived between its admission checks and its registration
  signals,  \* signals published and not delivered yet
  faults    \* failures, crashes and expired locks so far

vars == <<user, tasks, fence, sess, req, work, lock, conn, signals, faults>>
redis == <<fence, sess, signals>>

NoReq == [pc |-> "idle", gen |-> 0, cred |-> 0, sid |-> None]
NoWork == [pc |-> "idle", gen |-> 0, todo |-> {}, cron |-> FALSE, queue |-> {}]
NoConn == [pc |-> "closed", sid |-> None, gen |-> 0, raced |-> FALSE]
NoSession == [st |-> "new", gen |-> 0, at |-> 0, cred |-> 0]
Gone == [NoSession EXCEPT !.st = "gone"]

Init ==
  /\ env \in Cases
  /\ user = [gen |-> 1, active |-> TRUE, deleted |-> FALSE, cred |-> 1]
  /\ tasks = {}
  /\ fence = 0
  /\ sess = [s \in Sids |-> NoSession]
  /\ req = [q \in Reqs |-> NoReq]
  /\ work = [w \in Workers |-> NoWork]
  /\ lock = FALSE
  /\ conn = [c \in Conns |-> NoConn]
  /\ signals = 0
  /\ faults = 0

Fault(kind) ==
  /\ kind \in env
  /\ faults < MaxFaults
  /\ faults' = faults + 1

Live(s) == sess[s].st = "live"
Fresh == {s \in Sids : sess[s].st = "new"}

\* The sessions S are deleted.
End(S) == sess' = [s \in Sids |-> IF s \in S THEN Gone ELSE sess[s]]

\* Request q goes on to pc, or ends.
To(q, pc) == req' = [req EXCEPT ![q].pc = pc]
Done(q) == req' = [req EXCEPT ![q] = NoReq]

-----------------------------------------------------------------------------
\* login, first half: the user row is read and the password verified against
\* it.  loginUser starts here too, from the row found by a linked identity.
Login(q) ==
  /\ req[q] = NoReq
  /\ user.active
  /\ req' = [req EXCEPT ![q] = [pc |-> "verified", gen |-> user.gen,
                                cred |-> user.cred, sid |-> None]]
  /\ UNCHANGED <<user, tasks, redis, work, lock, conn, faults>>

\* Mutant of FreshUser: only isActive is looked at again.
FreshUser_NoCompare(q) ==
  /\ req[q].pc = "verified"
  /\ IF user.active
     THEN req' = [req EXCEPT ![q].pc = IF user.deleted THEN "restore" ELSE "create",
                             ![q].gen = user.gen]
     ELSE Done(q)
  /\ UNCHANGED <<user, tasks, redis, work, lock, conn, faults>>

\* The row is read again after the slow verification.
FreshUser(q) ==
  /\ req[q].pc = "verified"
  /\ IF user.active /\ user.gen = req[q].gen
     THEN To(q, IF user.deleted THEN "restore" ELSE "create")
     ELSE Done(q)
  /\ UNCHANGED <<user, tasks, redis, work, lock, conn, faults>>

\* restoreAccount reads the row once more and writes deletedAt by id alone.
RestoreRead(q) ==
  /\ req[q].pc = "restore"
  /\ To(q, IF user.deleted THEN "undelete" ELSE "create")
  /\ UNCHANGED <<user, tasks, redis, work, lock, conn, faults>>

RestoreWrite(q) ==
  /\ req[q].pc = "undelete"
  /\ user' = [user EXCEPT !.deleted = FALSE]
  /\ To(q, "create")
  /\ UNCHANGED <<tasks, redis, work, lock, conn, faults>>

\* A session under a fresh id.  A createdAt after the next task's is possible
\* before that task commits: the task's is the start of its transaction.
Store(q) ==
  \E at \in {user.gen, user.gen + 1} :
    sess' = [sess EXCEPT ![CHOOSE s \in Sids : s \in Fresh] =
      [st |-> "live", gen |-> req[q].gen, at |-> at, cred |-> req[q].cred]]

\* createSession: one script compares the generation with the fence and
\* stores the session.
CreateSession(q) ==
  /\ req[q].pc = "create"
  /\ \/ req[q].gen >= fence /\ Fresh # {} /\ Store(q)
     \/ req[q].gen < fence /\ UNCHANGED sess
  /\ Done(q)
  /\ UNCHANGED <<user, tasks, fence, work, lock, conn, signals, faults>>

-----------------------------------------------------------------------------
\* refresh and logout find the session of the token.
GetSession(q) ==
  /\ req[q] = NoReq
  /\ "rotate" \in env
  /\ \E s \in Sids, pc \in {"refresh", "logout"} :
       /\ Live(s)
       /\ req' = [req EXCEPT ![q] = [pc |-> pc, gen |-> sess[s].gen,
                                     cred |-> sess[s].cred, sid |-> s]]
  /\ UNCHANGED <<user, tasks, redis, work, lock, conn, faults>>

\* refresh: the user may still have this session.
Refresh(q) ==
  /\ req[q].pc = "refresh"
  /\ To(q, IF user.active /\ ~user.deleted /\ user.gen = req[q].gen
           THEN "rotate" ELSE "drop")
  /\ UNCHANGED <<user, tasks, redis, work, lock, conn, faults>>

\* revokeSession: the old session of a rotation, or a refused one.
RevokeSession(q) ==
  /\ req[q].pc \in {"rotate", "drop", "logout"}
  /\ End({req[q].sid})
  /\ CASE req[q].pc = "rotate" ->
            req' = [req EXCEPT ![q].pc = "create", ![q].sid = None]
       [] req[q].pc = "drop" -> Done(q)
       [] req[q].pc = "logout" -> To(q, "publish")
  /\ UNCHANGED <<user, tasks, fence, work, lock, conn, signals, faults>>

\* logout: the signal is best effort.
Logout(q) ==
  /\ req[q].pc = "publish"
  /\ \/ signals' = signals + 1 /\ UNCHANGED faults
     \/ Fault("fail") /\ UNCHANGED signals
  /\ Done(q)
  /\ UNCHANGED <<user, tasks, fence, sess, work, lock, conn>>

-----------------------------------------------------------------------------
\* restoreUser and updateStatus(isActive) read the row before they write it.
AdminRead(q) ==
  /\ req[q] = NoReq
  /\ "account" \in env
  /\ \E pc \in {"restoreUser", "activate"} :
       /\ user.deleted = (pc = "restoreUser")
       /\ To(q, pc)
  /\ UNCHANGED <<user, tasks, redis, work, lock, conn, faults>>

RestoreUser(q) ==
  /\ req[q].pc = "restoreUser"
  /\ user' = [user EXCEPT !.deleted = FALSE, !.active = TRUE]
  /\ Done(q)
  /\ UNCHANGED <<tasks, redis, work, lock, conn, faults>>

Activate(q) ==
  /\ req[q].pc = "activate"
  /\ user' = [user EXCEPT !.active = TRUE]
  /\ Done(q)
  /\ UNCHANGED <<tasks, redis, work, lock, conn, faults>>

\* A request or pass takes a free place among the workers, whichever.
Takes(w) ==
  /\ work[w] = NoWork
  /\ w = CHOOSE v \in Workers : work[v] = NoWork

\* The transaction of an operation that ends the user's sessions; u is the
\* row it writes.  Worker w goes on with the task.
Revoking(w, u) ==
  /\ Takes(w)
  /\ user.gen < MaxGen
  /\ user' = [u EXCEPT !.gen = user.gen + 1]
  /\ tasks' = tasks \cup {user.gen}
  /\ work' = [work EXCEPT ![w] = [NoWork EXCEPT !.pc = "fence", !.gen = user.gen]]
  /\ UNCHANGED <<redis, req, lock, conn, faults>>

\* The operations that change what the user signs in with, or the account.
Changing(w, u) == "account" \in env /\ Revoking(w, u)

NewCredentials == [user EXCEPT !.cred = @ + 1]

LogoutAll(w) == Revoking(w, user)
UpdateUser(w) == Revoking(w, user)
ChangePassword(w) == Changing(w, NewCredentials)
ResetPassword(w) == Changing(w, NewCredentials)
ConfirmTelegramUnlink(w) == Changing(w, NewCredentials)
UnlinkGithub(w) == Changing(w, NewCredentials)
AdminResetPassword(w) == Changing(w, NewCredentials)
DeactivateAccount(w) == Changing(w, [user EXCEPT !.deleted = TRUE])

Block(w) == Changing(w, [user EXCEPT !.active = FALSE])
DeleteUser(w) == Changing(w, [user EXCEPT !.active = FALSE, !.deleted = TRUE])

-----------------------------------------------------------------------------
\* The cron's pass takes the oldest of the tasks that it still has to do.
OldestFirst(w, queue) ==
  \E g \in queue :
    /\ \A h \in queue : g <= h
    /\ work' = [work EXCEPT ![w] = [NoWork EXCEPT !.pc = "fence", !.gen = g,
                                     !.cron = TRUE, !.queue = queue \ {g}]]

\* What worker w is left with after a task: the rest of the cron's pass; the
\* end of a pass deletes the lock, whoever holds it now.
NextTask(w) ==
  IF work[w].queue # {}
  THEN OldestFirst(w, work[w].queue) /\ UNCHANGED lock
  ELSE work' = [work EXCEPT ![w] = NoWork] /\ lock' = (lock /\ ~work[w].cron)

\* handleCron: one pass over the tasks that there are.
HandleCron(w) ==
  /\ Takes(w)
  /\ ~lock
  /\ "minute" \in env \/ \A v \in Workers : work[v] = NoWork
  /\ OldestFirst(w, tasks)
  /\ lock' = TRUE
  /\ UNCHANGED <<user, tasks, redis, req, conn, faults>>

\* Mutant of LockExpires: the lock has no TTL.
LockExpires_NoTtl == FALSE /\ UNCHANGED vars

\* The lock expires after its holder has died, or under a slow pass.
LockExpires ==
  /\ lock
  /\ \/ /\ \A w \in Workers : ~work[w].cron
        /\ UNCHANGED faults
     \/ Fault("slow")
  /\ lock' = FALSE
  /\ UNCHANGED <<user, tasks, redis, req, work, conn>>

\* revokeAllUserSessions: first the fence, which only rises,
SetFence(w) ==
  /\ work[w].pc = "fence"
  /\ fence' = IF work[w].gen + 1 > fence THEN work[w].gen + 1 ELSE fence
  /\ work' = [work EXCEPT ![w].pc = "list"]
  /\ UNCHANGED <<user, tasks, sess, req, lock, conn, signals, faults>>

\* then the sessions of that generation or an earlier one, older than the task,
ListSessions(w) ==
  /\ work[w].pc = "list"
  /\ work' = [work EXCEPT ![w].pc = "delete", ![w].todo =
       {s \in Sids : /\ Live(s)
                     /\ sess[s].gen <= work[w].gen
                     /\ sess[s].at <= work[w].gen}]
  /\ UNCHANGED <<user, tasks, redis, req, lock, conn, faults>>

\* which are deleted; those whose deletion fails make the attempt fail.
DeleteSessions(w) ==
  /\ work[w].pc = "delete"
  /\ End(work[w].todo)
  /\ work' = [work EXCEPT ![w].pc = "publish", ![w].todo = {}]
  /\ UNCHANGED <<user, tasks, fence, req, lock, conn, signals, faults>>

DeleteSessionsFails(w) ==
  /\ work[w].pc = "delete"
  /\ \E gone \in SUBSET work[w].todo : gone # work[w].todo /\ End(gone)
  /\ Fault("fail")
  /\ work' = [work EXCEPT ![w].pc = "failed", ![w].todo = {}]
  /\ UNCHANGED <<user, tasks, fence, req, lock, conn, signals>>

\* Mutant of PublishOrThrow: the signal is sent as best effort.
PublishOrThrow_Forgotten(w) ==
  /\ work[w].pc = "publish"
  /\ work' = [work EXCEPT ![w].pc = "finish"]
  /\ UNCHANGED <<user, tasks, redis, req, lock, conn, faults>>

PublishOrThrow(w) ==
  /\ work[w].pc = "publish"
  /\ signals' = signals + 1
  /\ work' = [work EXCEPT ![w].pc = "finish"]
  /\ UNCHANGED <<user, tasks, fence, sess, req, lock, conn, faults>>

\* The task is deleted last.
FinishTask(w) ==
  /\ work[w].pc = "finish"
  /\ tasks' = tasks \ {work[w].gen}
  /\ NextTask(w)
  /\ UNCHANGED <<user, redis, req, conn, faults>>

\* A call to Redis or PostgreSQL fails.
CallFails(w) ==
  /\ work[w].pc \in {"fence", "list", "publish", "finish"}
  /\ Fault("fail")
  /\ work' = [work EXCEPT ![w].pc = "failed", ![w].todo = {}]
  /\ UNCHANGED <<user, tasks, redis, req, lock, conn>>

\* Mutant of GiveUp: the request deletes its task although it has failed.
GiveUp_DropsTask(w) ==
  /\ work[w].pc = "failed"
  /\ tasks' = tasks \ {work[w].gen}
  /\ NextTask(w)
  /\ UNCHANGED <<user, redis, req, conn, faults>>

\* A request tries again or, after its third attempt, leaves the task to the
\* cron (the outage outlasts the retries or it does not); a pass goes on with
\* its next task.
Retry(w) ==
  /\ work[w].pc = "failed"
  /\ ~work[w].cron
  /\ work' = [work EXCEPT ![w].pc = "fence"]
  /\ UNCHANGED <<user, tasks, redis, req, lock, conn, faults>>

GiveUp(w) ==
  /\ work[w].pc = "failed"
  /\ NextTask(w)
  /\ UNCHANGED <<user, tasks, redis, req, conn, faults>>

\* A process dies; its lock stays until it expires.
Crash ==
  /\ Fault("crash")
  /\ \/ \E w \in Workers : /\ work[w] # NoWork
                           /\ work' = [work EXCEPT ![w] = NoWork]
                           /\ UNCHANGED req
     \/ \E q \in Reqs : req[q] # NoReq /\ Done(q) /\ UNCHANGED work
  /\ UNCHANGED <<user, tasks, redis, lock, conn>>

-----------------------------------------------------------------------------
\* The notification stream of apps/realtime: the fence (a token whose
\* session has ended already would be refused at the next step),
CheckMinGeneration(c) ==
  /\ conn[c] = NoConn
  /\ "stream" \in env
  /\ \E s \in Sids :
       /\ Live(s)
       /\ sess[s].gen >= fence
       /\ conn' = [conn EXCEPT ![c] = [pc |-> "fenced", sid |-> s,
                                       gen |-> sess[s].gen, raced |-> FALSE]]
  /\ UNCHANGED <<user, tasks, redis, req, work, lock, faults>>

\* then the session,
IsAuthSessionActive(c) ==
  /\ conn[c].pc = "fenced"
  /\ conn' = [conn EXCEPT ![c] =
       IF Live(@.sid) THEN [@ EXCEPT !.pc = "checked"] ELSE NoConn]
  /\ UNCHANGED <<user, tasks, redis, req, work, lock, faults>>

\* then the hub.
Register(c) ==
  /\ conn[c].pc = "checked"
  /\ conn' = [conn EXCEPT ![c].pc = "open", ![c].sid = None]
  /\ UNCHANGED <<user, tasks, redis, req, work, lock, faults>>

\* The browser leaves.
Disconnect(c) ==
  /\ conn[c].pc = "open"
  /\ conn' = [conn EXCEPT ![c] = NoConn]
  /\ UNCHANGED <<user, tasks, redis, req, work, lock, faults>>

\* A signal arrives: EvictUser closes what is registered.
EvictUser ==
  /\ signals > 0
  /\ signals' = signals - 1
  /\ conn' = [c \in Conns |->
       CASE conn[c].pc = "open" -> NoConn
         [] conn[c].pc \in {"fenced", "checked"} -> [conn[c] EXCEPT !.raced = TRUE]
         [] OTHER -> conn[c]]
  /\ UNCHANGED <<user, tasks, fence, sess, req, work, lock, faults>>

\* It is lost: the subscription is down.
SignalLost ==
  /\ signals > 0
  /\ Fault("lost")
  /\ signals' = signals - 1
  /\ UNCHANGED <<user, tasks, fence, sess, req, work, lock, conn>>

-----------------------------------------------------------------------------
ReqStep(q) ==
  \/ FreshUser(q) \/ RestoreRead(q) \/ RestoreWrite(q) \/ CreateSession(q)
  \/ Refresh(q) \/ RevokeSession(q) \/ Logout(q)
  \/ RestoreUser(q) \/ Activate(q)

Operation(w) ==
  \/ LogoutAll(w) \/ ChangePassword(w) \/ ResetPassword(w)
  \/ ConfirmTelegramUnlink(w) \/ UnlinkGithub(w) \/ AdminResetPassword(w)
  \/ DeactivateAccount(w) \/ UpdateUser(w) \/ Block(w) \/ DeleteUser(w)

WorkStep(w) ==
  \/ SetFence(w) \/ ListSessions(w) \/ DeleteSessions(w) \/ DeleteSessionsFails(w)
  \/ PublishOrThrow(w) \/ FinishTask(w) \/ Retry(w) \/ GiveUp(w)

Step ==
  \/ \E q \in Reqs : Login(q) \/ GetSession(q) \/ AdminRead(q) \/ ReqStep(q)
  \/ \E w \in Workers :
       Operation(w) \/ HandleCron(w) \/ WorkStep(w) \/ CallFails(w)
  \/ \E c \in Conns : \/ CheckMinGeneration(c) \/ IsAuthSessionActive(c)
                      \/ Register(c) \/ Disconnect(c)
  \/ LockExpires \/ Crash \/ EvictUser \/ SignalLost

Next == Step /\ UNCHANGED env

Spec == Init /\ [][Next]_<<vars, env>>

\* What has begun goes on, the cron fires every minute and a lock expires.
Fairness ==
  /\ \A w \in Workers : WF_vars(WorkStep(w))
  /\ WF_vars(\E w \in Workers : HandleCron(w))
  /\ WF_vars(LockExpires)

FairSpec == Spec /\ Fairness

-----------------------------------------------------------------------------
TypeOK ==
  /\ env \in Cases
  /\ user \in [gen : 1..MaxGen, active : BOOLEAN, deleted : BOOLEAN,
               cred : 1..MaxGen]
  /\ tasks \subseteq 1..MaxGen
  /\ fence \in 0..MaxGen
  /\ sess \in [Sids -> [st : {"new", "live", "gone"}, gen : 0..MaxGen,
                        at : 0..MaxGen + 1, cred : 0..MaxGen]]
  /\ req \in [Reqs -> [pc : {"idle", "verified", "restore", "undelete", "create",
                             "refresh", "rotate", "drop", "logout", "publish",
                             "restoreUser", "activate"},
                       gen : 0..MaxGen, cred : 0..MaxGen, sid : Sids \cup {None}]]
  /\ work \in [Workers -> [pc : {"idle", "fence", "list", "delete", "publish",
                                 "finish", "failed"},
                           gen : 0..MaxGen, todo : SUBSET Sids,
                           cron : BOOLEAN, queue : SUBSET (1..MaxGen)]]
  /\ lock \in BOOLEAN
  /\ conn \in [Conns -> [pc : {"closed", "fenced", "checked", "open"},
                         sid : Sids \cup {None}, gen : 0..MaxGen,
                         raced : BOOLEAN]]
  /\ signals \in Nat
  /\ faults \in 0..MaxFaults

\* A session that AccessTokenGuard lets through (its generation is the
\* user's) belongs to a user who is active and not deleted, and was opened
\* with credentials that still hold: no sign-in or refresh that was under way
\* survives a block, a deletion, a new password or an unlinked identity.
UsableIsEntitled ==
  /\ TypeOK
  /\ \A s \in Sids :
       Live(s) /\ sess[s].gen = user.gen =>
         user.active /\ ~user.deleted /\ sess[s].cred = user.cred

\* A revocation that has no task any more is complete: its generation is
\* fenced off for good, and of the sessions it had to end only those created
\* after its task remain, which the fence keeps out.  The fence never shuts
\* out the user's present generation (revokeAllUserSessions, createSession).
SettledIsFenced ==
  /\ fence <= user.gen
  /\ \A g \in 1..user.gen - 1 :
       g \notin tasks =>
         /\ fence > g
         /\ \A s \in Sids : Live(s) /\ sess[s].gen <= g => sess[s].at > g

\* When no revocation and no signal is under way, and no signal was lost, the
\* only stream of a revoked session that is open registered with the hub
\* after the signal that was to close it (EvictUser).
NoStaleStream ==
  tasks = {} /\ signals = 0 /\ "lost" \notin env =>
    \A c \in Conns :
      conn[c].pc = "open" /\ conn[c].gen < user.gen => conn[c].raced

\* Every revocation that commits is carried out, whatever fails or dies.
RevocationsEnd == []<>(tasks = {})
=============================================================================
