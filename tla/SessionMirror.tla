----------------------------- MODULE SessionMirror -----------------------------
(***************************************************************************)
(* One interview session in PostgreSQL and its mirror in Redis             *)
(* (sessions.service.ts), by which the realtime service admits sockets     *)
(* (handler/websocket.go).  The calls that change the session write the    *)
(* row first, some under its lock, and the keys of the mirror one by one;  *)
(* realtime reads the keys one by one; who has lost his place is evicted   *)
(* by a message.  Every hour reconcileMirrors rewrites the mirror from     *)
(* what it has read of the row.                                            *)
(*                                                                         *)
(* A transaction that locks the row is one step: what it does in Redis on  *)
(* the way is undone by no one, so a failing one may leave that behind.    *)
(* Sessions from before tokens were kept in PostgreSQL, roles, passwords,  *)
(* guests without an account, notifications and the caches of the          *)
(* dashboard are left out.  The checks of the token of a socket are those  *)
(* of AuthSessions, its life after Register is RoomLifecycle.              *)
(***************************************************************************)
EXTENDS Naturals, FiniteSets

CONSTANTS
  Accounts, Owner,
  Calls,            \* calls of the API at a time
  MaxParticipants,  \* maxSessionParticipants, 10 in the code
  MaxFaults,        \* bound: calls that fail halfway, lost messages, lost mirrors
  Cases,            \* the sets of events, and of guests, to look at
  MaxCalls          \* bound, in each case: calls after createSession

\* The calls that may be made; fail: one ends halfway; lost: a message of a
\* revocation; flush: Redis loses the mirror; connect: sockets are opened.
Kinds == {"join", "add", "remove", "rotate", "close", "meet"}
Events == Kinds \cup {"fail", "lost", "flush", "connect"}

ASSUME ConstantsAssumption ==
  /\ Owner \in Accounts /\ Calls # {}
  /\ MaxParticipants \in Nat \ {0}
  /\ MaxCalls \in [Cases -> Nat] /\ MaxFaults \in Nat
  /\ Cases \subseteq SUBSET (Events \cup Accounts)

VARIABLES
  env,      \* what may happen in this behaviour, and to whom; it never changes
  db,       \* the row: whether it is ACTIVE, its participants, its invite token
  mirror,   \* session:{id}:active ("none", "true", "closed"), :members, :invite (0: none)
  minted,   \* invite tokens generated so far: no two are equal
  knows,    \* knows[u]: the invite tokens a user has been given
  call,     \* call[c]: a call under way: its kind and step, its user, the token it
            \*   has made or will answer with, the participants it has read
  sweep,    \* reconcileMirrors: whether it has read the row, and what
  socket,   \* socket[u]: the socket of u: none, active, member (checked), open
  evicted,  \* the users with a revocation on its way
  calls, faults,
  out,      \* the users who were removed and not invited again
  stray,    \* the users with an open socket no revocation is sent to any more
  revived,  \* a closed mirror was lost, never written or made active again
  mixed,    \* the token of the mirror was left different from the row's
  unlinked, \* the mirror has been without a token, lost or never written
  early,    \* tokens joinMeeting has read from the row when the mirror had another
  leaked    \* a rotation was late to write one of these, over a newer one

row == <<db, minted, knows>>
bounds == <<env, calls, faults>>
sockets == <<socket, evicted, stray>>
notes == <<revived, mixed, unlinked, early, leaked>>
mirrorVars == <<env, db, mirror, minted, knows, call, sweep, socket, evicted, calls, faults,
                out, stray, revived, mixed, unlinked, early, leaked>>

NoCall == [kind |-> "none", pc |-> "idle", u |-> Owner, token |-> 0, list |-> {}]
NoMirror == [active |-> "none", members |-> {}, token |-> 0]
NoSweep == [read |-> FALSE, list |-> {}, token |-> 0]

\* createSession, or createMeetingSession, has inserted the row.
MirrorInit ==
  /\ env \in Cases
  /\ db = [open |-> TRUE, members |-> {Owner}, token |-> 1]
  /\ mirror = NoMirror /\ minted = 1
  /\ knows = [u \in Accounts |-> {}]
  /\ call = [c \in Calls |-> IF c = CHOOSE d \in Calls : TRUE
                             THEN [NoCall EXCEPT !.kind = "create", !.pc = "active",
                                                 !.token = 1]
                             ELSE NoCall]
  /\ sweep = NoSweep
  /\ socket = [u \in Accounts |-> "none"]
  /\ evicted = {}
  /\ calls = 0 /\ faults = 0
  /\ out = {} /\ stray = {} /\ revived = FALSE /\ mixed = FALSE
  /\ unlinked = FALSE /\ early = {} /\ leaked = FALSE

People == {Owner} \cup (env \cap Accounts)

Fault(kind) ==
  /\ kind \in env /\ faults < MaxFaults
  /\ faults' = faults + 1 /\ UNCHANGED <<env, calls>>

Entitled(u) == db.open /\ u \in db.members

At(c, kind, pc) == call[c].kind = kind /\ call[c].pc = pc
Goto(c, pc) == call' = [call EXCEPT ![c].pc = pc]
End(c) == call' = [call EXCEPT ![c] = NoCall]

\* A call of the API: the owner's, or for a guest who joins, his own.  The id of
\* the session is known when createSession has returned.
Begin(c, kind, u) ==
  /\ kind \in env /\ calls < MaxCalls[env]
  /\ call[c].kind = "none" /\ \A d \in Calls : call[d].kind # "create"
  /\ kind \in {"rotate", "close"} => u = Owner
  /\ kind = "add" => u # Owner
  /\ call' = [call EXCEPT ![c] = [NoCall EXCEPT !.kind = kind, !.pc = "begin", !.u = u]]
  /\ calls' = calls + 1
  /\ UNCHANGED <<env, faults, row, mirror, sweep, sockets, out, notes>>

\* What the call answers: its user now knows the token.
Answer(c) == knows' = [knows EXCEPT ![call[c].u] = @ \cup {call[c].token}]

\* Somebody passes on a link he knows.  Who was removed invites nobody who was.
Invite(u) ==
  /\ "join" \in env /\ db.open /\ u \notin db.members
  /\ \E v \in People : \E t \in knows[v] :
       /\ t \notin knows[u] \/ u \in out
       /\ knows' = [knows EXCEPT ![u] = @ \cup {t}]
       /\ out' = IF v \in out THEN out ELSE out \ {u}
  /\ UNCHANGED <<db, minted, mirror, call, sweep, sockets, bounds, notes>>

-----------------------------------------------------------------------------
(* The calls that take no lock *)

\* What a step of the mirror alone leaves alone.
MirrorOnly == UNCHANGED <<row, sweep, sockets, bounds, out>>

\* createSession and createMeetingSession: three keys, one after the other.
CreateSteps(c) ==
  \/ /\ At(c, "create", "active") /\ Goto(c, "member")
     /\ mirror' = [mirror EXCEPT !.active = "true"]
     /\ MirrorOnly /\ UNCHANGED notes
  \/ /\ At(c, "create", "member") /\ Goto(c, "invite")
     /\ mirror' = [mirror EXCEPT !.members = @ \cup {Owner}]
     /\ MirrorOnly /\ UNCHANGED notes
  \/ /\ At(c, "create", "invite") /\ End(c) /\ Answer(c)
     /\ mirror' = [mirror EXCEPT !.token = call[c].token]
     /\ UNCHANGED <<db, minted, sweep, sockets, bounds, out, notes>>

\* rotateInviteToken: the check, the row, and the key of the token.
RotateSteps(c) ==
  \/ /\ At(c, "rotate", "begin")
     /\ IF db.open THEN Goto(c, "update") ELSE End(c)
     /\ MirrorOnly /\ UNCHANGED <<mirror, notes>>
  \/ /\ At(c, "rotate", "update")
     /\ db' = [db EXCEPT !.token = minted + 1] /\ minted' = minted + 1
     /\ call' = [call EXCEPT ![c].pc = "set", ![c].token = minted + 1]
     /\ UNCHANGED <<knows, mirror, sweep, sockets, bounds, out, notes>>
  \/ /\ At(c, "rotate", "set") /\ End(c) /\ Answer(c)
     /\ mirror' = [mirror EXCEPT !.token = call[c].token]
     /\ mixed' = (call[c].token # db.token)
     /\ leaked' = (leaked \/ call[c].token \in early \ {db.token})
     /\ UNCHANGED <<db, minted, sweep, sockets, bounds, out, revived, unlinked, early>>

\* closeSession, and endMeeting: the participants are read before the row is
\* closed; each of them is sent a revocation before the mirror is closed.
CloseSteps(c) ==
  \/ /\ At(c, "close", "begin")
     /\ IF db.open
          THEN call' = [call EXCEPT ![c].pc = "update", ![c].list = db.members]
          ELSE End(c)
     /\ MirrorOnly /\ UNCHANGED <<mirror, notes>>
  \/ /\ At(c, "close", "update") /\ Goto(c, "publish")
     /\ db' = [db EXCEPT !.open = FALSE]
     /\ stray' = stray \cup {u \in db.members \ call[c].list : socket[u] = "open"}
     /\ UNCHANGED <<minted, knows, mirror, sweep, socket, evicted, bounds, out, notes>>
  \/ /\ At(c, "close", "publish")
     /\ \E u \in call[c].list :
          /\ evicted' = evicted \cup {u}
          /\ call' = [call EXCEPT ![c].list = @ \ {u}]
     /\ UNCHANGED <<row, mirror, sweep, socket, stray, bounds, out, notes>>
  \/ /\ At(c, "close", "publish") /\ call[c].list = {} /\ Goto(c, "token")
     /\ mirror' = [mirror EXCEPT !.active = "closed"]
     /\ MirrorOnly /\ UNCHANGED notes
  \/ /\ At(c, "close", "token") /\ Goto(c, "members")
     /\ mirror' = [mirror EXCEPT !.token = 0]
     /\ MirrorOnly /\ UNCHANGED notes
  \/ /\ At(c, "close", "members") /\ End(c)
     /\ mirror' = [mirror EXCEPT !.members = {}]
     /\ MirrorOnly /\ UNCHANGED notes

\* joinMeeting: what it has read decides, and is what it answers; the key of a
\* participant is written whatever the mirror says, then the mirror is made active.
MeetSteps(c) ==
  \/ /\ At(c, "meet", "begin")
     /\ IF db.open
          THEN /\ call' = [call EXCEPT ![c].pc = "create", ![c].list = db.members,
                                       ![c].token = db.token]
               /\ early' = IF mirror.token = db.token THEN early
                           ELSE early \cup {db.token}
          ELSE End(c) /\ UNCHANGED early
     /\ MirrorOnly /\ UNCHANGED <<mirror, revived, mixed, unlinked, leaked>>
  \/ /\ At(c, "meet", "create")
     /\ LET u == call[c].u
            known == u \in call[c].list
            fits == Cardinality(call[c].list) < MaxParticipants
        IN /\ IF known \/ (fits /\ u \notin db.members)
                THEN Goto(c, "member")
                ELSE End(c)
           /\ IF ~known /\ fits
                THEN db' = [db EXCEPT !.members = @ \cup {u}] /\ out' = out \ {u}
                ELSE UNCHANGED <<db, out>>
     /\ UNCHANGED <<minted, knows, mirror, sweep, sockets, bounds, notes>>
  \/ /\ At(c, "meet", "member") /\ Goto(c, "check")
     /\ mirror' = [mirror EXCEPT !.members = @ \cup {call[c].u}]
     /\ MirrorOnly /\ UNCHANGED notes
  \/ /\ At(c, "meet", "check")
     /\ Goto(c, IF mirror.active = "true" THEN "answer" ELSE "set")
     /\ MirrorOnly /\ UNCHANGED <<mirror, notes>>
  \/ /\ At(c, "meet", "set") /\ Goto(c, "answer")
     /\ mirror' = [mirror EXCEPT !.active = "true"]
     /\ revived' = (revived \/ ~db.open)
     /\ MirrorOnly /\ UNCHANGED <<mixed, unlinked, early, leaked>>
  \/ /\ At(c, "meet", "answer") /\ End(c) /\ Answer(c)
     /\ UNCHANGED <<db, minted, mirror, sweep, sockets, bounds, out, notes>>

-----------------------------------------------------------------------------
(* The calls whose transaction holds the row's lock *)

\* joinSession: the key of the token, restored from the row when it is lost, is
\* what the caller's token is compared with, and what he is answered.
JoinTx(c) ==
  /\ At(c, "join", "begin")
  /\ LET u == call[c].u
         token == IF mirror.token = 0 THEN db.token ELSE mirror.token
         invited == /\ Cardinality(db.members) < MaxParticipants
                    /\ token \in knows[u]
     IN /\ IF Entitled(u) \/ (db.open /\ invited)
             THEN /\ db' = [db EXCEPT !.members = @ \cup {u}]
                  /\ call' = [call EXCEPT ![c].pc = "activate", ![c].token = token]
             ELSE UNCHANGED db /\ End(c)
        /\ mirror' = [mirror EXCEPT !.token = IF db.open THEN token ELSE @]
  /\ UNCHANGED <<minted, knows, sweep, sockets, bounds, out, notes>>

\* A bug to be caught: the mirror is made active whatever it says.
Activate_Blind(c) ==
  /\ At(c, "join", "activate") /\ End(c)
  /\ mirror' = [mirror EXCEPT !.active = "true", !.members = @ \cup {call[c].u}]
  /\ Answer(c) /\ UNCHANGED <<db, minted, sweep, sockets, bounds, out, notes>>

\* ACTIVATE_SESSION_MEMBER_LUA, and the answer.
Activate(c) ==
  /\ At(c, "join", "activate") /\ End(c)
  /\ IF mirror.active = "closed"
       THEN UNCHANGED <<mirror, knows>>
       ELSE /\ mirror' = [mirror EXCEPT !.active = "true", !.members = @ \cup {call[c].u}]
            /\ Answer(c)
  /\ revived' = (revived \/ (~db.open /\ mirror.active = "none"))
  /\ UNCHANGED <<db, minted, sweep, sockets, bounds, out, mixed, unlinked, early, leaked>>

\* addParticipant
AddSteps(c) ==
  \/ /\ At(c, "add", "begin")
     /\ LET u == call[c].u
        IN IF Entitled(u) \/ (db.open /\ Cardinality(db.members) < MaxParticipants)
             THEN /\ db' = [db EXCEPT !.members = @ \cup {u}] /\ out' = out \ {u}
                  /\ Goto(c, "member")
             ELSE UNCHANGED <<db, out>> /\ End(c)
     /\ UNCHANGED <<minted, knows, mirror, sweep, sockets, bounds, notes>>
  \/ /\ At(c, "add", "member") /\ End(c)
     /\ mirror' = [mirror EXCEPT !.members = @ \cup {call[c].u}]
     /\ MirrorOnly /\ UNCHANGED notes

\* removeParticipant: the link he knows is replaced, in the row and in the mirror,
\* with his place; then his key is deleted, and his socket evicted.
MayRemove(u) == Entitled(u) /\ u # Owner

RemoveTx(c) ==
  /\ At(c, "remove", "begin") /\ MayRemove(call[c].u)
  /\ minted' = minted + 1
  /\ db' = [db EXCEPT !.token = minted + 1, !.members = @ \ {call[c].u}]
  /\ mirror' = [mirror EXCEPT !.token = minted + 1]
  /\ mixed' = FALSE
  /\ out' = out \cup {call[c].u}
  /\ Goto(c, "hdel")
  /\ UNCHANGED <<knows, sweep, sockets, bounds, revived, unlinked, early, leaked>>

RemoveRefused(c) ==
  /\ At(c, "remove", "begin") /\ ~MayRemove(call[c].u) /\ End(c)
  /\ UNCHANGED <<mirror, notes>> /\ MirrorOnly

Hdel(c) ==
  /\ At(c, "remove", "hdel") /\ Goto(c, "publish")
  /\ mirror' = [mirror EXCEPT !.members = @ \ {call[c].u}]
  /\ MirrorOnly /\ UNCHANGED notes

\* A bug to be caught: nobody is told.
Evict_Silent(c) ==
  /\ At(c, "remove", "publish") /\ End(c)
  /\ MirrorOnly /\ UNCHANGED <<mirror, notes>>

\* publishUserRevocation
Evict(c) ==
  /\ At(c, "remove", "publish") /\ End(c)
  /\ evicted' = evicted \cup {call[c].u}
  /\ UNCHANGED <<row, mirror, sweep, socket, stray, bounds, out, notes>>

-----------------------------------------------------------------------------
(* Failures *)

\* The commands a call still owes are not executed: the connection to Redis or the
\* process is lost.  Whoever it was to evict stays.
WillEvict(c) ==
  IF call[c].kind = "close" /\ call[c].pc = "publish" THEN call[c].list
  ELSE IF call[c].kind = "remove" /\ call[c].pc \in {"hdel", "publish"} THEN {call[c].u}
  ELSE {}

Abort(c) ==
  /\ call[c].pc \notin {"idle", "begin"} /\ Fault("fail") /\ End(c)
  /\ stray' = stray \cup {u \in WillEvict(c) : socket[u] = "open"}
  /\ revived' = (revived \/ At(c, "close", "publish"))
  /\ mixed' = (mixed \/ At(c, "rotate", "set"))
  /\ unlinked' = (unlinked \/ call[c].kind = "create")
  /\ UNCHANGED <<row, mirror, sweep, socket, evicted, out, early, leaked>>

\* The transaction of removeParticipant is rolled back, the key of the token not.
RemoveTorn(c) ==
  /\ At(c, "remove", "begin") /\ MayRemove(call[c].u) /\ Fault("fail") /\ End(c)
  /\ minted' = minted + 1
  /\ mirror' = [mirror EXCEPT !.token = minted + 1]
  /\ mixed' = TRUE
  /\ UNCHANGED <<db, knows, sweep, sockets, out, revived, unlinked, early, leaked>>

\* Redis loses its data, or the keys expire.
Flush ==
  /\ Fault("flush") /\ mirror # NoMirror
  /\ mirror' = NoMirror
  /\ revived' = (revived \/ ~db.open) /\ unlinked' = TRUE
  /\ UNCHANGED <<row, call, sweep, sockets, out, mixed, early, leaked>>

-----------------------------------------------------------------------------
(* reconcileMirrors, under a lock of its own *)

SweepRead ==
  /\ ~sweep.read /\ db.open
  /\ sweep' = [read |-> TRUE, list |-> db.members, token |-> db.token]
  /\ UNCHANGED <<row, mirror, call, sockets, bounds, out, notes>>

\* A bug to be caught: who is no participant any more is left in the mirror.
Reconciled_Adds(m) ==
  [m EXCEPT !.active = "true", !.members = @ \cup sweep.list,
            !.token = IF @ = 0 THEN sweep.token ELSE @]

\* RECONCILE_SESSION_MIRROR_LUA
Reconciled(m) ==
  [m EXCEPT !.active = "true", !.members = sweep.list,
            !.token = IF @ = 0 THEN sweep.token ELSE @]

SweepLua ==
  /\ sweep.read /\ sweep' = NoSweep
  /\ mirror' = IF mirror.active = "closed" THEN mirror ELSE Reconciled(mirror)
  /\ revived' = (revived \/ (~db.open /\ mirror.active = "none"))
  /\ mixed' = (mixed \/ (mirror.token = 0 /\ sweep.token # db.token))
  /\ UNCHANGED <<row, call, sockets, bounds, out, unlinked, early, leaked>>

-----------------------------------------------------------------------------
(* The realtime service *)

SockOnly == UNCHANGED <<row, mirror, call, sweep, bounds, out, notes>>

\* WebSocket: IsSessionActive, then GetSessionUserRole, then room.Register.
CheckActive(u) ==
  /\ "connect" \in env /\ socket[u] = "none" /\ mirror.active = "true"
  /\ socket' = [socket EXCEPT ![u] = "active"]
  /\ SockOnly /\ UNCHANGED <<evicted, stray>>

CheckMember(u) ==
  /\ socket[u] = "active"
  /\ socket' = [socket EXCEPT ![u] = IF u \in mirror.members THEN "member" ELSE "none"]
  /\ SockOnly /\ UNCHANGED <<evicted, stray>>

\* Nothing is checked again.
Register(u) ==
  /\ socket[u] = "member"
  /\ socket' = [socket EXCEPT ![u] = "open"]
  /\ stray' = stray \cup {v \in {u} : ~Entitled(u)}
  /\ SockOnly /\ UNCHANGED evicted

Leave(u) ==
  /\ socket[u] \in {"member", "open"}
  /\ socket' = [socket EXCEPT ![u] = "none"] /\ stray' = stray \ {u}
  /\ SockOnly /\ UNCHANGED evicted

\* The subscriber of the revocations closes the user's socket in this room.
Deliver(u) ==
  /\ u \in evicted /\ evicted' = evicted \ {u}
  /\ socket' = [socket EXCEPT ![u] = IF @ = "open" THEN "none" ELSE @]
  /\ stray' = stray \ {u}
  /\ SockOnly

Lose(u) ==
  /\ u \in evicted /\ Fault("lost")
  /\ evicted' = evicted \ {u}
  /\ stray' = stray \cup {v \in {u} : socket[u] = "open"}
  /\ UNCHANGED <<row, mirror, call, sweep, socket, out, notes>>

-----------------------------------------------------------------------------
CallStep(c) ==
  \/ CreateSteps(c) \/ RotateSteps(c) \/ CloseSteps(c) \/ MeetSteps(c)
  \/ JoinTx(c) \/ Activate(c) \/ AddSteps(c)
  \/ RemoveTx(c) \/ RemoveRefused(c) \/ Hdel(c) \/ Evict(c)

MirrorNext ==
  \/ \E c \in Calls :
       \/ CallStep(c) \/ Abort(c) \/ RemoveTorn(c)
       \/ \E kind \in Kinds, u \in People : Begin(c, kind, u)
  \/ \E u \in People :
       \/ Invite(u) \/ CheckActive(u) \/ CheckMember(u) \/ Register(u)
       \/ Leave(u) \/ Deliver(u) \/ Lose(u)
  \/ Flush \/ SweepRead \/ SweepLua

\* A call goes on, the cron runs every hour: neither waits for anybody else.
MirrorSpec ==
  /\ MirrorInit /\ [][MirrorNext]_mirrorVars
  /\ \A c \in Calls : WF_mirrorVars(CallStep(c))
  /\ WF_mirrorVars(SweepRead) /\ WF_mirrorVars(SweepLua)

-----------------------------------------------------------------------------
(* Properties *)

MirrorTypeOK ==
  /\ env \in Cases
  /\ db \in [open : BOOLEAN, members : SUBSET Accounts, token : 1 .. minted]
  /\ mirror \in [active : {"none", "true", "closed"}, members : SUBSET Accounts,
                 token : 0 .. minted]
  /\ minted \in 1 .. MaxCalls[env] + 1
  /\ knows \in [Accounts -> SUBSET (0 .. minted)]
  /\ call \in [Calls -> [kind : Kinds \cup {"none", "create"}, u : Accounts,
                         pc : {"idle", "begin", "active", "member", "invite", "update",
                               "set", "publish", "token", "members", "create", "check",
                               "activate", "hdel", "answer"},
                         token : 0 .. minted, list : SUBSET Accounts]]
  /\ sweep \in [read : BOOLEAN, list : SUBSET Accounts, token : 0 .. minted]
  /\ socket \in [Accounts -> {"none", "active", "member", "open"}]
  /\ evicted \in SUBSET Accounts /\ early \in SUBSET (1 .. minted)
  /\ calls \in 0 .. MaxCalls[env] /\ faults \in 0 .. MaxFaults

\* A call that changes the token in two steps is under way.
TokenChanges == \E c \in Calls : At(c, "rotate", "set") \/ At(c, "create", "invite")

\* Once closeSession has told everybody, no join and no reconciliation, however
\* late, opens the mirror of a closed session again (ACTIVATE and RECONCILE check
\* it); the lock of the row holds the number of participants and, with the token
\* that goes with a place, keeps out who was removed until he is invited again, by
\* somebody who was not, or goes to joinMeeting, whatever links he still knows; and
\* the link the mirror accepts is the row's.  Excused, each where it happens: a
\* mirror that joinMeeting opens again, that was lost, or that closeSession did not
\* live to close; joinMeeting's count; a mirror that was without a token, which a
\* join or a sweep takes from the row while a rotation owes it an older one; a link
\* joinMeeting read from the row before the mirror had it, which the rotation then
\* wrote to the mirror over a newer one; tokens a rotation left apart.
MirrorAgrees ==
  /\ MirrorTypeOK
  /\ ~db.open /\ ~revived /\ mirror.active = "true" =>
       \E c \in Calls : At(c, "close", "publish")
  /\ "meet" \notin env => Cardinality(db.members) <= MaxParticipants
  /\ ~unlinked /\ ~leaked => out \cap db.members = {}
  /\ db.open /\ ~mixed /\ ~TokenChanges => mirror.token \in {0, db.token}

\* Whoever has an open socket and no place in an open session is about to be
\* evicted: a revocation is on its way or a call will send it.  Excused are the
\* sockets registered when their user had already lost his place, those of
\* participants closeSession did not read, and those whose revocation was lost
\* with its call or its message.
SocketsEnd ==
  \A u \in Accounts :
    socket[u] = "open" /\ ~Entitled(u) =>
      u \in evicted \cup stray \cup UNION {WillEvict(c) : c \in Calls}

\* Whatever races and failures have left in it, the mirror of an open session
\* comes to name its participants and nobody else, again and again.
Mirrored == mirror.active = "true" /\ mirror.members = db.members /\ mirror.token # 0
MirrorHeals == []<>(~db.open \/ Mirrored)
=============================================================================
