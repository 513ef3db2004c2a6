------------------------------- MODULE YjsRoom -------------------------------
(***************************************************************************)
(* The synchronisation of one shared document: the rooms of the replicas   *)
(* (apps/realtime/internal/ws/room.go), the Redis stream of the task, and  *)
(* the browsers (apps/web, RealtimeYjsProvider.ts).                        *)
(*                                                                         *)
(* A Yjs document is the set of the deltas it has applied: applying one    *)
(* again changes nothing and the order does not matter.  An update message *)
(* carries a set of deltas, because a browser merges its unsent deltas     *)
(* into one update.  A connection is a pair <<user, number>>: the server   *)
(* gives every socket a client ID of its own.                              *)
(*                                                                         *)
(* Room.Run is one goroutine: registrations and broadcasts are handled one *)
(* at a time, but the join goroutines, the flusher, the compactions and    *)
(* the publisher run between the enqueueing of an update and its fan-out.  *)
(***************************************************************************)
EXTENDS Naturals, Sequences, FiniteSets, Functions

CONSTANTS Users, Replicas, Deltas,
          Oversized,     \* deltas whose update has more than 64 KB
          None,          \* no replica: the browser has no open socket
          Interviewers,  \* users whose Role is "interviewer"
          MaxPending,    \* capacity of the save queue, 10000 in the code
          SendBuffer,    \* clientSendBufferSize, 256
          MaxLive,       \* MAX_LIVE_QUEUE_SIZE, 1000
          MaxUnsent,     \* MAX_UNSENT_QUEUE_SIZE, 1000
          MaxConns,      \* bound: connections opened in a run
          MaxStream,     \* bound: no snapshot once the stream is this long
          Home,          \* the replica of a room that has one replica
          Cases          \* the sets of events to look at

\* drop: a socket breaks; limiter: the rate limiter rejects a message; xrange:
\* XRANGE fails; publish: PUBLISH fails; lateEffect: the React effect on
\* wsConnected runs after messages have arrived; compaction: a browser sends a
\* snapshot (nothing in the web application sets compactionThreshold yet);
\* replicas: browsers are connected to more than one replica; large: an update,
\* or the merge of several, has more than 64 KB.
Events ==
  {"drop", "limiter", "xrange", "publish", "lateEffect", "compaction", "replicas",
   "large"}

ASSUME RoomAssumption ==
  /\ Interviewers \subseteq Users
  /\ Oversized \subseteq Deltas
  /\ None \notin Replicas
  /\ {MaxPending, SendBuffer, MaxLive, MaxUnsent, MaxConns, MaxStream}
       \subseteq Nat \ {0}
  /\ Home \in Replicas
  /\ Cases \subseteq SUBSET Events

VARIABLES
  env,      \* the events that may happen in this behaviour; it never changes
  (* browsers *)
  link,     \* the replica the open socket of the user leads to, or None
  conn,     \* number of connections the user has opened
  closed,   \* the server has evicted the browser: no reconnect any more
  effect,   \* the effect that calls provider.connect() has yet to run
  status,   \* provider status of the task
  doc,      \* deltas applied to the Y.Doc
  live,     \* liveQueue
  unsent,   \* unsentQueue
  up,       \* socket, browser to server
  down,     \* sendCh and socket, server to browser
  (* replicas *)
  joining,  \* connections waiting in Room.Register
  members,  \* r.clients
  bcast,    \* r.broadcast
  fan,      \* the update Run has enqueued and not yet fanned out
  pend,     \* saveQueue.pending of the task
  xadded,   \* the head of pend is in the stream, CommitBatch is to come
  pubQ,     \* pubQueue
  jobs,     \* join goroutines
  snaps,    \* compaction goroutines
  (* Redis *)
  stream,   \* every entry ever added
  first,    \* index of the oldest entry XTRIM has left
  (* history *)
  authored, \* the deltas each user has made
  accepted, \* the deltas Enqueue has taken
  refused,  \* deltas made while unsentQueue was full: onError was called
  overflowed \* liveQueue of the user has overflowed since the socket was opened

browserVars == <<link, conn, closed, effect, status, doc, live, unsent>>
wireVars    == <<up, down>>
roomVars    == <<joining, members, bcast, fan, pubQ, jobs, snaps>>
queueVars   == <<pend, xadded>>
redisVars   == <<stream, first>>
histVars    == <<authored, accepted, refused, overflowed>>
vars == <<browserVars, wireVars, roomVars, queueVars, redisVars, histVars>>

Conns  == Users \X (1..MaxConns)
NoConn == <<>>                       \* the senderID of a remote message

\* The messages that matter here; presence, cursors and chat do not.
UpMessage ==
  [type : {"update", "snapshot"}, data : SUBSET Deltas, from : Conns \cup {NoConn}]
DownMessage ==
  [type : {"sync", "init", "update", "ack", "failed"}, data : SUBSET Deltas]

Job  == [conn : Conns, at : Replicas, pc : {"pending", "xrange", "send", "close"},
         got : SUBSET Deltas]
Snap == [pc : {"xadd", "xtrim"}, data : SUBSET Deltas, id : Nat]

TypeOK ==
  /\ env \in Cases
  /\ link \in [Users -> Replicas \cup {None}]
  /\ conn \in [Users -> 0..MaxConns]
  /\ closed \in [Users -> BOOLEAN]
  /\ effect \in [Users -> BOOLEAN]
  /\ status \in [Users -> {"DISCONNECTED", "INITIALIZING", "SYNCED", "ERROR"}]
  /\ doc \in [Users -> SUBSET Deltas]
  /\ live \in [Users -> Seq(SUBSET Deltas)]
  /\ unsent \in [Users -> SUBSET Deltas]
  /\ up \in [Users -> Seq(UpMessage)]
  /\ down \in [Users -> Seq(DownMessage)]
  /\ joining \in [Replicas -> SUBSET Conns]
  /\ members \in [Replicas -> SUBSET Conns]
  /\ bcast \in [Replicas -> Seq(UpMessage)]
  /\ fan \in [Replicas -> Seq(UpMessage)]
  /\ pend \in [Replicas -> Seq(SUBSET Deltas)]
  /\ xadded \in [Replicas -> BOOLEAN]
  /\ pubQ \in [Replicas -> Seq(SUBSET Deltas)]
  /\ jobs \subseteq Job
  /\ snaps \subseteq Snap
  /\ stream \in Seq(SUBSET Deltas)
  /\ first \in Nat
  /\ authored \in [Users -> SUBSET Deltas]
  /\ accepted \subseteq Deltas
  /\ refused \subseteq Deltas
  /\ overflowed \in [Users -> BOOLEAN]

Init ==
  /\ env \in Cases
  /\ link = [u \in Users |-> None]
  /\ conn = [u \in Users |-> 0]
  /\ closed = [u \in Users |-> FALSE]
  /\ effect = [u \in Users |-> TRUE]
  /\ status = [u \in Users |-> "DISCONNECTED"]
  /\ doc = [u \in Users |-> {}]
  /\ live = [u \in Users |-> <<>>]
  /\ unsent = [u \in Users |-> {}]
  /\ up = [u \in Users |-> <<>>]
  /\ down = [u \in Users |-> <<>>]
  /\ joining = [r \in Replicas |-> {}]
  /\ members = [r \in Replicas |-> {}]
  /\ bcast = [r \in Replicas |-> <<>>]
  /\ fan = [r \in Replicas |-> <<>>]
  /\ pend = [r \in Replicas |-> <<>>]
  /\ xadded = [r \in Replicas |-> FALSE]
  /\ pubQ = [r \in Replicas |-> <<>>]
  /\ jobs = {}
  /\ snaps = {}
  /\ stream = <<>>
  /\ first = 1
  /\ authored = [u \in Users |-> {}]
  /\ accepted = {}
  /\ refused = {}
  /\ overflowed = [u \in Users |-> FALSE]

-----------------------------------------------------------------------------
(* Helpers *)

Me(u) == <<u, conn[u]>>

\* The replicas that serve the room.
Serving == IF "replicas" \in env THEN Replicas ELSE {Home}

\* The socket of connection c is open at replica r.
Live(c, r) == link[c[1]] = r /\ conn[c[1]] = c[2]

Update(data, from) == [type |-> "update", data |-> data, from |-> from]
Down(type, data)   == [type |-> type, data |-> data]

\* What a sequence of sets of deltas holds.
Union(s) == UNION Range(s)

\* What the stream holds: XRANGE - +.
Stored == UNION {stream[i] : i \in {j \in 1..Len(stream) : j >= first}}

\* Client.Send fails when the buffer of the client is full.
Full(u) == Len(down[u]) >= SendBuffer

\* Client.Send to a connection: the browser gets the message if that is still
\* its open socket and the buffer has room.
SendTo(c, r, m) ==
  IF Live(c, r) /\ ~Full(c[1])
  THEN [down EXCEPT ![c[1]] = Append(@, m)]
  ELSE down

-----------------------------------------------------------------------------
(* Browsers *)

\* sendUpdate sends nothing that has more than 64 KB; onError is told.
Sendable(data) == data \cap Oversized = {}

\* The update listener of the Y.Doc, called for a local edit.
Edit(u, d) ==
  /\ \A v \in Users : d \notin authored[v]
  /\ Sendable({d}) \/ "large" \in env
  /\ authored' = [authored EXCEPT ![u] = @ \cup {d}]
  /\ doc' = [doc EXCEPT ![u] = @ \cup {d}]
  /\ IF Cardinality(unsent[u]) >= MaxUnsent
     THEN /\ status' = [status EXCEPT ![u] = "ERROR"]
          /\ refused' = refused \cup {d}
          /\ UNCHANGED <<unsent, up>>
     ELSE /\ unsent' = [unsent EXCEPT ![u] = @ \cup {d}]
          /\ up' = IF status[u] = "SYNCED" /\ link[u] # None /\ Sendable({d})
                   THEN [up EXCEPT ![u] = Append(@, Update({d}, Me(u)))]
                   ELSE up
          /\ UNCHANGED <<status, refused>>
  /\ UNCHANGED <<link, conn, closed, effect, live, down, roomVars, queueVars,
                 redisVars, accepted, overflowed>>

\* A socket is opened; the handler of the server goes to Room.Register.  A
\* reconnect does not touch the provider: its status stays what it was.
Connect(u, r) ==
  /\ link[u] = None
  /\ ~closed[u]
  /\ conn[u] < MaxConns /\ FoldFunction(+, 0, conn) < MaxConns
  /\ r \in Serving
  /\ link' = [link EXCEPT ![u] = r]
  /\ conn' = [conn EXCEPT ![u] = @ + 1]
  /\ joining' = [joining EXCEPT ![r] = @ \cup {<<u, conn[u] + 1>>}]
  /\ overflowed' = [overflowed EXCEPT ![u] = FALSE]
  /\ UNCHANGED <<closed, effect, status, doc, live, unsent, wireVars, members,
                 bcast, fan, pubQ, jobs, snaps, queueVars, redisVars, authored,
                 accepted, refused>>

\* The socket is gone, and with it what it carried.
SocketGone(u) ==
  /\ link' = [link EXCEPT ![u] = None]
  /\ up' = [up EXCEPT ![u] = <<>>]
  /\ down' = [down EXCEPT ![u] = <<>>]

\* The socket breaks: ticket.ts will open another one.
Drop(u) ==
  /\ "drop" \in env
  /\ link[u] # None
  /\ SocketGone(u)
  /\ UNCHANGED <<conn, closed, effect, status, doc, live, unsent, roomVars,
                 queueVars, redisVars, histVars>>

\* The server closes the socket of a connection it has displaced (1001) or
\* evicted (1008).  After these codes there is no reconnect: wsConnected
\* becomes false, and its effect calls provider.disconnect().
Evicted(u) ==
  /\ link[u] # None
  /\ Me(u) \notin joining[link[u]] \cup members[link[u]]
  /\ SocketGone(u)
  /\ closed' = [closed EXCEPT ![u] = TRUE]
  /\ status' = [status EXCEPT ![u] = "DISCONNECTED"]
  /\ live' = [live EXCEPT ![u] = <<>>]
  /\ UNCHANGED <<conn, effect, doc, unsent, roomVars, queueVars, redisVars,
                 histVars>>

\* The effect on wsConnected of SandboxRoomWorkspace calls provider.connect()
\* once: automatic reconnects leave wsConnected as it is.
ConnectEffect(u) ==
  /\ effect[u]
  /\ link[u] # None
  /\ effect' = [effect EXCEPT ![u] = FALSE]
  /\ status' = [status EXCEPT ![u] = "INITIALIZING"]
  /\ UNCHANGED <<link, conn, closed, doc, live, unsent, wireVars, roomVars,
                 queueVars, redisVars, histVars>>

Compacting ==
  \/ snaps # {}
  \/ \E v \in Users : \E m \in Range(up[v]) : m.type = "snapshot"
  \/ \E r \in Replicas : \E m \in Range(bcast[r]) : m.type = "snapshot"

\* sendSnapshot: the whole document in one delta, from a synced browser.
SendSnapshot(u) ==
  /\ "compaction" \in env
  /\ link[u] # None
  /\ status[u] = "SYNCED"
  /\ ~Compacting /\ Len(stream) < MaxStream    \* bound: one at a time
  /\ up' = [up EXCEPT ![u] = Append(@, [type |-> "snapshot", data |-> doc[u],
                                        from |-> Me(u)])]
  /\ UNCHANGED <<browserVars, down, roomVars, queueVars, redisVars, histVars>>

-----------------------------------------------------------------------------
(* handleMessage of the provider, for the next message of the socket *)

Receiving(u, type) ==
  /\ "lateEffect" \in env \/ ~effect[u]
  /\ down[u] # <<>>
  /\ Head(down[u]).type = type
  /\ down' = [down EXCEPT ![u] = Tail(@)]
  /\ UNCHANGED <<link, conn, closed, effect, roomVars, queueVars, redisVars,
                 authored, accepted, refused>>

RecvSync(u) ==
  /\ Receiving(u, "sync")
  /\ status' = [status EXCEPT ![u] = "INITIALIZING"]
  /\ UNCHANGED <<doc, live, unsent, up, overflowed>>

\* Mutant of Drain: what is too large together is not sent one by one.
Drain_Merged(u) ==
  up' = IF unsent[u] # {} /\ Sendable(unsent[u])
        THEN [up EXCEPT ![u] = Append(@, Update(unsent[u], Me(u)))]
        ELSE up

\* drainUnsentQueue: all that is unsent in one update, or, if that is too large,
\* each delta that is not in an update of its own.
Drain(u) ==
  LET small == unsent[u] \ Oversized IN
  \/ /\ unsent[u] # {} /\ Sendable(unsent[u])
     /\ up' = [up EXCEPT ![u] = Append(@, Update(unsent[u], Me(u)))]
  \/ /\ small = {} \/ "large" \in env
     /\ \E n \in 0 .. MaxUnsent : \E f \in Bijection(1 .. n, small) :
          up' = [up EXCEPT ![u] = @ \o [i \in 1 .. n |-> Update({f[i]}, Me(u))]]

\* Mutant of RecvInit: the live queue is dropped, not drained.
RecvInit_NoDrain(u) ==
  /\ Receiving(u, "init")
  /\ doc' = [doc EXCEPT ![u] = @ \cup Head(down[u]).data]
  /\ live' = [live EXCEPT ![u] = <<>>]
  /\ status' = [status EXCEPT ![u] = "SYNCED"]
  /\ Drain(u)
  /\ UNCHANGED <<unsent, overflowed>>

\* yjs.init: history, then the live queue, then SYNCED, then drainUnsentQueue,
\* in one tick of the event loop.
RecvInit(u) ==
  /\ Receiving(u, "init")
  /\ doc' = [doc EXCEPT ![u] = @ \cup Head(down[u]).data \cup Union(live[u])]
  /\ live' = [live EXCEPT ![u] = <<>>]
  /\ status' = [status EXCEPT ![u] = "SYNCED"]
  /\ Drain(u)
  /\ UNCHANGED <<unsent, overflowed>>

\* yjs.update: buffered until yjs.init has come, applied otherwise.
RecvUpdate(u) ==
  /\ Receiving(u, "update")
  /\ IF status[u] \in {"INITIALIZING", "DISCONNECTED"}
     THEN /\ UNCHANGED doc
          /\ IF Len(live[u]) >= MaxLive
             THEN /\ live' = [live EXCEPT ![u] = <<>>]
                  /\ status' = [status EXCEPT ![u] = "ERROR"]
                  /\ overflowed' = [overflowed EXCEPT ![u] = TRUE]
             ELSE /\ live' = [live EXCEPT ![u] = Append(@, Head(down[u]).data)]
                  /\ UNCHANGED <<status, overflowed>>
     ELSE /\ doc' = [doc EXCEPT ![u] = @ \cup Head(down[u]).data]
          /\ UNCHANGED <<live, status, overflowed>>
  /\ UNCHANGED <<unsent, up>>

RecvAck(u) ==
  /\ Receiving(u, "ack")
  /\ unsent' = [unsent EXCEPT ![u] = @ \ Head(down[u]).data]
  /\ UNCHANGED <<status, doc, live, up, overflowed>>

\* room.error with SYNC_FAILED.
RecvFailed(u) ==
  /\ Receiving(u, "failed")
  /\ status' = [status EXCEPT ![u] = "ERROR"]
  /\ UNCHANGED <<doc, live, unsent, up, overflowed>>

Recv(u) ==
  RecvSync(u) \/ RecvInit(u) \/ RecvUpdate(u) \/ RecvAck(u) \/ RecvFailed(u)

-----------------------------------------------------------------------------
(* Connections at the server *)

\* ReadPump, which starts when Register has returned: Room.Broadcast.
Read(u) ==
  /\ link[u] # None
  /\ Me(u) \notin joining[link[u]]
  /\ up[u] # <<>>
  /\ up' = [up EXCEPT ![u] = Tail(@)]
  /\ bcast' = [bcast EXCEPT ![link[u]] = Append(@, Head(up[u]))]
  /\ UNCHANGED <<browserVars, down, joining, members, fan, pubQ, jobs, snaps,
                 queueVars, redisVars, histVars>>

\* The limiter of the client rejects the message; the provider ignores the
\* system.error it gets back.
Limited(u) ==
  /\ "limiter" \in env
  /\ link[u] # None
  /\ Me(u) \notin joining[link[u]]
  /\ up[u] # <<>>
  /\ up' = [up EXCEPT ![u] = Tail(@)]
  /\ UNCHANGED <<browserVars, down, roomVars, queueVars, redisVars, histVars>>

\* handleRegister: the user's other connection leaves the room, this one enters
\* before any history is read, room.sync is sent and a join goroutine starts.
\* Connections reach Register in any order, a dead one too.
Register(r, c) ==
  /\ c \in joining[r]
  /\ fan[r] = <<>>
  /\ joining' = [joining EXCEPT ![r] = @ \ {c}]
  /\ members' = [members EXCEPT ![r] = {m \in @ : m[1] # c[1]} \cup {c}]
  /\ down' = SendTo(c, r, Down("sync", {}))
  /\ jobs' = jobs \cup {[conn |-> c, at |-> r, pc |-> "pending", got |-> {}]}
  /\ UNCHANGED <<browserVars, up, bcast, fan, pubQ, snaps, queueVars,
                 redisVars, histVars>>

\* handleUnregister, once ReadPump has seen the socket break.
Unregister(r, c) ==
  /\ c \in members[r]
  /\ fan[r] = <<>>
  /\ ~Live(c, r)
  /\ members' = [members EXCEPT ![r] = @ \ {c}]
  /\ UNCHANGED <<browserVars, wireVars, joining, bcast, fan, pubQ, jobs, snaps,
                 queueVars, redisVars, histVars>>

-----------------------------------------------------------------------------
(* sendYjsInit: the join goroutine *)

Moved(j, pc, got) == (jobs \ {j}) \cup {[j EXCEPT !.pc = pc, !.got = got]}

\* GetPending copies the queue of the task under q.mu.
GetPending(j) ==
  /\ j.pc = "pending"
  /\ jobs' = Moved(j, "xrange", Union(pend[j.at]))
  /\ UNCHANGED <<browserVars, wireVars, joining, members, bcast, fan, pubQ,
                 snaps, queueVars, redisVars, histVars>>

\* GetTaskUpdates reads the stream.
XRange(j) ==
  /\ j.pc = "xrange"
  /\ jobs' = Moved(j, "send", j.got \cup Stored)
  /\ UNCHANGED <<browserVars, wireVars, joining, members, bcast, fan, pubQ,
                 snaps, queueVars, redisVars, histVars>>

\* Mutant of XRangeFails: the join is given up without a word.
XRangeFails_Silent(j) ==
  /\ "xrange" \in env
  /\ j.pc = "xrange"
  /\ jobs' = jobs \ {j}
  /\ UNCHANGED <<browserVars, wireVars, joining, members, bcast, fan, pubQ,
                 snaps, queueVars, redisVars, histVars>>

\* XRANGE fails: SYNC_FAILED is sent, and the socket is about to be closed.
XRangeFails(j) ==
  /\ "xrange" \in env
  /\ j.pc = "xrange"
  /\ jobs' = Moved(j, "close", {})
  /\ down' = SendTo(j.conn, j.at, Down("failed", {}))
  /\ UNCHANGED <<browserVars, up, joining, members, bcast, fan, pubQ, snaps,
                 queueVars, redisVars, histVars>>

\* go client.Close(StatusTryAgainLater): the browser may reconnect.
CloseFailed(j) ==
  /\ j.pc = "close"
  /\ jobs' = jobs \ {j}
  /\ IF Live(j.conn, j.at)
     THEN SocketGone(j.conn[1])
     ELSE UNCHANGED <<link, wireVars>>
  /\ UNCHANGED <<conn, closed, effect, status, doc, live, unsent, joining,
                 members, bcast, fan, pubQ, snaps, queueVars, redisVars, histVars>>

\* yjs.init is sent; a client whose buffer is full is evicted instead.
SendInit(j) ==
  /\ j.pc = "send"
  /\ jobs' = jobs \ {j}
  /\ down' = SendTo(j.conn, j.at, Down("init", j.got))
  /\ members' = IF Full(j.conn[1]) /\ Live(j.conn, j.at)
                THEN [members EXCEPT ![j.at] = @ \ {j.conn}]
                ELSE members
  /\ UNCHANGED <<browserVars, up, joining, bcast, fan, pubQ, snaps, queueVars,
                 redisVars, histVars>>

-----------------------------------------------------------------------------
(* handleBroadcast *)

Msg(r) == Head(bcast[r])

\* Mutant of Refuse: the refused update is fanned out, without an ack.
Refuse_FansOut(r) ==
  /\ fan[r] = <<>> /\ bcast[r] # <<>>
  /\ Msg(r).type = "update" /\ Msg(r).from # NoConn
  /\ Len(pend[r]) >= MaxPending
  /\ bcast' = [bcast EXCEPT ![r] = Tail(@)]
  /\ fan' = [fan EXCEPT ![r] = <<Update(Msg(r).data, NoConn)>>]
  /\ UNCHANGED <<browserVars, wireVars, joining, members, pubQ, jobs, snaps,
                 queueVars, redisVars, histVars>>

\* A local yjs.update is refused when the save queue is full: the author gets
\* SYNC_FAILED, nobody gets the update.
Refuse(r) ==
  /\ fan[r] = <<>> /\ bcast[r] # <<>>
  /\ Msg(r).type = "update" /\ Msg(r).from # NoConn
  /\ Len(pend[r]) >= MaxPending
  /\ bcast' = [bcast EXCEPT ![r] = Tail(@)]
  /\ down' = IF Msg(r).from \in members[r]
             THEN SendTo(Msg(r).from, r, Down("failed", {}))
             ELSE down
  /\ UNCHANGED <<browserVars, up, joining, members, fan, pubQ, jobs, snaps,
                 queueVars, redisVars, histVars>>

\* Enqueue takes a local update; the acknowledgement and the fan-out follow.
Enqueue(r) ==
  /\ fan[r] = <<>> /\ bcast[r] # <<>>
  /\ Msg(r).type = "update" /\ Msg(r).from # NoConn
  /\ Len(pend[r]) < MaxPending
  /\ bcast' = [bcast EXCEPT ![r] = Tail(@)]
  /\ pend' = [pend EXCEPT ![r] = Append(@, Msg(r).data)]
  /\ fan' = [fan EXCEPT ![r] = <<Msg(r)>>]
  /\ accepted' = accepted \cup Msg(r).data
  /\ UNCHANGED <<browserVars, wireVars, joining, members, pubQ, jobs, snaps,
                 xadded, redisVars, authored, refused, overflowed>>

\* A remote update is only fanned out.
TakeRemote(r) ==
  /\ fan[r] = <<>> /\ bcast[r] # <<>>
  /\ Msg(r).from = NoConn
  /\ bcast' = [bcast EXCEPT ![r] = Tail(@)]
  /\ fan' = [fan EXCEPT ![r] = <<Msg(r)>>]
  /\ UNCHANGED <<browserVars, wireVars, joining, members, pubQ, jobs, snaps,
                 queueVars, redisVars, histVars>>

\* yjs.snapshot of an interviewer who is in the room starts a compaction.
TakeSnapshot(r) ==
  /\ fan[r] = <<>> /\ bcast[r] # <<>>
  /\ Msg(r).type = "snapshot"
  /\ bcast' = [bcast EXCEPT ![r] = Tail(@)]
  /\ snaps' = IF Msg(r).from \in members[r] /\ Msg(r).from[1] \in Interviewers
              THEN snaps \cup {[pc |-> "xadd", data |-> Msg(r).data, id |-> 0]}
              ELSE snaps
  /\ UNCHANGED <<browserVars, wireVars, joining, members, fan, pubQ, jobs,
                 queueVars, redisVars, histVars>>

\* Mutant of Reply: the acknowledgement is sent to the others too.
Reply_AckAll(m, c) == Down("ack", m.data)

\* What a client of the room is sent for an update.
Reply(m, c) == IF c = m.from THEN Down("ack", m.data) ELSE Down("update", m.data)

\* The author is acknowledged, the others are sent the update, a client whose
\* buffer is full is evicted, and a local update goes to the publisher.
FanOut(r) ==
  /\ fan[r] # <<>>
  /\ LET m == Head(fan[r])
         reached == {u \in Users : Me(u) \in members[r] /\ Live(Me(u), r)}
     IN  /\ down' = [u \in Users |->
                       IF u \in reached /\ ~Full(u)
                       THEN Append(down[u], Reply(m, Me(u)))
                       ELSE down[u]]
         /\ members' = [members EXCEPT ![r] =
                          @ \ {Me(u) : u \in {v \in reached : Full(v)}}]
         /\ pubQ' = IF m.from = NoConn \/ Serving = {r} THEN pubQ
                    ELSE [pubQ EXCEPT ![r] = Append(@, m.data)]
  /\ fan' = [fan EXCEPT ![r] = <<>>]
  /\ UNCHANGED <<browserVars, up, joining, bcast, jobs, snaps, queueVars,
                 redisVars, histVars>>

\* publishWorker: the other replicas get the update, in order; a PUBLISH that
\* fails is logged and forgotten.
Publish(r) ==
  /\ pubQ[r] # <<>>
  /\ pubQ' = [pubQ EXCEPT ![r] = Tail(@)]
  /\ \/ bcast' = [q \in Replicas |->
                    IF q = r THEN bcast[q]
                    ELSE Append(bcast[q], Update(Head(pubQ[r]), NoConn))]
     \/ "publish" \in env /\ UNCHANGED bcast
  /\ UNCHANGED <<browserVars, wireVars, joining, members, fan, jobs, snaps,
                 queueVars, redisVars, histVars>>

-----------------------------------------------------------------------------
(* The flusher, one delta at a time (SaveQueue has the batches and the
   failures), and CompactTaskStream *)

XAdd(r) ==
  /\ pend[r] # <<>>
  /\ ~xadded[r]
  /\ stream' = Append(stream, Head(pend[r]))
  /\ xadded' = [xadded EXCEPT ![r] = TRUE]
  /\ UNCHANGED <<browserVars, wireVars, roomVars, pend, first, histVars>>

\* Mutant of Commit: it does not wait for XADD.
Commit_Early(r) ==
  /\ pend[r] # <<>>
  /\ pend' = [pend EXCEPT ![r] = Tail(@)]
  /\ xadded' = [xadded EXCEPT ![r] = FALSE]
  /\ UNCHANGED <<browserVars, wireVars, roomVars, redisVars, histVars>>

Commit(r) ==
  /\ xadded[r]
  /\ pend' = [pend EXCEPT ![r] = Tail(@)]
  /\ xadded' = [xadded EXCEPT ![r] = FALSE]
  /\ UNCHANGED <<browserVars, wireVars, roomVars, redisVars, histVars>>

\* XADD of the snapshot.
SnapAdd(s) ==
  /\ s.pc = "xadd"
  /\ stream' = Append(stream, s.data)
  /\ snaps' = (snaps \ {s}) \cup {[s EXCEPT !.pc = "xtrim", !.id = Len(stream) + 1]}
  /\ UNCHANGED <<browserVars, wireVars, joining, members, bcast, fan, pubQ,
                 jobs, queueVars, first, histVars>>

\* XTRIM MINID: every entry older than the snapshot goes.
SnapTrim(s) ==
  /\ s.pc = "xtrim"
  /\ first' = IF s.id > first THEN s.id ELSE first
  /\ snaps' = snaps \ {s}
  /\ UNCHANGED <<browserVars, wireVars, joining, members, bcast, fan, pubQ,
                 jobs, queueVars, stream, histVars>>

\* Either call fails or times out: the compaction is given up.
SnapFails(s) ==
  /\ snaps' = snaps \ {s}
  /\ UNCHANGED <<browserVars, wireVars, joining, members, bcast, fan, pubQ,
                 jobs, queueVars, redisVars, histVars>>

-----------------------------------------------------------------------------
RunStep(r) ==
  \/ \E c \in joining[r] : Register(r, c)
  \/ \E c \in members[r] : Unregister(r, c)
  \/ Refuse(r) \/ Enqueue(r) \/ TakeRemote(r) \/ TakeSnapshot(r) \/ FanOut(r)

JobStep(j) == GetPending(j) \/ XRange(j) \/ XRangeFails(j) \/ CloseFailed(j)
              \/ SendInit(j)

Step ==
  \/ \E u \in Users :
       \/ \E d \in Deltas : Edit(u, d)
       \/ \E r \in Replicas : Connect(u, r)
       \/ Drop(u) \/ Evicted(u) \/ ConnectEffect(u) \/ SendSnapshot(u)
       \/ Recv(u) \/ Read(u) \/ Limited(u)
  \/ \E r \in Replicas : RunStep(r) \/ Publish(r) \/ XAdd(r) \/ Commit(r)
  \/ \E j \in jobs : JobStep(j)
  \/ \E s \in snaps : SnapAdd(s) \/ SnapTrim(s) \/ SnapFails(s)

Next == Step /\ UNCHANGED env

Spec == Init /\ [][Next]_<<vars, env>>

\* Fairness.  Each goroutine, the event loop of the browser and the sockets
\* keep running; the server closes the socket of a client it has evicted.
\* Edits, connections, snapshots and broken sockets are not obliged to happen.
JobOf(c) == \E j \in jobs : j.conn = c /\ JobStep(j)

Fairness ==
  /\ \A u \in Users :
       /\ WF_vars(Recv(u)) /\ WF_vars(Read(u)) /\ WF_vars(ConnectEffect(u))
       /\ WF_vars(Evicted(u))
  /\ \A r \in Replicas :
       WF_vars(RunStep(r)) /\ WF_vars(Publish(r)) /\ WF_vars(XAdd(r) \/ Commit(r))
  /\ \A c \in Conns : WF_vars(JobOf(c))

FairSpec == Spec /\ Fairness

-----------------------------------------------------------------------------
(* What the protocol promises *)

\* The browser has taken room.sync of its current connection, and yjs.init too.
Synced(u) ==
  /\ link[u] # None
  /\ Me(u) \in members[link[u]]
  /\ status[u] = "SYNCED"
  /\ \A m \in Range(down[u]) : m.type # "sync"

\* What a set of messages carries.
Data(messages) == UNION {m.data : m \in messages}

\* What is on its way to a browser that is in the room of replica r.
OnTheWay(u, r) ==
  Union(live[u])
    \cup Data({m \in Range(down[u]) : m.type \in {"init", "update"}})
    \cup Data(Range(fan[r]))
    \cup Data({m \in Range(bcast[r]) : m.from = NoConn})
    \cup (UNION {Union(pubQ[q]) \cup Data(Range(fan[q])) : q \in Replicas \ {r}})

Complete(u) == accepted \subseteq doc[u] \cup OnTheWay(u, link[u])

\* A synced browser has, or is about to be sent, every accepted delta: nothing
\* falls between the history of yjs.init and the live updates, however the join
\* goroutine interleaves with Run and the flusher (sendYjsInit, room.go:358-447),
\* as long as one replica serves the room and nothing is compacted, and of a
\* browser whose liveQueue has not overflowed since it opened its socket.
NoGap ==
  {"replicas", "compaction"} \cap env = {} =>
    \A u \in Users : Synced(u) /\ ~overflowed[u] => Complete(u)

\* Every accepted delta is in a save queue or in the stream, so a browser that
\* joins later gets it; a compaction may trim what its snapshot does not hold.
AcceptedDurable ==
  "compaction" \notin env =>
    accepted \subseteq Stored \cup UNION {Union(pend[r]) : r \in Replicas}

\* A browser shows another user's delta only if the server has taken it, in an
\* update or in a snapshot: an update that was refused is never fanned out.
NoPhantom ==
  \A u \in Users :
    doc[u] \cup Union(live[u]) \subseteq authored[u] \cup accepted \cup Union(stream)

\* The author keeps a delta until it is acknowledged, and an acknowledgement
\* says that the server has taken it.
UnsentKept ==
  \A u \in Users : authored[u] \subseteq unsent[u] \cup accepted \cup refused

\* Acknowledgements and refusals of handleBroadcast are true: what is shown was
\* taken, and what was not taken is still with its author, whatever is resent,
\* limited, refused or lost on the way.
EditsKept == TypeOK /\ NoPhantom /\ UnsentKept

\* A synced browser that stays in the room sees every accepted delta.
Delivered ==
  \A u \in Users, d \in Deltas :
    (Synced(u) /\ d \in accepted) ~> (d \in doc[u] \/ ~Synced(u))

\* An edit is acknowledged, also if it is in the queue together with one that
\* sendUpdate never sends, unless the browser leaves the synced state (a full
\* save queue answers SYNC_FAILED, a full buffer evicts).
Acknowledged ==
  \A u \in Users, d \in Deltas :
    (Synced(u) /\ d \in unsent[u] \ Oversized) ~> (d \notin unsent[u] \/ ~Synced(u))

\* A browser that connects gets synced, or is told that it is not.
JoinEnds ==
  \A u \in Users :
    (link[u] # None) ~> (Synced(u) \/ status[u] = "ERROR" \/ link[u] = None)

\* What a browser asks of the server is answered: its edits, but those of more
\* than 64 KB, and its joins (drainUnsentQueue, sendYjsInit).
CallsAnswered == Acknowledged /\ JoinEnds
=============================================================================
