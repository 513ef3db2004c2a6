--------------------------------- MODULE SseHub ---------------------------------
(***************************************************************************)
(* The notification streams of one user (internal/sse/hub.go, client.go,   *)
(* internal/handler/sse.go).  A tab of a browser opens a stream on a node; *)
(* the node has one reader of the user's Redis stream for all the tabs     *)
(* there, which dispatches each event into their bounded buffers.  A tab   *)
(* that comes back sends the id of its last event, and what it has missed  *)
(* is replayed to it in pages; its buffer fills up meanwhile.  The stream  *)
(* keeps the newest events only, and its key expires.  A counter in Redis  *)
(* limits the streams of the user over all nodes.                          *)
(*                                                                         *)
(* Events are the numbers of their ids.  The checks of the token before    *)
(* Register are those of AuthSessions.  A frame without an id (a broadcast,*)
(* auth.revoked) is a 0.  Heartbeats and metrics are left out.             *)
(***************************************************************************)
EXTENDS Integers, FiniteSets, Sequences

CONSTANTS
  Nodes,        \* nodes of the realtime service
  Home,         \* the node all streams go to unless "nodes" may happen
  Tabs,         \* tabs of the user's browsers
  None,         \* no node
  IpLimit,      \* MaxConnectionsPerIP; all tabs have one address
  Buffer,       \* ClientBufferSize
  Page,         \* ReplayCount
  MaxReplay,    \* maxReplayedEvents
  MaxLen,       \* notificationStreamMaxLen
  MaxFaults,    \* bound: failures, evictions, broadcasts
  MaxConnects,  \* bound: connections of all the tabs
  Cases,        \* the sets of events to look at
  Sizes         \* Sizes[c]: for each of them limit (MaxConnectionsPerUser) and the
                \*   bounds events and tabs: the events of the user, the tabs in use

\* drop: a connection breaks; redis: a call to Redis fails; slow: a tab leaves
\* its buffer full for longer than SlowConsumerGrace; crash, close: of a node;
\* revoke: EvictUser; ttl: the counter expires; expire: the stream does; nodes:
\* more than one of them.
Events == {"drop", "redis", "slow", "crash", "close", "revoke", "broadcast",
           "ttl", "expire", "nodes"}

ASSUME ConstantsAssumption ==
  /\ Home \in Nodes /\ None \notin Nodes /\ IsFiniteSet(Tabs)
  /\ IpLimit \in Nat \ {0}
  /\ {Buffer, Page, MaxReplay, MaxLen} \subseteq Nat \ {0}
  /\ {MaxFaults, MaxConnects} \subseteq Nat
  /\ Cases \subseteq SUBSET Events
  /\ Sizes \in [Cases -> [limit : Nat \ {0}, events : Nat, tabs : SUBSET Tabs]]

VARIABLES
  env,         \* what may happen in this behaviour; it never changes
  newest,      \* the id of the last event added to the Redis stream
  gone,        \* the last of those that have left it: it holds gone + 1 .. newest
  count,       \* user:{id}:sse_count
  hub,         \* hub[n]: whether it is open, the registered clients, the
               \*   connections of the address, the clients EvictUser has yet to close
  reader,      \* reader[n]: runUserReader: where it is, lastID (0: "$"), after
               \*   which event its poll reads, the last event of its batch.
               \*   Once it has an id a poll that ends or fails changes nothing.
  conn,        \* conn[t]: the connection of a tab: see NoConn
  tab,         \* tab[t]: Last-Event-ID, the last event before its first
               \*   connection, the events received, those a known gap may lose
  failures,    \* failures, evictions, broadcasts so far
  connects,    \* connections so far
  slack, leak  \* whether the counter may be below, above the number of streams

sseVars == <<newest, gone, count, hub, reader, conn, tab, failures, connects, slack, leak>>

\* pc: incr (registered), replay, live, remove, decr, del; page: the last event
\* of the page being replayed, which begins after cut; full: firstDropAt is set;
\* skip: lastReplayedID.
NoConn == [pc |-> "off", node |-> None, buf |-> <<>>, done |-> FALSE, full |-> FALSE,
           reserved |-> FALSE, page |-> 0, cut |-> 0, total |-> 0, skip |-> 0]
NoReader == [pc |-> "none", last |-> 0, from |-> 0, upto |-> 0]
NewHub == [open |-> TRUE, clients |-> {}, ip |-> 0, evict |-> {}]

SseInit ==
  /\ env \in Cases
  /\ newest = 0 /\ gone = 0 /\ count = 0
  /\ hub = [n \in Nodes |-> NewHub]
  /\ reader = [n \in Nodes |-> NoReader]
  /\ conn = [t \in Tabs |-> NoConn]
  /\ tab = [t \in Tabs |-> [seen |-> 0, base |-> 0, got |-> {}, missed |-> {}]]
  /\ failures = 0 /\ connects = 0
  /\ slack = FALSE /\ leak = FALSE

Fault(kind) == kind \in env /\ failures < MaxFaults /\ failures' = failures + 1

MinOf(a, b) == IF a < b THEN a ELSE b

MaxOf(a, b) == IF a < b THEN b ELSE a

\* XADD MAXLEN ~: the stream is trimmed to its length, or to somewhat more.
Add ==
  /\ newest < Sizes[env].events
  /\ newest' = newest + 1
  /\ gone' \in gone .. MaxOf(gone, newest' - MaxLen)
  /\ UNCHANGED <<count, hub, reader, conn, tab, failures, connects, slack, leak>>

\* The key of the stream expires; the ids of the events to come are greater still.
StreamExpires ==
  /\ Fault("expire")
  /\ gone' = newest
  /\ UNCHANGED <<newest, count, hub, reader, conn, tab, connects, slack, leak>>

-----------------------------------------------------------------------------
\* Client.Send of frame e; late says that a full buffer has been full too long.
Sent(c, e, late) ==
  IF c.done THEN c
  ELSE IF Len(c.buf) < Buffer
       THEN [c EXCEPT !.buf = Append(@, e), !.full = FALSE]
       ELSE [c EXCEPT !.full = TRUE, !.done = c.full /\ late]

\* Frame e to the clients S; those without room for an event lose it.
SendAll(S, e) ==
  /\ \E late \in {FALSE, "slow" \in env} :
       conn' = [t \in Tabs |-> IF t \in S THEN Sent(conn[t], e, late) ELSE conn[t]]
  /\ tab' = [t \in Tabs |->
               IF e > 0 /\ t \in S /\ ~conn[t].done /\ Len(conn[t].buf) = Buffer
               THEN [tab[t] EXCEPT !.missed = @ \cup {e}] ELSE tab[t]]

\* A reader that has no id yet asks for what comes after the call: what came
\* before it, since its last poll, is for none of its tabs.
PollStart(n) ==
  LET r == reader[n] IN
  /\ r.pc = "idle"
  /\ reader' = [reader EXCEPT ![n].pc = "poll", ![n].from = newest]
  /\ tab' = [t \in Tabs |->
               IF t \in hub[n].clients
               THEN [tab[t] EXCEPT !.missed = @ \cup (r.from + 1 .. newest)] ELSE tab[t]]
  /\ UNCHANGED <<newest, gone, count, hub, conn, failures, connects, slack, leak>>

\* The events of the next page; those that left the stream unread are lost.
PollReturns(n) ==
  LET r == reader[n]
      first == MaxOf(r.from, gone) IN
  /\ r.pc = "poll"
  /\ newest > first
  /\ reader' = [reader EXCEPT ![n] = [r EXCEPT !.pc = "dispatch", !.last = first,
                                               !.upto = MinOf(first + Page, newest)]]
  /\ tab' = [t \in Tabs |->
               IF t \in hub[n].clients
               THEN [tab[t] EXCEPT !.missed = @ \cup (r.from + 1 .. first)] ELSE tab[t]]
  /\ UNCHANGED <<newest, gone, count, hub, conn, failures, connects, slack, leak>>

\* The poll ends without an event, or fails, and "$" is asked for again.
PollEnds(n) ==
  LET r == reader[n] IN
  /\ r.pc = "poll" /\ r.last = 0
  /\ \/ newest = r.from /\ UNCHANGED failures
     \/ Fault("redis")
  /\ reader' = [reader EXCEPT ![n].pc = "idle"]
  /\ UNCHANGED <<newest, gone, count, hub, conn, tab, connects, slack, leak>>

Dispatch(n) ==
  LET r == reader[n]
      e == r.last + 1 IN
  /\ r.pc = "dispatch"
  /\ SendAll(hub[n].clients, e)
  /\ reader' = [reader EXCEPT ![n] =
                  IF e = r.upto THEN [NoReader EXCEPT !.pc = "poll", !.last = e, !.from = e]
                  ELSE [r EXCEPT !.last = e]]
  /\ UNCHANGED <<newest, gone, count, hub, failures, connects, slack, leak>>

\* BroadcastAll: an event of the whole system.
Broadcast(n) ==
  /\ Fault("broadcast")
  /\ SendAll(hub[n].clients, 0)
  /\ UNCHANGED <<newest, gone, count, hub, reader, connects, slack, leak>>

-----------------------------------------------------------------------------
\* Register under the hub's lock; a refusal leaves no trace.  A tab that has
\* received nothing yet has no id to send, and starts with what comes next.
Connect(t, n) ==
  LET h == hub[n] IN
  /\ t \in Sizes[env].tabs /\ conn[t].pc = "off"
  /\ connects < MaxConnects
  /\ n = Home \/ "nodes" \in env
  /\ h.open /\ h.ip < IpLimit /\ Cardinality(h.clients) < Sizes[env].limit
  /\ connects' = connects + 1
  /\ hub' = [hub EXCEPT ![n].clients = @ \cup {t}, ![n].ip = @ + 1]
  /\ reader' = IF reader[n].pc # "none" THEN reader
               ELSE [reader EXCEPT ![n] = [NoReader EXCEPT !.pc = "idle", !.from = newest]]
  /\ conn' = [conn EXCEPT ![t] = [NoConn EXCEPT !.pc = "incr", !.node = n]]
  /\ tab' = [tab EXCEPT ![t].base = IF tab[t].seen = 0 THEN newest ELSE @]
  /\ UNCHANGED <<newest, gone, count, failures, slack, leak>>

\* A connection that is registered and counted is replayed to, if its tab has
\* sent an id.
Open(t, counted) ==
  conn' = [conn EXCEPT ![t] =
             [@ EXCEPT !.reserved = counted, !.page = tab[t].seen, !.skip = tab[t].seen,
                       !.pc = IF tab[t].seen = 0 THEN "live" ELSE "replay"]]

\* Mutant of Incr: what is over the limit is not given back.
Incr_KeepsSlot(t) ==
  /\ conn[t].pc = "incr"
  /\ count' = count + 1
  /\ IF count' > Sizes[env].limit THEN conn' = [conn EXCEPT ![t].pc = "remove"]
     ELSE Open(t, TRUE)
  /\ UNCHANGED <<newest, gone, hub, reader, tab, failures, connects, slack, leak>>

\* IncrUserConnections: over the limit, or without an answer, which is let pass.
Incr(t) ==
  /\ conn[t].pc = "incr"
  /\ \/ /\ count' = count + 1
        /\ IF count' > Sizes[env].limit
           THEN conn' = [conn EXCEPT ![t].reserved = TRUE, ![t].pc = "remove"]
           ELSE Open(t, TRUE)
        /\ UNCHANGED <<failures, slack, leak>>
     \/ /\ Fault("redis")
        /\ count' \in {count, count + 1}
        /\ leak' = (leak \/ count' > count)
        /\ slack' = TRUE
        /\ Open(t, FALSE)
  /\ UNCHANGED <<newest, gone, hub, reader, tab, connects>>

\* Unregister: the last tab of the node takes the reader with it.
Remove(t) ==
  LET n == conn[t].node IN
  /\ conn[t].pc = "remove"
  /\ hub' = [hub EXCEPT ![n].clients = @ \ {t}, ![n].ip = @ - 1, ![n].evict = @ \ {t}]
  /\ reader' = IF hub'[n].clients = {} THEN [reader EXCEPT ![n] = NoReader] ELSE reader
  /\ conn' = [conn EXCEPT ![t] =
                IF @.reserved THEN [NoConn EXCEPT !.pc = "decr", !.node = n, !.reserved = TRUE]
                ELSE NoConn]
  /\ UNCHANGED <<newest, gone, count, tab, failures, connects, slack, leak>>

\* DecrUserConnections; its failure is only logged.
Decr(t) ==
  /\ conn[t].pc = "decr"
  /\ \/ /\ count' = count - 1
        /\ conn' = [conn EXCEPT ![t] =
                      IF count' <= 0 THEN [NoConn EXCEPT !.pc = "del", !.node = conn[t].node]
                      ELSE NoConn]
        /\ UNCHANGED <<failures, leak>>
     \/ /\ Fault("redis")
        /\ count' \in {count, count - 1}
        /\ leak' = (leak \/ count' = count)
        /\ conn' = [conn EXCEPT ![t] = NoConn]
  /\ UNCHANGED <<newest, gone, hub, reader, tab, connects, slack>>

\* The key is deleted, with what other connections have added by then.
Del(t) ==
  /\ conn[t].pc = "del"
  /\ count' = 0
  /\ slack' = (slack \/ count > 0)
  /\ conn' = [conn EXCEPT ![t] = NoConn]
  /\ UNCHANGED <<newest, gone, hub, reader, tab, failures, connects, leak>>

-----------------------------------------------------------------------------
\* Event e reaches the tab.
Received(t, e) == tab' = [tab EXCEPT ![t].seen = e, ![t].got = @ \cup {e}]

\* Mutant of ReplayRead: one page is all.
ReplayRead_OnePage(t) ==
  LET c == conn[t]
      first == MaxOf(c.page, gone) IN
  /\ c.pc = "replay" /\ c.page = tab[t].seen
  /\ conn' = [conn EXCEPT ![t] =
                IF c.total > 0 \/ newest = first THEN [c EXCEPT !.pc = "live", !.skip = c.page]
                ELSE [c EXCEPT !.page = MinOf(first + Page, newest), !.cut = first,
                               !.total = 1]]
  /\ tab' = [tab EXCEPT ![t].missed = @ \cup (c.page + 1 .. first)]
  /\ UNCHANGED <<newest, gone, count, hub, reader, failures, connects, slack, leak>>

\* replayMissedEvents reads the next page, of what is still in the stream: there is
\* none, it cannot be read, or enough has been replayed, and what is left is never
\* sent.
ReplayRead(t) ==
  LET c == conn[t]
      first == MaxOf(c.page, gone)
      next == MinOf(first + Page, newest) IN
  /\ c.pc = "replay" /\ c.page = tab[t].seen
  /\ \/ /\ newest > first /\ c.total < MaxReplay
        /\ conn' = [conn EXCEPT ![t] = [c EXCEPT !.page = next, !.cut = first,
                                                 !.total = @ + (next - first)]]
        /\ tab' = [tab EXCEPT ![t].missed = @ \cup (c.page + 1 .. first)]
        /\ UNCHANGED failures
     \/ /\ conn' = [conn EXCEPT ![t] = [c EXCEPT !.pc = "live", !.skip = c.page]]
        /\ tab' = [tab EXCEPT ![t].missed = @ \cup (c.page + 1 .. newest)]
        /\ \/ (newest = first \/ c.total >= MaxReplay) /\ UNCHANGED failures
           \/ newest > first /\ c.total < MaxReplay /\ Fault("redis")
  /\ UNCHANGED <<newest, gone, count, hub, reader, connects, slack, leak>>

ReplayWrite(t) ==
  /\ conn[t].pc = "replay" /\ conn[t].page > tab[t].seen
  /\ Received(t, MaxOf(tab[t].seen, conn[t].cut) + 1)
  /\ UNCHANGED <<newest, gone, count, hub, reader, conn, failures, connects, slack, leak>>

\* Mutant of skipReplayed: nothing is left out.
SkipReplayed_Never(c, e) == FALSE

\* What a live stream leaves out.
SkipReplayed(c, e) == e > 0 /\ c.skip > 0 /\ e <= c.skip

\* streamLoop, and drain once the client is closed: the next frame.
Write(t) ==
  LET c == conn[t]
      e == Head(c.buf) IN
  /\ c.pc = "live" /\ c.buf # <<>>
  /\ conn' = [conn EXCEPT ![t].buf = Tail(@)]
  /\ IF e = 0 \/ SkipReplayed(c, e) THEN UNCHANGED tab ELSE Received(t, e)
  /\ UNCHANGED <<newest, gone, count, hub, reader, failures, connects, slack, leak>>

\* The loop ends with the client's buffer empty,
Finish(t) ==
  /\ conn[t].pc = "live" /\ conn[t].done /\ conn[t].buf = <<>>
  /\ conn' = [conn EXCEPT ![t].pc = "remove"]
  /\ UNCHANGED <<newest, gone, count, hub, reader, tab, failures, connects, slack, leak>>

\* or because the connection is broken.
Drop(t) ==
  /\ "drop" \in env
  /\ conn[t].pc \in {"replay", "live"}
  /\ conn' = [conn EXCEPT ![t].pc = "remove"]
  /\ UNCHANGED <<newest, gone, count, hub, reader, tab, failures, connects, slack, leak>>

-----------------------------------------------------------------------------
\* EvictUser takes the clients of the session, and closes them one by one.
Evict(n) ==
  /\ Fault("revoke")
  /\ hub[n].clients # {}
  /\ hub' = [hub EXCEPT ![n].evict = hub[n].clients]
  /\ UNCHANGED <<newest, gone, count, reader, conn, tab, connects, slack, leak>>

\* Mutant of EvictOne: the client is told and not closed.
EvictOne_Open(n, t) ==
  /\ t \in hub[n].evict
  /\ hub' = [hub EXCEPT ![n].evict = @ \ {t}]
  /\ conn' = [conn EXCEPT ![t] = Sent(@, 0, FALSE)]
  /\ UNCHANGED <<newest, gone, count, reader, tab, failures, connects, slack, leak>>

EvictOne(n, t) ==
  /\ t \in hub[n].evict
  /\ hub' = [hub EXCEPT ![n].evict = @ \ {t}]
  /\ conn' = [conn EXCEPT ![t] = [Sent(@, 0, FALSE) EXCEPT !.done = TRUE]]
  /\ UNCHANGED <<newest, gone, count, reader, tab, failures, connects, slack, leak>>

\* Close: no more clients, all are closed, the readers are awaited.
Close(n) ==
  /\ "close" \in env /\ hub[n].open
  /\ hub' = [hub EXCEPT ![n].open = FALSE]
  /\ conn' = [t \in Tabs |-> [conn[t] EXCEPT !.done = @ \/ t \in hub[n].clients]]
  /\ reader' = [reader EXCEPT ![n] = NoReader]
  /\ UNCHANGED <<newest, gone, count, tab, failures, connects, slack, leak>>

\* The node dies, and comes back without its part of the counter.
Crash(n) ==
  LET lost == {t \in Tabs : conn[t].node = n} IN
  /\ Fault("crash")
  /\ conn' = [t \in Tabs |-> IF t \in lost THEN NoConn ELSE conn[t]]
  /\ leak' = (leak \/ \E t \in lost : conn[t].reserved)
  /\ hub' = [hub EXCEPT ![n] = NewHub]
  /\ reader' = [reader EXCEPT ![n] = NoReader]
  /\ UNCHANGED <<newest, gone, count, tab, connects, slack>>

\* The counter expires: only a new connection prolongs it.
CountExpires ==
  /\ Fault("ttl")
  /\ count' = 0 /\ slack' = TRUE
  /\ UNCHANGED <<newest, gone, hub, reader, conn, tab, connects, leak>>

-----------------------------------------------------------------------------
Reader(n) == PollStart(n) \/ PollReturns(n) \/ PollEnds(n) \/ Dispatch(n)
Handler(t) ==
  \/ Incr(t) \/ Remove(t) \/ Decr(t) \/ Del(t)
  \/ ReplayRead(t) \/ ReplayWrite(t) \/ Write(t) \/ Finish(t)

Step ==
  \/ Add \/ StreamExpires \/ CountExpires
  \/ \E n \in Nodes :
       \/ Reader(n) \/ Broadcast(n) \/ Evict(n) \/ Close(n) \/ Crash(n)
       \/ \E t \in Tabs : Connect(t, n) \/ EvictOne(n, t)
  \/ \E t \in Tabs : Handler(t) \/ Drop(t)

SseNext == Step /\ UNCHANGED env

SseSpec == SseInit /\ [][SseNext]_<<sseVars, env>>

\* The goroutines of readers, handlers and evictions go on; the network takes
\* what a handler writes.
SseFairness ==
  /\ \A n \in Nodes : WF_sseVars(Reader(n)) /\ WF_sseVars(\E t \in Tabs : EvictOne(n, t))
  /\ \A t \in Tabs : WF_sseVars(Handler(t))
SseFairSpec == SseSpec /\ SseFairness

-----------------------------------------------------------------------------
SseTypeOK ==
  /\ env \in Cases
  /\ newest \in 0 .. Sizes[env].events /\ gone \in 0 .. newest /\ count \in Int
  /\ hub \in [Nodes -> [open : BOOLEAN, clients : SUBSET Tabs, ip : Nat,
                        evict : SUBSET Tabs]]
  /\ reader \in [Nodes -> [pc : {"none", "idle", "poll", "dispatch"}, last : Nat,
                           from : Nat, upto : Nat]]
  /\ conn \in [Tabs -> [pc : {"off", "incr", "replay", "live", "remove", "decr", "del"},
                        node : Nodes \cup {None}, buf : Seq(Nat), done : BOOLEAN,
                        full : BOOLEAN, reserved : BOOLEAN, page : Nat, cut : Nat,
                        total : Nat, skip : Nat]]
  /\ tab \in [Tabs -> [seen : Nat, base : Nat, got : SUBSET Nat, missed : SUBSET Nat]]

Streaming == {t \in Tabs : conn[t].pc \in {"replay", "live"}}

\* An open hub has a reader for as long as it has clients, its clients are the
\* connections whose handlers are there and its count of the address is theirs.
RegistryAgrees ==
  /\ SseTypeOK
  /\ \A n \in Nodes :
       /\ hub[n].clients = {t \in Tabs : conn[t].node = n
                              /\ conn[t].pc \in {"incr", "replay", "live", "remove"}}
       /\ hub[n].ip = Cardinality(hub[n].clients)
       /\ hub[n].open => (hub[n].clients = {} <=> reader[n].pc = "none")

\* The counter never says less than the streams it has counted, and over all
\* nodes no more tabs than the limit are served - unless a failed call was let
\* pass, the counter expired, or one command deleted what another had added.
\* Without a lost call or a crash it does not say more either.
CountAgrees ==
  LET reserved == Cardinality({t \in Tabs : conn[t].reserved}) IN
  /\ ~slack => count >= reserved /\ Cardinality(Streaming) <= Sizes[env].limit
  /\ ~slack /\ ~leak => count = reserved

\* A tab gets its events in order and none twice, over all its connections.
InOrder == [][\A t \in Tabs : tab'[t].seen # tab[t].seen => tab'[t].seen > tab[t].seen]_sseVars

\* What a tab has received has no gaps, except those we know of: the first polls
\* of a reader, a full buffer, a replay cut short, and events that had left the
\* stream when a replay or a reader came to read them.
NoSilentLoss ==
  \A t \in Tabs : tab[t].base + 1 .. tab[t].seen \subseteq tab[t].got \cup tab[t].missed

\* What has left the stream before the reader of a node has read it.
Unread(n) == IF reader[n].pc = "poll" THEN reader[n].from + 1 .. gone ELSE {}

\* Every event comes to every tab that stays connected, except those.
EventsArrive ==
  \A t \in Tabs :
    []<>(\/ conn[t].pc # "live"
         \/ tab[t].base + 1 .. newest \subseteq
              tab[t].got \cup tab[t].missed \cup Unread(conn[t].node))

\* A stream that EvictUser has found, or that is closed, ends.
ClosedEnds ==
  \A t \in Tabs :
    (conn[t].done \/ \E n \in Nodes : t \in hub[n].evict) ~> conn[t].pc = "off"

\* Who is served, where, and what the limits count, agree between a node's
\* registry, its readers and the counter all nodes share (hub.go, Register and
\* remove).
SeatsAgree == RegistryAgrees /\ CountAgrees

\* Streams move: events come to who stays, and who was evicted goes.
StreamsMove == EventsArrive /\ ClosedEnds
=============================================================================
