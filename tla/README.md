# Verification of MockInterviewAI

TLA+ models of the concurrent parts of MockInterviewAI: the shared document of an
interview, the rooms that carry it and the queue that makes its updates durable; the
notification outbox, its Telegram consumer, the campaigns and the live notification
streams; authentication sessions and their revocation; match requests and the slots they
reserve; the interview session and its mirror in Redis. The modules are translated from
the source (paths below are relative to the repository) and checked with TLC on small
instances; the safety properties of all of them are proved with TLAPS for every instance.

`PROJECT.json` maps every definition to the lines it stands for and lists the runs, the
theorems, the mutants that each property catches, the components with what is left out
of each, and the hazards line by line.

## 1. The system

| Part | Where | State it keeps | Operations | Module |
|---|---|---|---|---|
| Hub | `apps/realtime/internal/ws/hub.go` | `rooms`, the wait group of the Run goroutines | GetOrCreateRoom, RemoveRoom, EvictUser, Close | RoomLifecycle |
| Room | `ws/room.go` | `clients`, channels, idle timer, active task, save queue, publish queue | Run: register, unregister, broadcast, idle timeout; join goroutine; publisher; remote subscription; compaction | YjsRoom, RoomLifecycle |
| Client | `ws/client.go` | `sendCh`, limiter, socket | ReadPump, WritePump, Send, Close | YjsRoom, RoomLifecycle |
| Save queue | `ws/save_queue.go` | `pending` per task, `totalPending`, `notifyC`, `doneC` | Enqueue, GetPending, getBatch, CommitBatch, FlushSync, finalFlush | SaveQueue |
| Redis storage | `internal/storage/redis.go` | a stream per task, the mirror, tickets | XADD, XRANGE, XTRIM MINID, Lua scripts, PUBLISH | in its callers |
| Document provider | `apps/web/src/features/sandbox/lib/RealtimeYjsProvider.ts`, `ticket.ts` | Y.Doc, `status`, `liveQueue`, `unsentQueue`, socket | handleMessage, updateListener, drainUnsentQueue, connect, reconnect | YjsRoom |
| SSE hub | `internal/sse/hub.go`, `handler/sse.go` | clients of a user, per-IP counts, counter of the cluster in Redis | Register, Unregister, replay, reader of the stream, EvictUser, Close | SseHub |
| Outbox | `apps/api/src/modules/notifications/` | `NotificationOutbox` rows, notifications | dispatch, relay, process, channels, publish | Outbox |
| Push consumer | `apps/telegram-bot/src/push/` | dedup cache (`seen`, `inFlight`), queues of RabbitMQ | handle, retry, deadLetter | PushConsumer |
| Auth sessions | `apps/api/src/modules/auth/`, `users/`, `telegram/`, `admin/` | sessions in Redis, generation and fence, revocation tasks | create, rotate, revoke, restore, the cron | AuthSessions |
| Campaigns | `modules/notification-campaigns/` | status, cursor, lock | update, queue, cancel, remove, the cron's pass | Campaigns |
| Matchmaking, showcase | `modules/matchmaking/`, `modules/showcase/` | requests, slots, cards | create, accept, reject, cancel, schedule, expiry crons | Booking |
| Sessions | `modules/sessions/` | sessions in PostgreSQL, their mirror in Redis | create, join, add, remove, rotate, close, reconcile | SessionMirror |
| Task switching | `ws/client.go`, `ws/room.go`, `storage/redis.go` | active-task key, seed | task.switch, SeedTaskDoc | none |
| The rest | users, RBAC, storage, mail, OAuth, live queue, code-runner, bot commands, web UI, packages | rows, files | request and response | none |

How they interact. A browser opens a socket with a one-time ticket; the handler checks
the token, the auth session and the mirror, asks the Hub for the room and hands the
client to `Room.Run`, which sends `room.sync`, starts a join goroutine (`GetPending`,
then `XRANGE`, then `yjs.init`) and from then on acknowledges, fans out, queues and
publishes the updates of its clients. A flusher per room moves the queue to the Redis
stream. Other replicas hear of updates through Pub/Sub only. In the API a business
transaction writes an outbox row; a pass of the relay claims rows and delivers them to
the in-app list, whose events the SSE hub reads from a Redis stream, and to RabbitMQ,
from which the bot sends to Telegram. A campaign writes many notifications in chunks. A
match request reserves a slot; accepting it opens a session; the session is mirrored to
Redis, where the realtime service looks. Blocking a user, a new password and eight more
operations raise his generation and leave a task behind, which the request or the cron
works off: fence, deletion, signal. The signal makes the realtime service close streams.

What is hard: goroutines, cron passes and handlers in any order; reads that are old when
they are used; a channel whose only reader is also a writer; two stores written one after
the other; locks that expire under their holder; sockets that break between a message and
its acknowledgement; copies of one message in several queues; crashes between two
writes; bounded buffers. The hazards in `PROJECT.json` are these, each at its line.

What makes each part correct:

* save queue: an acknowledged delta is in memory or in Redis; written in order, at least
  once; the counter that refuses updates is exact; an idle room saves all it has;
* document: nothing falls between history and live updates, an accepted delta survives,
  a refused one is not shown, the author keeps what is not acknowledged;
* rooms: one living room per session and replica; one connection per user; open
  connections are members; only empty rooms are reaped; everything ends;
* outbox: a row is claimed once per attempt, DELIVERED is true, rows settle;
* push: a message ends in Telegram or in the DLQ, once, and no id stays in flight;
* streams: events in order, none lost but through a known gap, and the limits are exact;
* auth sessions: nobody uses a session he is no longer entitled to, a finished
  revocation stays in force, every revocation is finished;
* campaigns: nobody is notified after the end, COMPLETED means everybody;
* booking: a request keeps its slot, no slot is lost to a dead request, meetings do not
  clash, outcomes are final;
* mirror: a closed one stays closed, who was removed stays out and is evicted, the
  mirror of an open session comes right.

## 2. The modules

Every module but SaveQueue and RoomLifecycle has a constant `Cases`: sets of events (a
broken socket, a lost channel, a crash, a slow pass, ...). `Init` picks one and the
variable `env` keeps it, so that one run looks at several combinations; a property that
needs an event not to happen says so. Time is abstract: a timeout is an action that may
happen once its guard holds.

**SaveQueue** (`save_queue.go`, with the two ways its room stops: `room.go` Run and
`hub.go`/`main.go`). Run enqueues, the flusher runs `Start`, `FlushSync`, `finalFlush`;
every critical section under `q.mu` and every Redis call is one action. `flusher` is
the goroutine's program counter and locals. A failing XADD may have written its entry.
`accepted` is a history variable. **DurableLog** is the abstract at-least-once log that
SaveQueue implements (`LogSpec`, with the batch's confirmed prefix taken off the queue).

**YjsRoom** (`room.go`, `client.go`, `redis.go`, `RealtimeYjsProvider.ts`, `ticket.ts`).
Browsers, sockets, replicas, join goroutines, publisher, a one-entry flusher and
compaction. A document is a set of deltas. `Oversized` are the deltas that sendUpdate does
not send because they have more than 64 KB; `Drain` resends what is unsent in one update,
or, when the merge is too large, each delta in one of its own. The save queue is the short
form of SaveQueue, whose batches and failures are checked there.

**RoomLifecycle** (`hub.go`, `room.go`, `websocket.go`, `client.go`). The registry, the
handler of each connection, Run's select and what each case goes on to do, the idle
timer, the capacity of `r.broadcast`, eviction and Hub.Close. Messages are only counted.

**Outbox** (`notification-outbox-relay.service.ts`, dispatcher, channels, publisher). A
row keeps `due` for `nextAttemptAt`. Passes run concurrently, because nothing in
`@Cron` waits for the previous one and there may be several instances.

**PushConsumer** (`push-consumer.ts`, `push-delivery.ts`). Queues are bags; a step is a
synchronous stretch between two awaits. Telegram and the broker are external.

**AuthSessions** (`auth-session.service.ts`, `auth.service.ts`, the callers that revoke,
`session-revocation.cron.ts`, and in apps/realtime `sse.go`, `revocations.go`,
`redis.go`). One user. `user` is the PostgreSQL row, `tasks` the revocation tasks,
`fence` and `sess` are in Redis. `req` is a request that signs in, refreshes or signs
out, with what it has read; `work` is a revocation, in a request or in the cron. The ten
operations that revoke are actions of their own that share `Revoking`. Lua scripts and
transactions are single steps; all that lies between them interleaves.

**Campaigns** (`notification-campaigns.service.ts`). `camp` is the row, `worker` a pass
of the cron with the cursor and the chunk it has read, `lock` the token in Redis. Users
are numbers in the order of their ids, so that a chunk is the first few above a cursor.

**Booking** (`matchmaking.service.ts`, `showcase.service.ts` and their crons). `call` is
a request of HTTP between its reads and its transaction. The transactions are steps:
they are Serializable, or they lock the row by comparing its status. A slot has a fixed
time; two times differ exactly when the intervals do not overlap.

**SseHub** (`sse/hub.go`, `sse/client.go`, `handler/sse.go`, `notifications.go`). Nodes
with their registry, reader and buffers, tabs with the last event they received, the
Redis stream, which XADD trims and which expires (`gone` is the last event that has left
it), and the counter, incremented, decremented and deleted by separate commands. `missed`
is what a known gap has cost a tab, written down by the step that makes the gap. `slack`
and `leak`
remember what may have made the counter wrong (a failed call, a crash, expiry).

**SessionMirror** (`sessions.service.ts`, `websocket.go`). The row, the keys of the
mirror, calls that write them one by one, the hourly sweep with what it has read, and
the sockets admitted by the keys. `knows` is what each user has been answered or passed
on: the token of the mirror from joinSession, a new one from createSession and rotation,
the row's from joinMeeting. `early` and `leaked` remember when the last was not yet in
the mirror, and what a rotation made of it.

Composition. The modules meet at narrow places, and each says what it takes from the
other: YjsRoom's one-entry flusher stands for SaveQueue; PushConsumer's `Publish` for
Outbox's `PushConfirmed`; SseHub's and SessionMirror's connections begin after the checks
of AuthSessions, and a socket of SessionMirror lives on in RoomLifecycle.

## 3. The runs

| Run | Module | What it shows |
|---|---|---|
| `save_queue` | MCSaveQueue | `AcceptedKept` acknowledged deltas are kept; `CountsPending` the counter is exact; `IdleReapSavesAll`; `LogSpec` implements DurableLog; `Flushed` all is written in the end |
| `yjs_room` | MCYjsRoom | `NoGap` between history and live updates; `AcceptedDurable`; `EditsKept` a refused delta is shown to nobody, an unacknowledged one is kept |
| `yjs_room_live` | MCYjsRoom | `Delivered` every synced browser gets every delta; `CallsAnswered` deltas are acknowledged, joins end |
| `room_lifecycle` | MCRoomLifecycle | `MembershipOK` one connection per user, open means member; `RegistryOK` the registry holds living rooms, a timer means an empty room; `OnlyEmptyReaped` |
| `room_lifecycle_live` | MCRoomLifecycle | `EmptyUnloads` empty rooms are unloaded; `CallsReturn` Register and Hub.Close return |
| `outbox` | MCOutbox | `ClaimsOK` distinct claims, a message per claim at most, back-offs; `DeliveredEverywhere` DELIVERED is true; `RowsSettle` |
| `push` | MCPushConsumer | `Accounted` nothing lost, no id left in flight; `AtMostOnce`; `Resolved` all sent or in the DLQ |
| `auth_sessions` | MCAuthSessions | `UsableIsEntitled` no usable session that should be gone; `SettledIsFenced` a finished revocation is in force; `NoStaleStream`; `RevocationsEnd` |
| `booking` | MCBooking | `TablesOK` types and limits; `SlotsAgree` requests and slots refer to each other; `MeetingsHold` meetings do not clash; `RequestsEnd` outcomes are final, unanswered requests end |
| `campaigns` | MCCampaigns | `SentIsNotified` the count is the people notified; `CompletedMeansAll`; `EndsForGood`; `QueuedEnds` |
| `sse_hub` | MCSseHub | `SeatsAgree` registry, addresses and counter agree with the streams; `NoSilentLoss`; `InOrder`; `StreamsMove` events arrive, closed streams end |
| `session_mirror` | MCSessionMirror | `MirrorAgrees` a closed mirror stays closed, a removed user stays out; `SocketsEnd` he is evicted; `MirrorHeals` |

Bounds, and why they are enough:

* SaveQueue: two tasks, four deltas, capacity 3, batches of 2. The queue fills, a batch
  is smaller than the slice, fails in the middle, two tasks share a pass, and deltas
  arrive between getBatch and CommitBatch. The deltas are enqueued in the order of
  their names (`InOrder`), a symmetry reduction that is sound for liveness. The proofs
  drop these bounds for the safety properties.
* YjsRoom: two browsers, two connections, two deltas, in the case `{large, drop}` a third
  that is oversized, a save queue and live queues of one, send buffers of two. One browser joins while the other edits; the second connection
  is a reconnect of either; each buffer can overflow. The case
  `{replicas, publish, compaction}` has two replicas; the first socket opened leads to
  `Home` (`HomeFirst`, which only names it). The live run has one replica and one delta,
  and in the case `{large, drop}` an oversized one too: liveness for one delta does not
  depend on the others, but for those it waits with in the unsent queue. The proofs drop
  these bounds for the safety properties.
* RoomLifecycle: two users with two connections each, two rooms in succession, a channel
  of one message. Two connections of one user are what displacement is about; a second
  room is what a late handler can meet. The liveness run has one connection per user and
  a channel of two, so that it may or may not fill up. The proofs drop these bounds for
  the safety properties.
* Outbox: two rows, two passes, three attempts, two faults. PushConsumer: one message
  published twice, two handlers, three deliveries, two faults. Faults are independent of
  each other; the second meets the recovery from the first. The proofs of Outbox drop
  its bounds, and those of PushConsumer for the safety properties.
* AuthSessions: two sessions, one request, two revocations (a request and the cron, or
  two requests), one stream, three generations, two faults, four cases. A session can be
  older than one revocation and newer than another, and a revocation can overtake one.
  The proofs drop these bounds.
* Campaigns: three users, chunks of two, two passes, two faults, two edits. There is a
  full chunk, a last one and an empty one, and a pass that is overtaken in each. The
  proofs drop these bounds.
* Booking: three users, two cards, three slots on one of them of which two clash (times
  1, 2, 1), two requests, two calls at a time, limits of two (`full` leaves one place).
  Two requests are what a slot, a limit or an auto-match is contended by. The proofs drop
  these bounds for the safety properties.
* SseHub: two nodes, two tabs, buffers and pages of one event, replays of two, a
  stream of two, one fault, three connections. A third event then trims the stream, so that
  a tab comes back to, and a reader polls from, events that are gone. `MCSizes` gives each
  case its own number of events and tabs: a replay that is cut short needs four events and
  one tab, the counter two nodes and no events. The proofs drop these bounds for the safety
  properties.
* SessionMirror: an owner and two guests, two calls at a time, three in all, two places,
  one fault. Every pair of calls meets, and a third sees what they left; where rotation,
  joinMeeting, removal and join meet there are four calls, one of each. The proofs drop
  these bounds for the safety properties.

Symmetry is used for users in RoomLifecycle and deltas in YjsRoom, in safety runs only.
Deadlock is not checked where the system may really stop: a room that was closed, a
message that was delivered, a request that was decided, browsers that do nothing more.
SaveQueue has a `Done` step instead.

Fairness. Goroutines, event loops, cron passes and handlers that are under way go on
(weak fairness); browsers, people, publishers, shutdowns and faults are under no
obligation. `Flushed` needs strong fairness on the XADD of a task: Redis answers again
and again. Weak fairness of the Run steps of YjsRoom is for the whole select, not for
each case; Go's select picks among ready cases at random, so this is weaker than what
the code gives. In Booking only the expiry cron is fair. In AuthSessions and Campaigns
the cron starts again and a lock expires (its TTL). Faults are bounded, which says that
they end; liveness is what happens then.

## 4. What is proved

`Streams_proofs.tla`, about SaveQueue, for every set of tasks and deltas, every capacity and batch size:

* `TypeCorrect` and `Invariance`;
* `NothingAcceptedIsDropped` (`AcceptedKept`): a delta Enqueue took is in the queue or in
  the stream, whatever Redis does and whenever the room stops;
* `CounterAgrees` (`CountsPending`): `totalPending` is the number of queued deltas and
  never exceeds the capacity;
* `ReapedRoomsAreSaved` (`IdleReapSavesAll`): a room that ends for idleness, with Redis
  answering, leaves nothing unwritten;
* `LogImplemented` (`LogSpec`): the queue implements DurableLog.

Assumption: `QueueAssumption` (finitely many tasks, positive sizes). AcceptedKept is not
inductive: CommitBatch cuts the first n deltas of a slice that may have grown since the
batch was copied. `BatchOK` says that the batch still is a prefix of its slice and that
its first `done` deltas are in the stream; `IInv` is its conjunction with the three
invariants. The lemmas on slots (`SlotsAppend`, `SlotsDrop`) say how the cardinality of
the set of queue positions changes when a delta is appended or a prefix is cut.
IdleReapSavesAll needs the loop of finalFlush followed round: `FinalOK` says that a pass that
meets no failure has a task left to visit until the counter is below what it was before the
pass, so the loop stops only when nothing is queued. For the refinement the abstract
queue is what `pending` holds behind the part of the batch that is in the stream already, so
a write is the step `Persist`, and CommitBatch, which cuts exactly that part, is a stutter.

`Streams_proofs.tla`, about SseHub, for any nodes, finitely many tabs, any limits, buffer and
page sizes, events, lengths of the stream, connections and failures:

* `SseInvariant`;
* `SeatsAlwaysAgree` (`SeatsAgree`): registries, readers and the shared counter agree;
* `NothingSilentlyLost` (`NoSilentLoss`): replay and live stream leave no gap but known ones;
* `EventsInOrder` (`InOrder`): in order and none twice, over all connections of a tab.

Assumption: `ConstantsAssumption`. The three are not inductive: an event comes by the replay
and by the buffer that fills up meanwhile. `OrderOK` says how the two meet: a buffer is
sorted and no newer than its reader, and what a live stream has yet to write is at most
`skip`, and left out, or newer than what the tab has seen. `LossOK` says that nothing falls
between them: up to every event of the buffer, and up to where the reader is, each event is
received, known to be lost or in the buffer, from the moment a stream is live, which is when
the replay has reached the end or has given up. While a replay writes a page that begins
after a hole (`cut`), the hole is known already and the page ends behind it, so the next
event the tab receives leaves nothing unaccounted for. A closed client is excepted from the last
part, and only from that: its reader no longer writes to it, but its buffer is still drained.
`SeatsOK` says that while calls to the counter succeed whoever is served has a part of it, so
that Incr, which compares the counter after its own increment, keeps the streams of all
nodes within the limit.

`Outbox_proofs.tla`, for any rows, finitely many passes, any attempts and faults:

* `TypeCorrect`, `Invariance`;
* `DeliveredIsTrue` (`DeliveredEverywhere`): a row that reads DELIVERED has been
  delivered on every channel, however passes overlap, fail and die;
* `ClaimsAreOK` (`ClaimsOK`): a value of attempts is claimed once and pays for one
  message at most; without overlaps and crashes a row is given up only after its
  back-offs.

Assumption: `ConstantsAssumption`, of which the finiteness of the passes matters: the
messages are counted against the claims, and a claim at work is `Unspent` until its pass
publishes or ends. The inductive invariant says that a pass at work holds a claim below
the row's counter (`ClaimIsPast`), that no two passes hold the same, that copies plus
unspent claims fit into attempts (`CopiesFit`), that a pass past a channel has delivered
on it (`ChannelsDone`), and, when passes are `Alone`, how many back-offs a row has
waited for (`BackoffIInv`).

`Campaigns_proofs.tla`, for any finite set of users, any passes, chunk and bounds:

* `TypeCorrect`, `Invariance`;
* `SentIsCounted` (`SentIsNotified`): sentCount is the number of people notified,
  for overlapping passes with old cursors too;
* `CompletionIsComplete` (`CompletedMeansAll`): COMPLETED has reached every active
  recipient but those who came by a change after the first claim;
* `Ended` (`EndsForGood`): no step notifies anybody of a campaign that has ended.

Assumption: `ConstantsAssumption`. The cursor of the row may go backwards, when a pass
that has read an old one commits late, so "everybody below the row's cursor" is not
enough: `Reached` says that everybody up to the cursor a pass has read is notified or in
that pass's chunk. It is inductive because the audience without the latecomers only
shrinks once a campaign has been claimed (`NotBegun` and `BegunIsSet` say what is true
before).

`Rooms_proofs.tla`, about RoomLifecycle, for any users, connections, rooms and capacity of
`r.broadcast`:

* `TypeCorrect`, `Invariance`;
* `Membership` (`MembershipOK`), `Registry` (`RegistryOK`): clients, sockets, registry and
  timer agree, in whatever order handlers, evictions, the timer and Hub.Close come;
* `ReapedRooms` (`OnlyEmptyReaped`): while the hub is open only empty rooms are closed.

Assumption: `LifecycleAssumption`. `RegistryIsLive` is not inductive: TakeTimer and Reap
are two steps, and Reap closes the room and takes it off the registry. `ReapedIsEmpty`
says that nobody enters in between, because Run is at neither of its cases;
`ClosedHasEnded` that before the shutdown only an ended Run has closed its room, so the
room being reaped is the registry's; `LeavingIsUntimed` that the timer, which a departure
arms after its broadcast, is off until then; `Registered` that a client sits in the room
its own handler asked for.

`Rooms_proofs.tla`, about SessionMirror, for any users, places, calls, sweeps and faults:

* `MirrorInvariant`;
* `MirrorOfTheRow` (`MirrorAgrees`): neither a join nor a sweep opens a closed mirror again,
  the places are counted, who was removed stays out but for the excuses that are named, the
  link is the row's;
* `SocketsAreClosed` (`SocketsEnd`): who has an open socket and no place is evicted.

Assumption: `ConstantsAssumption`; a session has a place and a call creates it. That who was
removed stays out is not inductive: a later join may compare his token with one that a
rotation writes after the removal, or that a join or a sweep takes from the row because the
mirror has none. `LinkOK` therefore says that no removed user knows the token of the mirror,
that one a rotation has made and not yet written is known to nobody (tokens are new:
`MintedOK` bounds them by the calls) but to those joinMeeting has read it to from the row
(`OwedOK`, where `early` has it), so that a rotation which writes it over a newer one is the
`leaked` one, and that a call about to answer a removed user with a token answers none the
mirror has (`OutOK`), and that the mirror is without a token only while the session is
being created, when nobody has been removed (`CallsOK`), or when it was `unlinked`, which is
the excuse: the mirror was lost or never written to its end. `ClosedOK` holds because only a
call of closeSession that has closed the row gets to write the mirror, and `TokenOK` because
every token that is not the row's has a rotation at work or is remembered in `mixed`.
SocketsEnd is inductive with the types: `CallEvicts` says what each step of a call owes the
sockets of those whose place it takes.

`PushConsumer_proofs.tla`, for any messages, finitely many handlers, any number of
deliveries, publications and faults:

* `Invariance`;
* `NothingIsLost` (`Accounted`), `SentOnce` (`AtMostOnce`).

Assumption: `ConstantsAssumption`, of which the finiteness of the handlers matters:
copies of one message are interchangeable in a queue, so "my copy waits there" is said by
counting: there are at least as many copies of an id in a retry queue as handlers whose
publication of it is unconfirmed (`CopiesWait`). An id in flight is held by exactly one
handler (`HeldAlone`), an id that was seen was sent (`SeenWasSent`), and one that was sent is
remembered, or about to be by the handler that sent it (`SentIsKnown`).

`AuthSessions_proofs.tla`, for any sessions, requests, revocations, streams, generations
and faults:

* `Invariance`;
* `Entitlement` (`UsableIsEntitled`): a usable session belongs to a user who is active and
  not deleted and to credentials that hold;
* `Settlement` (`SettledIsFenced`): a revocation whose task is gone is in force;
* `Streams` (`NoStaleStream`): no stream of a revoked session stays open, but for those a
  signal overtook.

Assumption: `ConstantsAssumption`. `UsableIsEntitled` needs `ChecksHold`, about the
sign-ins under way: as long as the generation a request has read is the user's, what it
has checked still holds, since everything that could undo it raises the generation.
`WorkIsFenced` follows a revocation through its steps: from the list on, the fence keeps
out new sessions of its generation, so those that are left are in the list. `SignalIsDue`
is NoStaleStream before the tasks are gone: a stream of a revoked session has a signal
under way or a task whose worker has yet to send one. `Generations` orders everything by
generation; that a task is always older than the user's generation is what makes the
fence spare the present sessions.

`Booking_proofs.tla`, for any users, cards and calls, finitely many slots and requests, and
any limits:

* `Invariance`;
* `Limits` (`TablesOK`), `Agreement` (`SlotsAgree`), `Meetings` (`MeetingsHold`);
* `Finality` (`OutcomeIsFinal`, the safety half of `RequestsEnd`).

Assumption: `ConstantsAssumption`; slots and requests are finite because limits are counted
and because replaceSlots inserts as many slots as there are wanted times, from which
`OneSlotEach` concludes that they differ. The case analyses run over what becomes of one
call, one request and one slot in a step (`CallMoves`, `ReqMoves`, `SlotMoves`). None of the
invariants is inductive alone: a decision releases, or makes a meeting of, the slot it read
before its transaction. `Reads` says that this is the slot the request still holds unless
the request was switched since (`raced`), so that a decline gives back the slot it should
(`DeclineEffect`). `BookedOnCard` makes `remove` take a slot together with the request that
holds it, and `NoOverlap`, the exclusion constraint, keeps meetings apart.

`YjsRoom_proofs.tla`, for any users, replicas, deltas, connections and buffers:

* `Invariance`;
* `Edits` (`EditsKept`), `Durability` (`AcceptedDurable`);
* `GapInvariance`, `NothingBetween` (`NoGap`): on one replica and without a compaction,
  nothing falls between history and live updates.

Assumption: `RoomAssumption`. The invariant gives every channel the set of messages that
may be in it: what is acknowledged, published or fanned out holds deltas of `accepted`; what
a browser is sent or has buffered, those of `Shared`, which is accepted and whatever a
snapshot put into the stream; what a browser sends comes from a connection, and is a
snapshot only where there are compactions. These sets grow with accepted and the stream,
which never shrink (`Grows`, `Stays`), so that a step has to be looked at only where it
writes. `LogOK` says of the flusher that what it is about to commit is in the stream.

NoGap speaks of synced browsers only and is far from inductive, because the gap would be
made while the browser is not yet synced. `Told` says for whoever is in the room, synced or
not, where each accepted delta is: in his document, in his live queue, in his socket, in the
update that Run is fanning out, or with the join goroutine of his connection, which has yet to
read it, will find it in the stream, or has it. This holds because the connection enters the
room before the goroutine reads, the goroutine reads the save queue before the stream, and the
flusher adds to the stream before it commits. `Waiting` says that while the goroutine runs the
browser is not synced, or has room.sync still before it; so a synced browser has no goroutine
left, and what was accepted is with him. That takes `Numbered` and `OneJob` (a connection
registers once and has one goroutine, and an older socket of the same user is sent nothing
more) and, because an author is sent an acknowledgement in place of his own update,
`AuthorsOK`: what a browser has sent is in its document. A live queue that overflows breaks
`Told`, and the history variable `overflowed` excepts such a browser until it opens another
socket.

Only model-checked: all liveness (fairness and ENABLED are out of the prover's reach).

## 5. What does not hold

The properties of the runs are stated for what the code does achieve. Here is what it
does not, at its line; where a property excepts a behaviour, it excepts this one only.

Document and rooms:

* *Shutdown* (`main.go:248`): Hub.Close waits for the Run goroutines, not for the
  flushers, and Redis is closed while finalFlush is at work, so a graceful shutdown can
  lose deltas (`docs/WEBSOCKET_ARCHITECTURE.md:188` says that finalFlush saves them all
  before the end).
* *Join with two replicas* (`room.go:378`, `:384`): an update of another replica is
  fanned out at once but is in the stream only after that replica's next flush; a
  browser that joins in between gets it from neither (`WEBSOCKET_ARCHITECTURE.md:129`).
  NoGap is about one replica.
* *Frozen room* (`room.go:354`, `:480`): Run sends into `r.broadcast`, which only Run
  reads; with a full channel it stops until the process shuts down.
* `XTRIM MINID` after a snapshot removes deltas the snapshot does not hold
  (`redis.go:781`; described in `docs/tasks/yjs-stream-compaction-race.md`), so
  AcceptedDurable is claimed without compaction.
* A live queue that overflows before `yjs.init` is emptied, and `yjs.init` still sets
  SYNCED (`RealtimeYjsProvider.ts:763`, `:829`): the browser lacks what was in it until it
  joins again. NoGap excepts it from the overflow to its next socket.
* An update rejected by the rate limiter is not sent again while the connection lasts
  (`client.go:192`), so acknowledgement is claimed without the limiter.
* An update of more than 64 KB is reported to `onError` and never sent
  (`RealtimeYjsProvider.ts:547`); the browser stays SYNCED and keeps it in `unsentQueue`,
  where it counts against the limit of 1000 and turns every resend into single updates
  (`:608`). CallsAnswered excepts these deltas. What the same user types next is sent and
  accepted, but Yjs holds it back in the other documents, since it builds on what they lack;
  the same is so of an update that the limiter has rejected, until it is sent again. The
  model's document is what has been applied, held back or not.
* A handler that fetched a room just before it was reaped leaves its connection open and
  in no room: Register returns on `r.done` (`room.go:974`) and the handler starts the
  pumps (`websocket.go:317-332`).
* `Room.Close` runs under the Hub's mutex and may be slow (`room.go:1066`); the new room
  of a session may read the stream while the old one is still in finalFlush
  (`hub.go:88`); a switch of the task during a join goroutine mixes two tasks
  (`room.go:638`).

Notifications:

* *Delivered twice* (`notification-outbox-relay.service.ts:61`): the claim leaves the row
  PENDING and due, so the pass of the next second claims it again (the comment at `:55`
  says that two passes do not deliver one row twice).
* Overlapping passes use up the attempts of a row with no back-off between them, and
  `exhausted` compares attempts that already count the claim (`relay:91`), so a row is
  FAILED after four attempts of five.
* The UPDATE that sets DELIVERED stands in the `try` whose `catch` writes the failure
  (`relay:81`, `:95`), so one that commits while its answer is lost is followed by one that
  sets the row back to PENDING. In Outbox an UPDATE that fails has not been made: RowsSettle
  says that an outcome is kept without this case.
* *Lost on a slow confirm* (`push-consumer.ts:345`, comment at `:147`): a retry copy that
  returns while its id is in flight is acknowledged as a duplicate, then its original is
  acknowledged too.
* A message redelivered after the loss of the channel is acknowledged as a duplicate of
  an attempt that has not succeeded yet (`push-consumer.ts:263`); the dedup cache is in
  memory, so a message sent and not acknowledged before a restart is sent again.
* A stream promises at-least-once delivery (`sse.go:68-69`), but a reader polls from `$`
  until its first event, a full buffer drops, a replay is cut short, the stream is trimmed
  to about a hundred events by each XADD (`notifications.go:112`, `redis.service.ts:498`)
  and its key expires after a week (`:124`), so a replay, or a reader that is that far
  behind, begins after a hole it does not report, and a tab that has received nothing yet
  sends no Last-Event-ID: NoSilentLoss excepts exactly these.
  `LastStreamID` (`notifications.go:202`), which could close the first gap, is not used
  by the hub. The counter lives an hour after the last increment, its decrement and
  deletion are two commands, and a failing increment lets the stream in.
* A campaign that is queued again after FAILED keeps its cursor, so recipients an update
  has put below it are skipped. A list that is changed to ALL after the first claim can
  be completed by a slow pass that still reads the list. `docs/tasks/admin-notifications-api.md:381`
  says that removing a campaign removes its notifications; the relation is SetNull
  (`schema.prisma:274`).

Accounts and sessions:

* Sign-in restores a deleted account by id alone (`restoreAccount`), so it can undo a
  deletion by an administrator that ran in between (the account stays inactive); an
  activation that races with a deletion leaves `isActive` true.
* A session stored with an old generation between the transaction of a revocation and
  its fence is not listed by the deletion and stays in Redis, fenced off.
* A revocation published between the checks of a stream and its registration evicts
  nobody (`sse.go:145`); the stream lives until it breaks. NoStaleStream excepts it.
* The lock of the revocation cron is deleted without comparison, which is harmless: its
  work may be done twice. `user-cleanup.cron.ts:37-132` purges by id without reading
  `deletedAt` again and does not end while a purge keeps failing.
* A user evicted by the close of a session can connect again before `active` reads
  "closed", and stays (the comment near `sessions.service.ts:1343` says otherwise); a
  participant who came after the list was read is not evicted. A close that fails after
  its update of PostgreSQL is never repaired: the retry returns early and the sweep looks
  at ACTIVE sessions.
* `joinMeeting` can make a closed mirror active again, and counts participants without
  the lock. The Lua of a join or an old sweep can put a removed user back until the next
  sweep. A rotation that fails halfway leaves two invite tokens; after a flush an old
  sweep can restore an old token or a closed session. A mirror without a token (lost, or
  never written because createSession failed on the way) takes the row's, which a rotation
  may yet have to write: whoever has learnt it and is removed in between can then come back
  with it, although the row has another (`sessions.service.ts:1143`).
* `joinMeeting` answers the token of the row (`sessions.service.ts:1080`), which a rotation
  writes first to the row and then to the mirror (`:1137`, `:1141`). A participant who is
  handed it in between and then removed, before the rotation writes it to the mirror over
  the token of the removal, can come back with it uninvited, although nothing failed.
  MirrorAgrees excepts a token that was handed out in this way and so written (`leaked`).
* The lock of the sweep expires after 300 s: two sweeps may then overlap. The model has one
  sweep at a time.

Booking:

* accept takes the slot and time it read before its transaction
  (`matchmaking.service.ts:930`; the comment at `:841` says
  that the session is scheduled at its slot's time): a request whose slot was
  switched in between gets a meeting at the old time, and the slot it held stays booked.
  A reject or cancel with an old slot leaves one booked in the same way.
* An auto-match never succeeds: both requests get one session and `session_id` is
  unique (`:397`, `:507`, `schema.prisma:524`), so create ends in a conflict that reads
  as a duplicate request.
* The limits of slots and of active cards are checked before the write
  (`showcase.service.ts:657`, `:671`), and the former does not count booked slots.

## 6. Not modelled, and why

* Task switching and the seeding of a task's document: YjsRoom has one task. It is the
  next module to write, composed with YjsRoom, together with two rooms of one session.
* Plain-text code versions: the architecture document calls code.update retired.
* Presence, cursors, chat, awareness: best-effort messages the server does not keep.
* LiveKit, OAuth, storage, mail, code execution: external services behind a request.
* The live match queue: one Lua script and a clean-up of orphans.
* The security-events relay: the claim of the outbox over again.
* Users, profiles, RBAC, dashboard, bot commands: single transactions and caches.
* User interface, generated clients, shared packages, infrastructure. They are most of
  the repository's lines and have no concurrent state.

Partly modelled: authentication (not: registration, mailed codes, the clean-up of deleted
accounts, expiry by TTL), booking (not: the limit of active cards, bumps, the catalogue),
sessions (not: guests without an account, the lobby, passwords, sessions without a token
in PostgreSQL), admission of sockets (not: the ticket), the document (not: switching).
