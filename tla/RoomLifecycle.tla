---------------------------- MODULE RoomLifecycle ----------------------------
(***************************************************************************)
(* The life of the room of one session on one replica: the registry of the *)
(* Hub (apps/realtime/internal/ws/hub.go), Room.Run with its channels and  *)
(* its idle timer (room.go), and the handler and ReadPump of every         *)
(* connection (handler/websocket.go, client.go).                           *)
(*                                                                         *)
(* A room that has been reaped is replaced by a new one at the next        *)
(* connection: rooms are numbered in the order of their creation.  The     *)
(* registry, and what Close does, change under Hub.mu and are one step.    *)
(***************************************************************************)
EXTENDS Naturals, FiniteSets

CONSTANTS Users,
          Cap,       \* capacity of r.broadcast, 256 in the code
          MaxConns,  \* bound: connections of a user
          MaxRooms,  \* bound: rooms created
          MaxSends   \* bound: messages read from sockets

ASSUME LifecycleAssumption ==
  /\ {Cap, MaxConns, MaxRooms} \subseteq Nat \ {0}
  /\ MaxSends \in Nat

Conns == Users \X (1..MaxConns)
Rooms == 1..MaxRooms

VARIABLES
  hub,      \* "open", then the stages of Hub.Close
  current,  \* h.rooms[sessionID], 0 when there is none
  made,     \* number of rooms created
  loop,     \* where Room.Run is
  closed,   \* r.done is closed
  clients,  \* r.clients
  timer,    \* idleTimer
  queue,    \* number of messages in r.broadcast
  pc,       \* where the handler goroutine of the connection is
  at,       \* the room the handler has got, 0 before
  sock,     \* the server side of the socket
  sent      \* messages read so far

connVars == <<pc, at, sock, sent>>
vars == <<hub, current, made, loop, closed, clients, timer, queue, connVars>>

TypeOK ==
  /\ hub \in {"open", "cancelled", "cleared", "closed"}
  /\ current \in 0..MaxRooms
  /\ made \in 0..MaxRooms
  /\ loop \in [Rooms -> {"none", "select", "join", "leave", "reap", "ended"}]
  /\ closed \in [Rooms -> BOOLEAN]
  /\ clients \in [Rooms -> SUBSET Conns]
  /\ timer \in [Rooms -> {"off", "armed", "fired"}]
  /\ queue \in [Rooms -> 0..Cap]
  /\ pc \in [Conns -> {"new", "register", "pump", "send", "unregister", "gone"}]
  /\ at \in [Conns -> 0..MaxRooms]
  /\ sock \in [Conns -> {"open", "closing", "shut"}]
  /\ sent \in 0..MaxSends

Init ==
  /\ hub = "open"
  /\ current = 0
  /\ made = 0
  /\ loop = [r \in Rooms |-> "none"]
  /\ closed = [r \in Rooms |-> FALSE]
  /\ clients = [r \in Rooms |-> {}]
  /\ timer = [r \in Rooms |-> "off"]
  /\ queue = [r \in Rooms |-> 0]
  /\ pc = [c \in Conns |-> "new"]
  /\ at = [c \in Conns |-> 0]
  /\ sock = [c \in Conns |-> "open"]
  /\ sent = 0

-----------------------------------------------------------------------------
(* Connections *)

\* GetOrCreateRoom, under h.mu; a new room starts its Run and its idle timer.
Open(c) ==
  /\ pc[c] = "new"
  /\ \A i \in 1..(c[2] - 1) : pc[<<c[1], i>>] # "new"
  /\ pc' = [pc EXCEPT ![c] = "register"]
  /\ \/ /\ current # 0
        /\ at' = [at EXCEPT ![c] = current]
        /\ UNCHANGED <<current, made, loop, timer>>
     \/ /\ current = 0
        /\ made < MaxRooms
        /\ made' = made + 1
        /\ current' = made + 1
        /\ at' = [at EXCEPT ![c] = made + 1]
        /\ loop' = [loop EXCEPT ![made + 1] = "select"]
        /\ timer' = [timer EXCEPT ![made + 1] = "armed"]
  /\ UNCHANGED <<hub, closed, clients, queue, sock, sent>>

\* Mutant of RegisterDone: Register waits for the context of the hub instead.
RegisterDone_Ctx(c) ==
  /\ pc[c] = "register"
  /\ hub # "open"
  /\ pc' = [pc EXCEPT ![c] = "pump"]
  /\ UNCHANGED <<hub, current, made, loop, closed, clients, timer, queue, at,
                 sock, sent>>

\* Register finds r.done closed: it returns, and the pumps start all the same.
RegisterDone(c) ==
  /\ pc[c] = "register"
  /\ closed[at[c]]
  /\ pc' = [pc EXCEPT ![c] = "pump"]
  /\ UNCHANGED <<hub, current, made, loop, closed, clients, timer, queue, at,
                 sock, sent>>

\* ReadPump has read a message and calls Broadcast.
ReadMessage(c) ==
  /\ pc[c] = "pump"
  /\ sock[c] # "shut"
  /\ sent < MaxSends
  /\ pc' = [pc EXCEPT ![c] = "send"]
  /\ sent' = sent + 1
  /\ UNCHANGED <<hub, current, made, loop, closed, clients, timer, queue, at, sock>>

\* Broadcast waits for room in r.broadcast, or for r.done.
SendMessage(c) ==
  /\ pc[c] = "send"
  /\ \/ queue[at[c]] < Cap /\ queue' = [queue EXCEPT ![at[c]] = @ + 1]
     \/ closed[at[c]] /\ UNCHANGED queue
  /\ pc' = [pc EXCEPT ![c] = "pump"]
  /\ UNCHANGED <<hub, current, made, loop, closed, clients, timer, at, sock, sent>>

\* The browser leaves, or the network breaks.
Break(c) ==
  /\ pc[c] \in {"register", "pump", "send"}
  /\ sock[c] = "open"
  /\ sock' = [sock EXCEPT ![c] = "shut"]
  /\ UNCHANGED <<hub, current, made, loop, closed, clients, timer, queue, pc, at,
                 sent>>

\* go client.Close(...) of a displaced or evicted connection.
CloseSocket(c) ==
  /\ sock[c] = "closing"
  /\ sock' = [sock EXCEPT ![c] = "shut"]
  /\ UNCHANGED <<hub, current, made, loop, closed, clients, timer, queue, pc, at,
                 sent>>

\* ReadPump ends when the read fails, and calls Unregister.
ReadFails(c) ==
  /\ pc[c] = "pump"
  /\ sock[c] = "shut"
  /\ pc' = [pc EXCEPT ![c] = "unregister"]
  /\ UNCHANGED <<hub, current, made, loop, closed, clients, timer, queue, at,
                 sock, sent>>

\* Unregister finds r.done closed.
UnregisterDone(c) ==
  /\ pc[c] = "unregister"
  /\ closed[at[c]]
  /\ pc' = [pc EXCEPT ![c] = "gone"]
  /\ UNCHANGED <<hub, current, made, loop, closed, clients, timer, queue, at,
                 sock, sent>>

-----------------------------------------------------------------------------
(* Room.Run.  A select with several ready cases takes any of them, also when
   r.done is closed. *)

Closing(S) == [c \in Conns |-> IF c \in S /\ sock[c] = "open" THEN "closing" ELSE sock[c]]

Others(r, c) == {d \in clients[r] : d[1] = c[1]}

\* Mutant of HandleRegister: not handed to Run, which may be reaping the room.
HandleRegister_Direct(r, c) ==
  /\ loop[r] \in {"select", "reap"}
  /\ pc[c] = "register" /\ at[c] = r
  /\ pc' = [pc EXCEPT ![c] = "pump"]
  /\ clients' = [clients EXCEPT ![r] = (@ \ Others(r, c)) \cup {c}]
  /\ sock' = Closing(Others(r, c))
  /\ loop' = [loop EXCEPT ![r] = IF @ = "reap" THEN @ ELSE "join"]
  /\ UNCHANGED <<hub, current, made, closed, timer, queue, at, sent>>

\* handleRegister, up to the broadcast of presence.join: the other connection
\* of the user is displaced.
HandleRegister(r, c) ==
  /\ loop[r] = "select"
  /\ pc[c] = "register" /\ at[c] = r
  /\ pc' = [pc EXCEPT ![c] = "pump"]
  /\ clients' = [clients EXCEPT ![r] = (@ \ Others(r, c)) \cup {c}]
  /\ sock' = Closing(Others(r, c))
  /\ loop' = [loop EXCEPT ![r] = "join"]
  /\ UNCHANGED <<hub, current, made, closed, timer, queue, at, sent>>

\* Run itself calls r.Broadcast: like any other caller it waits for room in
\* r.broadcast, which only Run empties.
BroadcastFromRun(r) ==
  \/ queue[r] < Cap /\ queue' = [queue EXCEPT ![r] = @ + 1]
  \/ closed[r] /\ UNCHANGED queue

\* Mutant of Joined: the idle timer is left running.
Joined_NoStop(r) ==
  /\ loop[r] = "join"
  /\ BroadcastFromRun(r)
  /\ loop' = [loop EXCEPT ![r] = "select"]
  /\ UNCHANGED <<hub, current, made, closed, clients, timer, connVars>>

\* presence.join is in the channel; Run stops the idle timer and drains it.
Joined(r) ==
  /\ loop[r] = "join"
  /\ BroadcastFromRun(r)
  /\ timer' = [timer EXCEPT ![r] = "off"]
  /\ loop' = [loop EXCEPT ![r] = "select"]
  /\ UNCHANGED <<hub, current, made, closed, clients, connVars>>

Rearmed(r) == IF clients[r] = {} THEN [timer EXCEPT ![r] = "armed"] ELSE timer

\* Mutant of HandleUnregister: the user leaves, whichever connection ended.
HandleUnregister_ByUser(r, c) ==
  /\ loop[r] = "select"
  /\ pc[c] = "unregister" /\ at[c] = r
  /\ Others(r, c) # {}
  /\ pc' = [pc EXCEPT ![c] = "gone"]
  /\ clients' = [clients EXCEPT ![r] = @ \ Others(r, c)]
  /\ loop' = [loop EXCEPT ![r] = "leave"]
  /\ UNCHANGED <<hub, current, made, closed, timer, queue, at, sock, sent>>

\* handleUnregister of a client of the room, up to presence.leave.
HandleUnregister(r, c) ==
  /\ loop[r] = "select"
  /\ pc[c] = "unregister" /\ at[c] = r
  /\ c \in clients[r]
  /\ pc' = [pc EXCEPT ![c] = "gone"]
  /\ clients' = [clients EXCEPT ![r] = @ \ {c}]
  /\ loop' = [loop EXCEPT ![r] = "leave"]
  /\ UNCHANGED <<hub, current, made, closed, timer, queue, at, sock, sent>>

\* presence.leave is in the channel; an empty room starts its idle timer.
Left(r) ==
  /\ loop[r] = "leave"
  /\ BroadcastFromRun(r)
  /\ timer' = Rearmed(r)
  /\ loop' = [loop EXCEPT ![r] = "select"]
  /\ UNCHANGED <<hub, current, made, closed, clients, connVars>>

\* Mutant of UnregisterUnknown: the early return skips the idle timer too.
UnregisterUnknown_NoTimer(r, c) ==
  /\ loop[r] = "select"
  /\ pc[c] = "unregister" /\ at[c] = r
  /\ c \notin clients[r]
  /\ pc' = [pc EXCEPT ![c] = "gone"]
  /\ UNCHANGED <<hub, current, made, loop, closed, clients, timer, queue, at,
                 sock, sent>>

\* handleUnregister of a connection that has been displaced or evicted.
UnregisterUnknown(r, c) ==
  /\ loop[r] = "select"
  /\ pc[c] = "unregister" /\ at[c] = r
  /\ c \notin clients[r]
  /\ pc' = [pc EXCEPT ![c] = "gone"]
  /\ timer' = Rearmed(r)
  /\ UNCHANGED <<hub, current, made, loop, closed, clients, queue, at, sock, sent>>

\* handleBroadcast takes a message; slow consumers are evicted.
HandleBroadcast(r) ==
  /\ loop[r] = "select"
  /\ queue[r] > 0
  /\ queue' = [queue EXCEPT ![r] = @ - 1]
  /\ \E slow \in SUBSET clients[r] :
       /\ clients' = [clients EXCEPT ![r] = @ \ slow]
       /\ sock' = Closing(slow)
  /\ UNCHANGED <<hub, current, made, loop, closed, timer, pc, at, sent>>

\* 60 seconds have passed.
TimerFires(r) ==
  /\ timer[r] = "armed"
  /\ timer' = [timer EXCEPT ![r] = "fired"]
  /\ UNCHANGED <<hub, current, made, loop, closed, clients, queue, connVars>>

\* <-idleTimer.C
TakeTimer(r) ==
  /\ loop[r] = "select"
  /\ timer[r] = "fired"
  /\ timer' = [timer EXCEPT ![r] = "off"]
  /\ loop' = [loop EXCEPT ![r] = IF clients[r] = {} THEN "reap" ELSE "select"]
  /\ UNCHANGED <<hub, current, made, closed, clients, queue, connVars>>

\* Room.Close of the rooms in R: closeOnce, so a room closed before is left.
CloseRooms(R) ==
  LET closes == {r \in R : ~closed[r]}
      hit    == UNION {clients[r] : r \in closes}
  IN  /\ closed' = [r \in Rooms |-> closed[r] \/ r \in closes]
      /\ clients' = [r \in Rooms |-> IF r \in closes THEN {} ELSE clients[r]]
      /\ sock' = [c \in Conns |-> IF c \in hit THEN "shut" ELSE sock[c]]

\* onEmpty, which is Hub.RemoveRoom: whatever room the registry has for the
\* session is closed and removed; then Run closes its own.
Reap(r) ==
  /\ loop[r] = "reap"
  /\ CloseRooms({r} \cup ({current} \ {0}))
  /\ current' = 0
  /\ loop' = [loop EXCEPT ![r] = "ended"]
  /\ UNCHANGED <<hub, made, timer, queue, pc, at, sent>>

\* <-r.done, or <-ctx.Done() and r.Close().
RunEnds(r) ==
  /\ loop[r] = "select"
  /\ closed[r] \/ hub # "open"
  /\ CloseRooms({r})
  /\ timer' = [timer EXCEPT ![r] = "off"]
  /\ loop' = [loop EXCEPT ![r] = "ended"]
  /\ UNCHANGED <<hub, current, made, queue, pc, at, sent>>

-----------------------------------------------------------------------------
(* Hub *)

\* EvictUser, from the subscription to auth:revocations.
EvictUser(u) ==
  /\ hub = "open"
  /\ current # 0
  /\ LET evicted == {c \in clients[current] : c[1] = u}
     IN  /\ evicted # {}
         /\ clients' = [clients EXCEPT ![current] = @ \ evicted]
         /\ sock' = Closing(evicted)
  /\ UNCHANGED <<hub, current, made, loop, closed, timer, queue, pc, at, sent>>

\* Hub.Close: the context is cancelled,
Cancel ==
  /\ hub = "open"
  /\ hub' = "cancelled"
  /\ UNCHANGED <<current, made, loop, closed, clients, timer, queue, connVars>>

\* the rooms of the registry are closed and removed,
Clear ==
  /\ hub = "cancelled"
  /\ hub' = "cleared"
  /\ CloseRooms({current} \ {0})
  /\ current' = 0
  /\ UNCHANGED <<made, loop, timer, queue, pc, at, sent>>

\* and wg.Wait returns when no Run is left.
Wait ==
  /\ hub = "cleared"
  /\ \A r \in Rooms : loop[r] \in {"none", "ended"}
  /\ hub' = "closed"
  /\ UNCHANGED <<current, made, loop, closed, clients, timer, queue, connVars>>

-----------------------------------------------------------------------------
ConnStep(c) ==
  \/ RegisterDone(c) \/ SendMessage(c) \/ ReadFails(c) \/ UnregisterDone(c)

RunStep(r) ==
  \/ \E c \in Conns :
       HandleRegister(r, c) \/ HandleUnregister(r, c) \/ UnregisterUnknown(r, c)
  \/ Joined(r) \/ Left(r) \/ HandleBroadcast(r) \/ TakeTimer(r) \/ Reap(r)
  \/ RunEnds(r)

Next ==
  \/ \E c \in Conns : \/ Open(c) \/ ReadMessage(c) \/ Break(c) \/ CloseSocket(c)
                      \/ ConnStep(c)
  \/ \E r \in Rooms : RunStep(r) \/ TimerFires(r)
  \/ \E u \in Users : EvictUser(u)
  \/ Cancel \/ Clear \/ Wait

Spec == Init /\ [][Next]_vars

\* The goroutines run and timers fire; connections, messages, broken sockets,
\* evictions and the shutdown are not obliged to happen.
Fairness ==
  /\ \A c \in Conns : WF_vars(ConnStep(c)) /\ WF_vars(CloseSocket(c))
  /\ \A r \in Rooms : WF_vars(RunStep(r)) /\ WF_vars(TimerFires(r))
  /\ WF_vars(Clear) /\ WF_vars(Wait)

FairSpec == Spec /\ Fairness

-----------------------------------------------------------------------------
(* While the hub is open, the room in the registry is the only one that is not
   closed: a connection never finds a dead room there, and two browsers of a
   session are never in two living rooms (hub.go, GetOrCreateRoom and
   RemoveRoom). *)
RegistryIsLive ==
  hub = "open" => \A r \in 1..made : ~closed[r] <=> current = r

\* One socket for a user: what handleRegister's displacement promises, also
\* when registrations arrive late or out of order.
OneConnPerUser ==
  \A r \in Rooms : \A c, d \in clients[r] : c[1] = d[1] => c = d

\* A connection that is open and whose room lives is a client of it, so it gets
\* the broadcasts: neither the end of an older connection of the user nor a
\* displacement removes the wrong one.
OpenMeansMember ==
  \A c \in Conns :
    (pc[c] \in {"pump", "send"} /\ sock[c] = "open" /\ ~closed[at[c]])
      => c \in clients[at[c]]

\* Nobody is left in a living room whose handler has ended.
NoLeak ==
  \A r \in Rooms : ~closed[r] => \A c \in clients[r] : pc[c] # "gone"

\* The idle timer only runs in an empty room, whenever Run is back at select.
TimerMeansEmpty ==
  \A r \in Rooms :
    (loop[r] \in {"select", "reap"} /\ timer[r] # "off" /\ ~closed[r]) => clients[r] = {}

\* A room that is reaped has nobody in it: only a shutdown closes sockets by
\* closing a room.
OnlyEmptyReaped ==
  [][\A r \in Rooms :
       (hub = "open" /\ ~closed[r] /\ closed'[r]) => clients[r] = {}]_vars

\* Run unloads an empty room, unless somebody joins.
EmptyUnloadsAlways ==
  \A r \in Rooms :
    (current = r /\ clients[r] = {}) ~> (closed[r] \/ clients[r] # {})

\* The same while r.broadcast does not fill up.
NeverFull == [](\A r \in Rooms : queue[r] < Cap)
EmptyUnloads == NeverFull => EmptyUnloadsAlways

\* Nor does a handler then wait in Register for ever.
RegisterReturns ==
  NeverFull => \A c \in Conns : pc[c] = "register" ~> pc[c] # "register"

\* Hub.Close returns, and a Run that was stuck is freed, unless a connection
\* that is still being accepted creates a room meanwhile.
ShutdownEnds ==
  \A n \in 0..MaxRooms :
    (hub = "cancelled" /\ made = n) ~> (hub = "closed" \/ made # n)

\* The clients map and the sockets agree, in whatever order registrations,
\* evictions and the ends of connections arrive: one open socket for a user, in
\* the room, and nobody whose handler has ended (room.go, handleRegister and
\* handleUnregister).
MembershipOK == TypeOK /\ OneConnPerUser /\ OpenMeansMember /\ NoLeak

\* The registry has the one room that lives, and that room's timer can only
\* unload it empty (hub.go, GetOrCreateRoom and RemoveRoom; room.go, Run).
RegistryOK == RegistryIsLive /\ TimerMeansEmpty

\* Neither the handler of a connection nor the shutdown of the process hangs
\* (room.go, Register; hub.go, Close).
CallsReturn == RegisterReturns /\ ShutdownEnds
=============================================================================
