----------------------------- MODULE Rooms_proofs -----------------------------
(***************************************************************************)
(* Proofs about the rooms of realtime: RoomLifecycle, for every set of     *)
(* users, every capacity of r.broadcast and any number of connections,     *)
(* rooms and messages; and SessionMirror, by which a room admits its       *)
(* sockets, for every set of users, every number of places and any number  *)
(* of calls and faults.  The two share no state.                           *)
(***************************************************************************)
EXTENDS RoomLifecycle, SessionMirror, FiniteSetTheorems, TLAPS

(* RoomLifecycle: the inductive invariant is what is below and the invariants of
   the runs. *)

\* Rooms above made do not exist yet, those below have had their Run started.
Created ==
  /\ current <= made
  /\ \A r \in Rooms :
       IF r > made
       THEN loop[r] = "none" /\ ~closed[r] /\ clients[r] = {} /\ timer[r] = "off"
       ELSE loop[r] # "none"

\* A handler that has asked the hub for a room has one that exists.
Placed ==
  \A c \in Conns : IF pc[c] = "new" THEN at[c] = 0 ELSE at[c] \in 1..made

\* A client of a room was registered there by its handler.
Registered ==
  \A r \in Rooms : \A c \in clients[r] : at[c] = r /\ pc[c] \notin {"new", "register"}

\* While the hub is open only a Run that ends closes its room.
ClosedHasEnded ==
  hub = "open" => \A r \in Rooms : closed[r] => loop[r] = "ended"

\* Between <-idleTimer.C and onEmpty nobody enters the room.
ReapedIsEmpty == \A r \in Rooms : loop[r] = "reap" => clients[r] = {}

\* The timer is off while presence.leave waits for room in r.broadcast.
LeavingIsUntimed ==
  \A r \in Rooms : loop[r] = "leave" /\ ~closed[r] => timer[r] = "off"

Places == TypeOK /\ Created /\ Placed /\ Registered

Loops == RegistryIsLive /\ ClosedHasEnded /\ ReapedIsEmpty /\ LeavingIsUntimed
           /\ TimerMeansEmpty

Members == OneConnPerUser /\ OpenMeansMember /\ NoLeak

IInv == Places /\ Loops /\ Members

-----------------------------------------------------------------------------
(* One action after the other: the same case analysis for every part. *)

OpenActs == \E c \in Conns : Open(c)
PumpActs == \E c \in Conns : RegisterDone(c) \/ SendMessage(c) \/ ReadMessage(c)
SocketActs ==
  \E c \in Conns : Break(c) \/ CloseSocket(c) \/ ReadFails(c) \/ UnregisterDone(c)
HubActs == Cancel \/ Wait

LEMMA Acts ==
  ASSUME Next
  PROVE  \/ OpenActs \/ PumpActs \/ SocketActs \/ HubActs \/ Clear
         \/ \E r \in Rooms, c \in Conns :
              HandleRegister(r, c) \/ HandleUnregister(r, c) \/ UnregisterUnknown(r, c)
         \/ \E r \in Rooms :
              \/ Joined(r) \/ Left(r) \/ HandleBroadcast(r) \/ TakeTimer(r)
              \/ Reap(r) \/ RunEnds(r) \/ TimerFires(r)
         \/ \E u \in Users : EvictUser(u)
BY DEF Next, ConnStep, RunStep, OpenActs, PumpActs, SocketActs, HubActs

-----------------------------------------------------------------------------
LEMMA InitInv == ASSUME Init PROVE IInv
<1>1. TypeOK
  BY LifecycleAssumption DEF Init, TypeOK, LifecycleAssumption
<1>2. Created /\ Placed /\ Registered
  BY LifecycleAssumption DEF Init, Created, Placed, Registered, Rooms, LifecycleAssumption
<1>3. Loops
  BY DEF Init, Loops, RegistryIsLive, ClosedHasEnded, ReapedIsEmpty, LeavingIsUntimed,
         TimerMeansEmpty
<1>4. Members
  BY DEF Init, Members, OneConnPerUser, OpenMeansMember, NoLeak
<1>5. QED
  BY <1>1, <1>2, <1>3, <1>4 DEF IInv, Places

\* The sockets of a set of connections are closed, or marked to be.
LEMMA ClosingType ==
  ASSUME TypeOK, NEW S
  PROVE  Closing(S) \in [Conns -> {"open", "closing", "shut"}]
BY DEF TypeOK, Closing

\* Closing rooms closes sockets and forgets clients.
LEMMA CloseRoomsType ==
  ASSUME TypeOK, NEW R, CloseRooms(R)
  PROVE  /\ closed' \in [Rooms -> BOOLEAN]
         /\ clients' \in [Rooms -> SUBSET Conns]
         /\ sock' \in [Conns -> {"open", "closing", "shut"}]
BY DEF TypeOK, CloseRooms

LEMMA TypeStep == ASSUME TypeOK, Next PROVE TypeOK'
<1>0. Cap \in Nat /\ MaxRooms \in Nat /\ MaxConns \in Nat /\ MaxSends \in Nat
  BY LifecycleAssumption DEF LifecycleAssumption
<1>1. CASE OpenActs
  <2>1. PICK c \in Conns : Open(c)
    BY <1>1 DEF OpenActs
  <2>2. CASE current # 0
    BY <1>0, <2>1, <2>2 DEF Open, TypeOK, connVars
  <2>3. CASE current = 0
    <3>1. made + 1 \in Rooms /\ made < MaxRooms
      BY <1>0, <2>1, <2>3 DEF Open, TypeOK, Rooms
    <3>2. /\ made' = made + 1 /\ current' = made + 1
          /\ at' = [at EXCEPT ![c] = made + 1]
          /\ loop' = [loop EXCEPT ![made + 1] = "select"]
          /\ timer' = [timer EXCEPT ![made + 1] = "armed"]
      BY <2>1, <2>3 DEF Open
    <3>3. made + 1 \in 0..MaxRooms
      BY <1>0, <3>1 DEF Rooms
    <3>4. /\ pc' = [pc EXCEPT ![c] = "register"]
          /\ UNCHANGED <<hub, closed, clients, queue, sock, sent>>
      BY <2>1 DEF Open
    <3>5. QED
      BY <3>1, <3>2, <3>3, <3>4 DEF TypeOK
  <2>4. QED
    BY <2>2, <2>3
<1>2. CASE PumpActs
  BY <1>0, <1>2 DEF PumpActs, RegisterDone, SendMessage, ReadMessage, TypeOK
<1>3. CASE SocketActs
  BY <1>0, <1>3 DEF SocketActs, Break, CloseSocket, ReadFails, UnregisterDone, TypeOK
<1>4. CASE HubActs
  BY <1>4 DEF HubActs, Cancel, Wait, TypeOK, connVars
<1>5. CASE Clear
  BY <1>0, <1>5, CloseRoomsType DEF Clear, TypeOK
<1>6. ASSUME NEW r \in Rooms, NEW c \in Conns,
             HandleRegister(r, c) \/ HandleUnregister(r, c) \/ UnregisterUnknown(r, c)
      PROVE  TypeOK'
  BY <1>6, ClosingType
     DEF HandleRegister, HandleUnregister, UnregisterUnknown, Rearmed, Others, TypeOK
<1>7. ASSUME NEW r \in Rooms,
             \/ Joined(r) \/ Left(r) \/ HandleBroadcast(r) \/ TakeTimer(r)
             \/ TimerFires(r)
      PROVE  TypeOK'
  <2>1. CASE Joined(r)
    BY <1>0, <2>1 DEF Joined, BroadcastFromRun, TypeOK, connVars
  <2>2. CASE Left(r)
    BY <1>0, <2>2 DEF Left, BroadcastFromRun, Rearmed, TypeOK, connVars
  <2>3. CASE HandleBroadcast(r)
    BY <1>0, <2>3, ClosingType DEF HandleBroadcast, TypeOK
  <2>4. CASE TakeTimer(r) \/ TimerFires(r)
    BY <2>4 DEF TakeTimer, TimerFires, TypeOK, connVars
  <2>5. QED
    BY <1>7, <2>1, <2>2, <2>3, <2>4
<1>8. ASSUME NEW r \in Rooms, Reap(r) \/ RunEnds(r)
      PROVE  TypeOK'
  BY <1>0, <1>8, CloseRoomsType DEF Reap, RunEnds, TypeOK
<1>9. ASSUME NEW u \in Users, EvictUser(u)
      PROVE  TypeOK'
  BY <1>9, ClosingType DEF EvictUser, TypeOK
<1>10. QED
  BY <1>1, <1>2, <1>3, <1>4, <1>5, <1>6, <1>7, <1>8, <1>9, Acts

\* The variables keep their types.
THEOREM TypeCorrect == Spec => []TypeOK
<1>1. Init => TypeOK
  BY InitInv DEF IInv, Places
<1>2. TypeOK /\ [Next]_vars => TypeOK'
  <2>1. CASE UNCHANGED vars
    BY <2>1 DEF vars, connVars, TypeOK
  <2>2. QED
    BY <2>1, TypeStep
<1>3. QED
  BY <1>1, <1>2, PTL DEF Spec

-----------------------------------------------------------------------------
(* Rooms, handlers and clients belong together. *)

LEMMA Numbers == Cap \in Nat /\ MaxRooms \in Nat /\ MaxConns \in Nat /\ MaxSends \in Nat
BY LifecycleAssumption DEF LifecycleAssumption

\* A step that is about room r.
SameRooms(r) ==
  /\ UNCHANGED <<current, made, closed>>
  /\ \A s \in Rooms \ {r} :
       loop'[s] = loop[s] /\ clients'[s] = clients[s] /\ timer'[s] = timer[s]

LEMMA OnlyRoom ==
  ASSUME Created, NEW r \in Rooms, r <= made, SameRooms(r), loop'[r] # "none",
         made \in Nat
  PROVE  Created'
BY Numbers DEF Created, SameRooms, Rooms

LEMMA PlacesStep == ASSUME Places, Next PROVE Places'
<1>0. TypeOK /\ Created /\ Placed /\ Registered /\ TypeOK'
  BY TypeStep DEF Places
<1>1. SUFFICES Created' /\ Placed' /\ Registered'
  BY <1>0 DEF Places
<1>2. CASE OpenActs
  <2>1. PICK c \in Conns : Open(c)
    BY <1>2 DEF OpenActs
  <2>2. pc[c] = "new" /\ \A r \in Rooms : c \notin clients[r]
    BY <1>0, <2>1 DEF Open, Registered
  <2>3. CASE current # 0 /\ UNCHANGED <<current, made, loop, timer>>
    <3>1. /\ at' = [at EXCEPT ![c] = current] /\ pc' = [pc EXCEPT ![c] = "register"]
          /\ UNCHANGED <<closed, clients>>
      BY <1>0, <2>1, <2>3, Numbers DEF Open, TypeOK
    <3>2. current \in 1..made
      BY <1>0, <2>3, Numbers DEF TypeOK, Created
    <3>3. QED
      BY <1>0, <2>2, <2>3, <3>1, <3>2 DEF Created, Placed, Registered, TypeOK
  <2>4. CASE current = 0 /\ made' = made + 1
    <3>1. /\ made' = made + 1 /\ current' = made + 1 /\ made + 1 \in Rooms
          /\ at' = [at EXCEPT ![c] = made + 1]
          /\ loop' = [loop EXCEPT ![made + 1] = "select"]
          /\ timer' = [timer EXCEPT ![made + 1] = "armed"]
          /\ pc' = [pc EXCEPT ![c] = "register"] /\ UNCHANGED <<closed, clients>>
      BY <1>0, <2>1, <2>4, Numbers DEF Open, TypeOK, Rooms
    <3>2. Created'
      BY <1>0, <3>1, Numbers DEF Created, TypeOK, Rooms
    <3>3. Placed'
      BY <1>0, <3>1, Numbers DEF Placed, TypeOK
    <3>4. Registered'
      BY <1>0, <2>2, <3>1 DEF Registered, TypeOK
    <3>5. QED
      BY <3>2, <3>3, <3>4
  <2>5. QED
    BY <2>1, <2>3, <2>4 DEF Open
<1>3. CASE PumpActs
  BY <1>0, <1>3 DEF PumpActs, RegisterDone, SendMessage, ReadMessage, TypeOK, Created,
                    Placed, Registered
<1>4. CASE SocketActs
  BY <1>0, <1>4 DEF SocketActs, Break, CloseSocket, ReadFails, UnregisterDone, TypeOK,
                    Created, Placed, Registered
<1>5. CASE HubActs
  BY <1>0, <1>5 DEF HubActs, Cancel, Wait, connVars, Created, Placed, Registered
<1>6. CASE Clear
  BY <1>0, <1>6, Numbers DEF Clear, CloseRooms, TypeOK, Created, Placed, Registered, Rooms
<1>7. ASSUME NEW r \in Rooms, NEW c \in Conns,
             HandleRegister(r, c) \/ HandleUnregister(r, c) \/ UnregisterUnknown(r, c)
      PROVE  Created' /\ Placed' /\ Registered'
  <2>1. r <= made
    BY <1>0, <1>7, Numbers DEF HandleRegister, HandleUnregister, UnregisterUnknown, Created,
         TypeOK, Rooms
  <2>2. Created'
    BY <1>0, <2>1, OnlyRoom, <1>7
       DEF HandleRegister, HandleUnregister, UnregisterUnknown, Rearmed, SameRooms, TypeOK
  <2>3. Placed'
    BY <1>0, <1>7 DEF HandleRegister, HandleUnregister, UnregisterUnknown, Placed, TypeOK
  <2>4. Registered'
    BY <1>0, <1>7 DEF HandleRegister, HandleUnregister, UnregisterUnknown, Others, Registered,
         TypeOK
  <2>5. QED
    BY <2>2, <2>3, <2>4
<1>8. ASSUME NEW r \in Rooms,
             \/ Joined(r) \/ Left(r) \/ HandleBroadcast(r) \/ TakeTimer(r)
             \/ TimerFires(r)
      PROVE  Created' /\ Placed' /\ Registered'
  <2>1. r <= made /\ loop[r] # "none"
    <3>1. timer[r] # "off" \/ loop[r] # "none"
      BY <1>0, <1>8 DEF Joined, Left, HandleBroadcast, TakeTimer, TimerFires
    <3>2. made \in Nat /\ r \in Nat
      BY <1>0, Numbers DEF TypeOK, Rooms
    <3>3. QED
      BY <1>0, <3>1, <3>2 DEF Created
  <2>2. SameRooms(r) /\ loop'[r] # "none"
    <3>1. CASE Joined(r) \/ Left(r)
      BY <1>0, <2>1, <3>1 DEF Joined, Left, Rearmed, SameRooms, TypeOK
    <3>2. CASE HandleBroadcast(r) \/ TakeTimer(r) \/ TimerFires(r)
      BY <1>0, <2>1, <3>2 DEF HandleBroadcast, TakeTimer, TimerFires, SameRooms, TypeOK
    <3>3. QED
      BY <1>8, <3>1, <3>2
  <2>3. Placed' /\ Registered'
    BY <1>0, <1>8 DEF Joined, Left, HandleBroadcast, TakeTimer, TimerFires, connVars, Placed,
         Registered, TypeOK
  <2>4. QED
    BY <1>0, <2>1, <2>2, <2>3, OnlyRoom DEF TypeOK
<1>9. ASSUME NEW r \in Rooms, Reap(r) \/ RunEnds(r)
      PROVE  Created' /\ Placed' /\ Registered'
  <2>1. r <= made
    BY <1>0, <1>9, Numbers DEF Reap, RunEnds, Created, TypeOK, Rooms
  <2>2. Created'
    BY <1>0, <1>9, <2>1, Numbers DEF Reap, RunEnds, CloseRooms, Created, TypeOK, Rooms
  <2>3. Placed' /\ Registered'
    BY <1>0, <1>9 DEF Reap, RunEnds, CloseRooms, Placed, Registered, TypeOK
  <2>4. QED
    BY <2>2, <2>3
<1>10. ASSUME NEW u \in Users, EvictUser(u)
       PROVE  Created' /\ Placed' /\ Registered'
  <2>1. current \in Rooms
    BY <1>0, <1>10, Numbers DEF EvictUser, TypeOK, Rooms
  <2>2. QED
    BY <1>0, <1>10, <2>1, Numbers DEF EvictUser, Created, Placed, Registered, TypeOK, Rooms
<1>11. QED
  BY <1>2, <1>3, <1>4, <1>5, <1>6, <1>7, <1>8, <1>9, <1>10, Acts

-----------------------------------------------------------------------------
(* The registry, the timer and the end of a room. *)

LEMMA LoopsStep == ASSUME Places, Loops, Next PROVE Loops'
<1>0. /\ TypeOK /\ Created /\ Placed /\ Registered /\ made \in Nat
      /\ \A r \in Rooms : r \in Nat
  BY Numbers DEF Places, TypeOK, Rooms
<1>1. CASE OpenActs
  <2>1. PICK c \in Conns : Open(c)
    BY <1>1 DEF OpenActs
  <2>2. UNCHANGED <<hub, closed, clients>>
    BY <2>1 DEF Open
  <2>3. CASE UNCHANGED <<current, made, loop, timer>>
    BY <2>2, <2>3 DEF Loops, RegistryIsLive, ClosedHasEnded, ReapedIsEmpty, LeavingIsUntimed,
         TimerMeansEmpty
  <2>4. CASE current = 0 /\ made < MaxRooms /\ made' = made + 1 /\ current' = made + 1
             /\ loop' = [loop EXCEPT ![made + 1] = "select"]
             /\ timer' = [timer EXCEPT ![made + 1] = "armed"]
    <3>1. made + 1 \in Rooms /\ ~closed[made + 1] /\ clients[made + 1] = {}
      BY <1>0, <2>4, Numbers DEF Created, Rooms
    <3>2. RegistryIsLive'
      BY <1>0, <2>2, <2>4, <3>1 DEF Loops, RegistryIsLive
    <3>3. ClosedHasEnded' /\ ReapedIsEmpty' /\ LeavingIsUntimed' /\ TimerMeansEmpty'
      BY <1>0, <2>2, <2>4, <3>1
         DEF Loops, ClosedHasEnded, ReapedIsEmpty, LeavingIsUntimed, TimerMeansEmpty, TypeOK
    <3>4. QED
      BY <3>2, <3>3 DEF Loops
  <2>5. QED
    BY <2>1, <2>3, <2>4 DEF Open
<1>2. CASE PumpActs \/ SocketActs \/ HubActs
  BY <1>2 DEF PumpActs, RegisterDone, SendMessage, ReadMessage, SocketActs, Break,
       CloseSocket, ReadFails, UnregisterDone, HubActs, Cancel, Wait, connVars, Loops,
       RegistryIsLive, ClosedHasEnded, ReapedIsEmpty, LeavingIsUntimed, TimerMeansEmpty
<1>3. CASE Clear
  BY <1>0, <1>3 DEF Clear, CloseRooms, Loops, RegistryIsLive, ClosedHasEnded, ReapedIsEmpty,
       LeavingIsUntimed, TimerMeansEmpty, TypeOK
<1>4. ASSUME NEW r \in Rooms, NEW c \in Conns,
             HandleRegister(r, c) \/ HandleUnregister(r, c) \/ UnregisterUnknown(r, c)
      PROVE  Loops'
  <2>1. RegistryIsLive' /\ UNCHANGED closed
    BY <1>4 DEF HandleRegister, HandleUnregister, UnregisterUnknown, Loops, RegistryIsLive
  <2>2. CASE HandleRegister(r, c)
    BY <1>0, <2>1, <2>2 DEF HandleRegister, Loops, ClosedHasEnded, ReapedIsEmpty,
         LeavingIsUntimed, TimerMeansEmpty, TypeOK
  <2>3. CASE HandleUnregister(r, c)
    BY <1>0, <2>1, <2>3 DEF HandleUnregister, Loops, ClosedHasEnded, ReapedIsEmpty,
         LeavingIsUntimed, TimerMeansEmpty, TypeOK
  <2>4. CASE UnregisterUnknown(r, c)
    BY <1>0, <2>1, <2>4 DEF UnregisterUnknown, Rearmed, Loops, ClosedHasEnded,
         ReapedIsEmpty, LeavingIsUntimed, TimerMeansEmpty, TypeOK
  <2>5. QED
    BY <1>4, <2>2, <2>3, <2>4
<1>5. ASSUME NEW r \in Rooms,
             \/ Joined(r) \/ Left(r) \/ HandleBroadcast(r) \/ TakeTimer(r)
             \/ TimerFires(r)
      PROVE  Loops'
  <2>1. RegistryIsLive' /\ UNCHANGED closed
    BY <1>5 DEF Joined, Left, HandleBroadcast, TakeTimer, TimerFires, Loops, RegistryIsLive
  <2>2. CASE Joined(r)
    BY <1>0, <2>1, <2>2 DEF Joined, Loops, ClosedHasEnded, ReapedIsEmpty, LeavingIsUntimed,
         TimerMeansEmpty, TypeOK
  <2>3. CASE Left(r)
    BY <1>0, <2>1, <2>3 DEF Left, Rearmed, Loops, ClosedHasEnded, ReapedIsEmpty,
         LeavingIsUntimed, TimerMeansEmpty, TypeOK
  <2>4. CASE HandleBroadcast(r)
    BY <1>0, <2>1, <2>4 DEF HandleBroadcast, Loops, ClosedHasEnded, ReapedIsEmpty,
         LeavingIsUntimed, TimerMeansEmpty, TypeOK
  <2>5. CASE TakeTimer(r)
    BY <1>0, <2>1, <2>5 DEF TakeTimer, Loops, ClosedHasEnded, ReapedIsEmpty,
         LeavingIsUntimed, TimerMeansEmpty, TypeOK
  <2>6. CASE TimerFires(r)
    BY <1>0, <2>1, <2>6 DEF TimerFires, Loops, ClosedHasEnded, ReapedIsEmpty,
         LeavingIsUntimed, TimerMeansEmpty, TypeOK
  <2>7. QED
    BY <1>5, <2>2, <2>3, <2>4, <2>5, <2>6
<1>6. ASSUME NEW r \in Rooms, Reap(r)
      PROVE  Loops'
  <2>0. loop[r] = "reap" /\ r \in 1..made /\ 1..made \subseteq Rooms
    BY <1>0, <1>6, Numbers DEF Reap, Created, TypeOK, Rooms
  <2>1. hub = "open" => current = r
    BY <2>0 DEF Loops, RegistryIsLive, ClosedHasEnded
  <2>2. /\ UNCHANGED <<hub, made, timer>> /\ current' = 0
        /\ loop' = [loop EXCEPT ![r] = "ended"]
        /\ closed' = [s \in Rooms |-> closed[s] \/ s \in {r} \cup ({current} \ {0})]
        /\ \A s \in Rooms : clients'[s] \in {{}, clients[s]}
    BY <1>6 DEF Reap, CloseRooms
  <2>3. RegistryIsLive'
    <3>1. SUFFICES ASSUME hub = "open", NEW s \in 1..made
                   PROVE  closed'[s]
      BY <1>0, <2>2 DEF RegistryIsLive
    <3>2. closed[s] \/ s = r
      BY <2>0, <2>1, <3>1 DEF Loops, RegistryIsLive
    <3>3. QED
      BY <2>0, <2>2, <3>1, <3>2
  <2>4. ClosedHasEnded'
    BY <1>0, <2>1, <2>2 DEF Loops, ClosedHasEnded, TypeOK
  <2>5. ReapedIsEmpty' /\ LeavingIsUntimed' /\ TimerMeansEmpty'
    BY <1>0, <2>2 DEF Loops, ReapedIsEmpty, LeavingIsUntimed, TimerMeansEmpty, TypeOK
  <2>6. QED
    BY <2>3, <2>4, <2>5 DEF Loops
<1>7. ASSUME NEW r \in Rooms, RunEnds(r)
      PROVE  Loops'
  <2>1. hub # "open"
    BY <1>7 DEF RunEnds, Loops, ClosedHasEnded
  <2>2. /\ UNCHANGED <<hub, made, current>>
        /\ loop' = [loop EXCEPT ![r] = "ended"] /\ timer' = [timer EXCEPT ![r] = "off"]
        /\ closed' = [s \in Rooms |-> closed[s] \/ s = r]
        /\ \A s \in Rooms : clients'[s] \in {{}, clients[s]}
    BY <1>7 DEF RunEnds, CloseRooms
  <2>3. QED
    BY <1>0, <2>1, <2>2 DEF Loops, RegistryIsLive, ClosedHasEnded, ReapedIsEmpty,
         LeavingIsUntimed, TimerMeansEmpty, TypeOK
<1>8. ASSUME NEW u \in Users, EvictUser(u)
      PROVE  Loops'
  <2>1. current \in Rooms
    BY <1>0, <1>8, Numbers DEF EvictUser, TypeOK, Rooms
  <2>2. QED
    BY <1>0, <1>8, <2>1 DEF EvictUser, Loops, RegistryIsLive, ClosedHasEnded, ReapedIsEmpty,
         LeavingIsUntimed, TimerMeansEmpty, TypeOK
<1>9. ASSUME NEW r \in Rooms,
             \/ Joined(r) \/ Left(r) \/ HandleBroadcast(r) \/ TakeTimer(r)
             \/ Reap(r) \/ RunEnds(r) \/ TimerFires(r)
      PROVE  Loops'
  BY <1>5, <1>6, <1>7, <1>9
<1>10. QED
  BY <1>1, <1>2, <1>3, <1>4, <1>8, <1>9, Acts

-----------------------------------------------------------------------------
(* The clients of a room. *)

\* Sockets that are closed, or marked to be, were open or not before.
LEMMA ClosingOpens ==
  ASSUME TypeOK, NEW S, NEW c \in Conns, Closing(S)[c] = "open"
  PROVE  sock[c] = "open" /\ c \notin S
BY DEF Closing, TypeOK

\* Closing rooms only takes clients and sockets away.
LEMMA CloseRoomsOpens ==
  ASSUME TypeOK, NEW R, CloseRooms(R)
  PROVE  /\ \A r \in Rooms : \/ closed'[r] /\ clients'[r] = {}
                             \/ clients'[r] = clients[r] /\ (closed[r] => closed'[r])
         /\ \A c \in Conns : sock'[c] = "open" => sock[c] = "open"
BY DEF CloseRooms, TypeOK

LEMMA MembersStep == ASSUME Places, Loops, Members, Next PROVE Members'
<1>0. /\ TypeOK /\ Created /\ Placed /\ Registered /\ Placed'
      /\ OneConnPerUser /\ OpenMeansMember /\ NoLeak
      /\ \A c \in Conns : pc[c] # "new" => at[c] \in Rooms
  <2>1. 1..made \subseteq Rooms
    BY Numbers DEF Places, TypeOK, Rooms
  <2>2. QED
    BY PlacesStep, <2>1 DEF Places, Members, Placed
<1>1. CASE OpenActs
  BY <1>0, <1>1 DEF OpenActs, Open, Members, OneConnPerUser, OpenMeansMember, NoLeak, TypeOK
<1>2. CASE PumpActs
  BY <1>0, <1>2 DEF PumpActs, RegisterDone, SendMessage, ReadMessage, Members,
       OneConnPerUser, OpenMeansMember, NoLeak, TypeOK
<1>3. CASE SocketActs
  BY <1>0, <1>3 DEF SocketActs, Break, CloseSocket, ReadFails, UnregisterDone, Members,
       OneConnPerUser, OpenMeansMember, NoLeak, Registered, TypeOK
<1>4. CASE HubActs
  BY <1>0, <1>4 DEF HubActs, Cancel, Wait, connVars, Members, OneConnPerUser,
       OpenMeansMember, NoLeak
<1>5. CASE Clear \/ \E r \in Rooms : Reap(r) \/ RunEnds(r)
  <2>1. UNCHANGED <<pc, at>> /\ \E R : CloseRooms(R)
    BY <1>5 DEF Clear, Reap, RunEnds
  <2>2. PICK R : CloseRooms(R)
    BY <2>1
  <2>3. /\ \A r \in Rooms : \/ closed'[r] /\ clients'[r] = {}
                            \/ clients'[r] = clients[r] /\ (closed[r] => closed'[r])
        /\ \A c \in Conns : sock'[c] = "open" => sock[c] = "open"
    BY <1>0, <2>2, CloseRoomsOpens
  <2>4. OpenMeansMember'
    BY <1>0, <2>1, <2>3 DEF OpenMeansMember
  <2>5. OneConnPerUser' /\ NoLeak'
    BY <1>0, <2>1, <2>3 DEF OneConnPerUser, NoLeak
  <2>6. QED
    BY <2>4, <2>5 DEF Members
<1>6. ASSUME NEW r \in Rooms, NEW c \in Conns, HandleRegister(r, c)
      PROVE  Members'
  <2>1. /\ pc' = [pc EXCEPT ![c] = "pump"] /\ at[c] = r /\ UNCHANGED <<at, closed>>
        /\ clients' = [clients EXCEPT ![r] = (@ \ Others(r, c)) \cup {c}]
        /\ sock' = Closing(Others(r, c))
    BY <1>6 DEF HandleRegister
  <2>2. OneConnPerUser'
    BY <1>0, <2>1 DEF OneConnPerUser, Others, TypeOK
  <2>3. OpenMeansMember'
    <3>1. SUFFICES ASSUME NEW d \in Conns, d # c, pc[d] \in {"pump", "send"},
                          Closing(Others(r, c))[d] = "open", ~closed[at[d]]
                   PROVE  d \in clients'[at[d]]
      BY <1>0, <2>1 DEF OpenMeansMember, TypeOK
    <3>2. sock[d] = "open" /\ d \notin Others(r, c)
      BY <1>0, <3>1, ClosingOpens
    <3>3. d \in clients[at[d]] /\ at[d] \in Rooms
      BY <1>0, <3>1, <3>2 DEF OpenMeansMember
    <3>4. QED
      BY <1>0, <2>1, <3>2, <3>3 DEF TypeOK
  <2>4. NoLeak'
    BY <1>0, <2>1 DEF NoLeak, TypeOK
  <2>5. QED
    BY <2>2, <2>3, <2>4 DEF Members
<1>7. ASSUME NEW r \in Rooms, NEW c \in Conns,
             HandleUnregister(r, c) \/ UnregisterUnknown(r, c)
      PROVE  Members'
  <2>1. /\ pc' = [pc EXCEPT ![c] = "gone"] /\ at[c] = r /\ UNCHANGED <<at, closed, sock>>
        /\ \A s \in Rooms : clients'[s] \in {clients[s], clients[s] \ {c}}
        /\ c \notin clients'[r]
    BY <1>0, <1>7 DEF HandleUnregister, UnregisterUnknown, TypeOK
  <2>2. OneConnPerUser'
    BY <1>0, <2>1 DEF OneConnPerUser
  <2>3. OpenMeansMember'
    BY <1>0, <2>1 DEF OpenMeansMember, TypeOK
  <2>4. NoLeak'
    BY <1>0, <2>1 DEF NoLeak, Registered, TypeOK
  <2>5. QED
    BY <2>2, <2>3, <2>4 DEF Members
<1>8. ASSUME NEW r \in Rooms, Joined(r) \/ Left(r) \/ TakeTimer(r) \/ TimerFires(r)
      PROVE  Members'
  BY <1>0, <1>8 DEF Joined, Left, TakeTimer, TimerFires, connVars, Members, OneConnPerUser,
       OpenMeansMember, NoLeak
<1>9. ASSUME NEW r \in Rooms, NEW S, UNCHANGED <<pc, at, closed>>, sock' = Closing(S),
             clients' = [clients EXCEPT ![r] = @ \ S]
      PROVE  Members'
  <2>1. OneConnPerUser' /\ NoLeak'
    BY <1>0, <1>9 DEF OneConnPerUser, NoLeak, TypeOK
  <2>2. OpenMeansMember'
    BY <1>0, <1>9, ClosingOpens DEF OpenMeansMember, TypeOK
  <2>3. QED
    BY <2>1, <2>2 DEF Members
<1>10. ASSUME NEW r \in Rooms, HandleBroadcast(r)
       PROVE  Members'
  BY <1>9, <1>10 DEF HandleBroadcast
<1>11. ASSUME NEW u \in Users, EvictUser(u)
       PROVE  Members'
  <2>1. current \in Rooms
    BY <1>0, <1>11, Numbers DEF EvictUser, TypeOK, Rooms
  <2>2. QED
    BY <1>9, <1>11, <2>1 DEF EvictUser
<1>12. QED
  BY <1>1, <1>2, <1>3, <1>4, <1>5, <1>6, <1>7, <1>8, <1>10, <1>11, Acts

-----------------------------------------------------------------------------
\* The inductive invariant.
THEOREM Invariance == Spec => []IInv
<1>1. Init => IInv
  BY InitInv
<1>2. IInv /\ [Next]_vars => IInv'
  <2>1. CASE UNCHANGED vars
    BY <2>1 DEF vars, connVars, IInv, Places, TypeOK, Created, Placed, Registered, Loops,
         RegistryIsLive, ClosedHasEnded, ReapedIsEmpty, LeavingIsUntimed, TimerMeansEmpty,
         Members, OneConnPerUser, OpenMeansMember, NoLeak
  <2>2. CASE Next
    BY <2>2, PlacesStep, LoopsStep, MembersStep DEF IInv
  <2>3. QED
    BY <2>1, <2>2
<1>3. QED
  BY <1>1, <1>2, PTL DEF Spec

\* One open socket for a user, in the room, and nobody in a living room whose
\* handler has ended, whatever the order of registrations, evictions and ends
\* (room.go, handleRegister and handleUnregister).
THEOREM Membership == Spec => []MembershipOK
<1>1. IInv => MembershipOK
  BY DEF IInv, Places, Members, MembershipOK
<1>2. QED
  BY <1>1, Invariance, PTL

\* While the hub is open the registry has the one room that lives, and the idle
\* timer only runs in an empty one (hub.go, GetOrCreateRoom and RemoveRoom).
THEOREM Registry == Spec => []RegistryOK
<1>1. IInv => RegistryOK
  BY DEF IInv, Loops, RegistryOK
<1>2. QED
  BY <1>1, Invariance, PTL

\* A room that is reaped has nobody in it (hub.go, RemoveRoom closes whatever room
\* the registry has).
THEOREM ReapedRooms == Spec => OnlyEmptyReaped
<1>1. ASSUME IInv, Next, NEW r \in Rooms, hub = "open", ~closed[r], closed'[r]
      PROVE  clients[r] = {}
  <2>0. TypeOK /\ Created /\ made \in Nat
    BY <1>1 DEF IInv, Places, TypeOK
  <2>1. PICK s \in Rooms : Reap(s) \/ RunEnds(s)
    BY <1>1, Acts DEF OpenActs, Open, PumpActs, RegisterDone, SendMessage, ReadMessage,
         SocketActs, Break, CloseSocket, ReadFails, UnregisterDone, HubActs, Cancel, Wait,
         Clear, HandleRegister, HandleUnregister, UnregisterUnknown, Joined, Left,
         HandleBroadcast, TakeTimer, TimerFires, EvictUser
  <2>2. Reap(s)
    BY <1>1, <2>1 DEF RunEnds, IInv, Loops, ClosedHasEnded
  <2>3. s \in 1..made /\ loop[s] = "reap"
    BY <2>0, <2>2, Numbers DEF Reap, Created, TypeOK, Rooms
  <2>4. current = s
    BY <1>1, <2>3 DEF IInv, Loops, ClosedHasEnded, RegistryIsLive
  <2>5. r = s
    BY <1>1, <2>2, <2>4 DEF Reap, CloseRooms
  <2>6. QED
    BY <1>1, <2>3, <2>5 DEF IInv, Loops, ReapedIsEmpty
<1>2. IInv /\ [Next]_vars =>
        [\A r \in Rooms : hub = "open" /\ ~closed[r] /\ closed'[r] => clients[r] = {}]_vars
  BY <1>1
<1>3. QED
  BY <1>2, Invariance, PTL DEF Spec, OnlyEmptyReaped

-----------------------------------------------------------------------------
(* SessionMirror: the inductive invariant *)

\* The calls that will make a token.
Raisers == {c \in Calls : \/ call[c].kind = "rotate" /\ call[c].pc \in {"begin", "update"}
                          \/ call[c].kind = "remove" /\ call[c].pc = "begin"}

\* No call makes two tokens.
MintedOK ==
  /\ IsFiniteSet(Raisers)
  /\ minted + Cardinality(Raisers) <= calls + 1

\* Nothing else is called while the session is being created, and closeSession has
\* closed the row before it writes the mirror.
CallsOK ==
  \A c \in Calls :
    /\ call[c].kind \in env \cup {"none", "create"}
    /\ call[c].kind = "none" => call[c].pc = "idle"
    /\ At(c, "close", "publish") \/ At(c, "close", "token") \/ At(c, "close", "members")
         => ~db.open
    /\ call[c].kind = "create" =>
         /\ \A d \in Calls : d # c => call[d].kind = "none"
         /\ call[c].pc \in {"active", "member", "invite"}
         /\ call[c].token = 1 /\ minted = 1 /\ db.open /\ out = {}

PlacesOK ==
  /\ IsFiniteSet(db.members)
  /\ "meet" \notin env => Cardinality(db.members) <= MaxParticipants

ClosedOK ==
  ~db.open /\ ~revived /\ mirror.active = "true" =>
    \E c \in Calls : At(c, "close", "publish")

\* A rotation has written its token to the row and owes it to the mirror.
Owed(c) == At(c, "rotate", "set")

\* The call will answer its user with the token it holds: he has been let in.
Tells(c) ==
  \/ At(c, "join", "activate")
  \/ /\ call[c].kind = "meet" /\ call[c].pc # "begin"
     /\ call[c].pc = "create" => call[c].u \in call[c].list

\* While the mirror has had a token throughout: a token a rotation owes is known, or
\* about to be, only if joinMeeting has read it early; and who was removed knows, or
\* is about to be told, neither the token of the mirror nor the row's.
OwedOK ==
  \A c \in Calls : Owed(c) =>
    /\ call[c].token \notin {0, mirror.token}
    /\ \A u \in Accounts : call[c].token \in knows[u] => call[c].token \in early
    /\ \A d \in Calls :
         /\ call[d].kind \in {"join", "meet"} /\ call[d].token = call[c].token =>
              call[c].token \in early
         /\ Owed(d) /\ d # c => call[d].token # call[c].token

OutOK ==
  \A u \in out :
    /\ mirror.token \notin knows[u] /\ db.token \notin knows[u]
    /\ \A c \in Calls : Tells(c) /\ call[c].u = u =>
                          call[c].token \notin {mirror.token, db.token}

LinkOK ==
  /\ Owner \notin out
  /\ \A c \in Calls : call[c].kind \in {"rotate", "create"} => call[c].u = Owner
  /\ ~unlinked /\ ~leaked => out \cap db.members = {}
  /\ db.open /\ ~unlinked =>
       /\ mirror.token = 0 => \E c \in Calls : call[c].kind = "create"
       /\ OwedOK
  /\ db.open /\ ~unlinked /\ ~leaked => OutOK

TokenOK == db.open /\ ~mixed /\ ~TokenChanges => mirror.token \in {0, db.token}

MirrorIInv ==
  /\ MirrorTypeOK /\ MintedOK /\ CallsOK /\ out \subseteq Accounts
  /\ PlacesOK /\ ClosedOK /\ LinkOK /\ TokenOK

-----------------------------------------------------------------------------
(* Types *)

CallPcs == {"idle", "begin", "active", "member", "invite", "update", "set", "publish",
            "token", "members", "create", "check", "activate", "hdel", "answer"}
CallRec(m) == [kind : Kinds \cup {"none", "create"}, u : Accounts, pc : CallPcs,
               token : 0 .. m, list : SUBSET Accounts]

\* What one call does to the record of its own.
Moves(c) == call' = [call EXCEPT ![c] = call'[c]]

CallsTyped(m) == call \in [Calls -> CallRec(m)]
RowTyped ==
  db \in [open : BOOLEAN, members : SUBSET Accounts, token : 1 .. minted]
KeysTyped ==
  mirror \in [active : {"none", "true", "closed"}, members : SUBSET Accounts,
              token : 0 .. minted]
RestTyped ==
  /\ env \in Cases
  /\ minted \in 1 .. MaxCalls[env] + 1
  /\ knows \in [Accounts -> SUBSET (0 .. minted)]
  /\ sweep \in [read : BOOLEAN, list : SUBSET Accounts, token : 0 .. minted]
  /\ socket \in [Accounts -> {"none", "active", "member", "open"}]
  /\ evicted \in SUBSET Accounts /\ early \in SUBSET (1 .. minted)
  /\ calls \in 0 .. MaxCalls[env] /\ faults \in 0 .. MaxFaults

LEMMA TypeParts == MirrorTypeOK <=> CallsTyped(minted) /\ RowTyped /\ KeysTyped /\ RestTyped
BY DEF MirrorTypeOK, CallsTyped, RowTyped, KeysTyped, RestTyped, CallRec, CallPcs

LEMMA TypePartsPrimed ==
  MirrorTypeOK' <=> CallsTyped(minted)' /\ RowTyped' /\ KeysTyped' /\ RestTyped'
BY TypeParts, PTL

LEMMA PeopleTyped == People \subseteq Accounts
BY ConstantsAssumption DEF People

LEMMA NoCallTyped == \A m \in Nat : NoCall \in CallRec(m)
BY ConstantsAssumption DEF NoCall, CallRec, CallPcs

LEMMA FieldsTyped ==
  ASSUME NEW m \in Nat, NEW r \in CallRec(m), NEW step \in CallPcs
  PROVE  /\ \A l \in SUBSET Accounts : [r EXCEPT !.pc = step, !.list = l] \in CallRec(m)
         /\ \A t \in 0 .. m : [r EXCEPT !.pc = step, !.token = t] \in CallRec(m)
         /\ \A l \in SUBSET Accounts, t \in 0 .. m :
              [r EXCEPT !.pc = step, !.list = l, !.token = t] \in CallRec(m)
<1>1. [r EXCEPT !.pc = step] \in CallRec(m)
  BY DEF CallRec
<1>2. \A q \in CallRec(m), l \in SUBSET Accounts : [q EXCEPT !.list = l] \in CallRec(m)
  BY DEF CallRec
<1>3. \A q \in CallRec(m), t \in 0 .. m : [q EXCEPT !.token = t] \in CallRec(m)
  BY DEF CallRec
<1>4. QED
  BY <1>1, <1>2, <1>3

\* A call goes to its next step, or ends: nothing else of `call' changes.
LEMMA GotoMoves ==
  ASSUME NEW m \in Nat, CallsTyped(m), NEW c \in Calls, NEW step \in CallPcs, Goto(c, step)
  PROVE  /\ call' \in [Calls -> CallRec(m)]
         /\ call' = [call EXCEPT ![c] = call'[c]]
         /\ call'[c] = [call[c] EXCEPT !.pc = step]
BY DEF CallsTyped, Goto, CallRec

LEMMA EndMoves ==
  ASSUME NEW m \in Nat, CallsTyped(m), NEW c \in Calls, End(c)
  PROVE  /\ call' \in [Calls -> CallRec(m)]
         /\ call' = [call EXCEPT ![c] = call'[c]]
         /\ call'[c] = NoCall
BY NoCallTyped DEF CallsTyped, End

LEMMA GotoFields ==
  ASSUME MirrorTypeOK, NEW c \in Calls, NEW step \in CallPcs, Goto(c, step)
  PROVE  /\ call'[c].kind = call[c].kind /\ call'[c].pc = step /\ call'[c].u = call[c].u
         /\ call'[c].token = call[c].token /\ call'[c].list = call[c].list
<1>1. call'[c] = [call[c] EXCEPT !.pc = step]
  BY DEF Goto, MirrorTypeOK
<1>2. call[c] \in CallRec(minted)
  BY TypeParts DEF CallsTyped
<1>3. QED
  BY <1>1, <1>2 DEF CallRec

LEMMA EndFields ==
  ASSUME MirrorTypeOK, NEW c \in Calls, End(c)
  PROVE  /\ call'[c].kind = "none" /\ call'[c].pc = "idle"
         /\ call'[c].token = 0 /\ call'[c].list = {}
BY DEF End, MirrorTypeOK, NoCall

LEMMA PairFields ==
  ASSUME MirrorTypeOK, NEW c \in Calls, NEW x, NEW y
  PROVE  /\ call' = [call EXCEPT ![c].pc = x, ![c].token = y] =>
              /\ call'[c].kind = call[c].kind /\ call'[c].pc = x /\ call'[c].u = call[c].u
              /\ call'[c].token = y /\ call'[c].list = call[c].list
         /\ call' = [call EXCEPT ![c].pc = x, ![c].list = y] =>
              /\ call'[c].kind = call[c].kind /\ call'[c].pc = x /\ call'[c].u = call[c].u
              /\ call'[c].token = call[c].token /\ call'[c].list = y
         /\ call' = [call EXCEPT ![c].list = y] =>
              /\ call'[c].kind = call[c].kind /\ call'[c].pc = call[c].pc /\ call'[c].u = call[c].u
              /\ call'[c].token = call[c].token /\ call'[c].list = y
<1>1. call[c] \in CallRec(minted) /\ call \in [Calls -> CallRec(minted)]
  BY TypeParts DEF CallsTyped
<1>2. call' = [call EXCEPT ![c].pc = x, ![c].token = y] =>
        call'[c] = [call[c] EXCEPT !.pc = x, !.token = y]
  BY <1>1
<1>3. call' = [call EXCEPT ![c].pc = x, ![c].list = y] =>
        call'[c] = [call[c] EXCEPT !.pc = x, !.list = y]
  BY <1>1
<1>4. call' = [call EXCEPT ![c].list = y] => call'[c] = [call[c] EXCEPT !.list = y]
  BY <1>1
<1>5. QED
  BY <1>1, <1>2, <1>3, <1>4 DEF CallRec

LEMMA TripleFields ==
  ASSUME MirrorTypeOK, NEW c \in Calls, NEW x, NEW y, NEW z,
         call' = [call EXCEPT ![c].pc = x, ![c].list = y, ![c].token = z]
  PROVE  /\ call'[c].kind = call[c].kind /\ call'[c].pc = x /\ call'[c].u = call[c].u
         /\ call'[c].token = z /\ call'[c].list = y
<1>1. call[c] \in CallRec(minted) /\ call \in [Calls -> CallRec(minted)]
  BY TypeParts DEF CallsTyped
<1>2. call'[c] = [call[c] EXCEPT !.pc = x, !.list = y, !.token = z]
  BY <1>1
<1>3. QED
  BY <1>1, <1>2 DEF CallRec

\* What a call of joinMeeting that goes on keeps of the row it has read.
LEMMA MeetBegun ==
  ASSUME MirrorTypeOK, NEW c \in Calls, MeetSteps(c), At(c, "meet", "begin"), db.open
  PROVE  /\ call'[c].kind = call[c].kind /\ call'[c].pc = "create" /\ call'[c].u = call[c].u
         /\ call'[c].token = db.token /\ call'[c].list = db.members
<1>1. call' = [call EXCEPT ![c].pc = "create", ![c].list = db.members, ![c].token = db.token]
  BY DEF MeetSteps, At
<1>2. PICK l, t : l = db.members /\ t = db.token
  OBVIOUS
<1>3. call[c] \in CallRec(minted) /\ call \in [Calls -> CallRec(minted)]
  BY TypeParts DEF CallsTyped
<1>4. call'[c] = [call[c] EXCEPT !.pc = "create", !.list = l, !.token = t]
  BY <1>1, <1>2, <1>3
<1>5. QED
  BY <1>2, <1>3, <1>4 DEF CallRec

\* What a joinSession that is let in keeps of the key of the token.
LEMMA JoinBegun ==
  ASSUME MirrorTypeOK, NEW c \in Calls, JoinTx(c), mirror.token # 0, ~End(c)
  PROVE  call'[c].kind = call[c].kind /\ call'[c].token = mirror.token
<1>1. call' = [call EXCEPT ![c].pc = "activate", ![c].token = mirror.token]
  BY DEF JoinTx
<1>2. PICK t : t = mirror.token
  OBVIOUS
<1>3. call[c] \in CallRec(minted) /\ call \in [Calls -> CallRec(minted)]
  BY TypeParts DEF CallsTyped
<1>4. call'[c] = [call[c] EXCEPT !.pc = "activate", !.token = t]
  BY <1>1, <1>2, <1>3
<1>5. QED
  BY <1>2, <1>3, <1>4 DEF CallRec

\* What a call answers is a token.
LEMMA AnswerTyped ==
  ASSUME CallsTyped(minted), RestTyped, NEW c \in Calls, Answer(c)
  PROVE  knows' \in [Accounts -> SUBSET (0 .. minted)]
<1>1. call[c].u \in Accounts /\ call[c].token \in 0 .. minted
  BY DEF CallsTyped, CallRec
<1>2. QED
  BY <1>1 DEF Answer, RestTyped

LEMMA CreateTypes ==
  ASSUME MirrorTypeOK, NEW c \in Calls, CreateSteps(c)
  PROVE  MirrorTypeOK' /\ Moves(c)
<1>1. minted \in Nat /\ CallsTyped(minted) /\ KeysTyped /\ RestTyped /\ RowTyped
  BY TypeParts, ConstantsAssumption DEF RestTyped
<1>2. /\ UNCHANGED <<db, minted, sweep, sockets, bounds, early>>
      /\ knows' \in [Accounts -> SUBSET (0 .. minted)]
  BY <1>1, AnswerTyped DEF CreateSteps, MirrorOnly, row, notes, RestTyped
<1>3. CallsTyped(minted)' /\ Moves(c)
  <2>1. End(c) \/ \E step \in CallPcs : Goto(c, step)
    BY DEF CreateSteps, CallPcs
  <2>2. QED
    BY <1>1, <1>2, <2>1, GotoMoves, EndMoves DEF CallsTyped, Moves
<1>4. KeysTyped'
  <2>1. call[c].token \in 0 .. minted
    BY <1>1 DEF CallsTyped, CallRec
  <2>2. QED
    BY <1>1, <1>2, <2>1, ConstantsAssumption DEF CreateSteps, KeysTyped
<1>5. RowTyped' /\ RestTyped'
  BY <1>1, <1>2 DEF RowTyped, RestTyped, sockets, bounds
<1>6. QED
  BY <1>3, <1>4, <1>5, TypePartsPrimed

LEMMA RotateTypes ==
  ASSUME MirrorTypeOK, NEW c \in Calls, RotateSteps(c), ~At(c, "rotate", "update")
  PROVE  MirrorTypeOK' /\ Moves(c)
<1>1. minted \in Nat /\ CallsTyped(minted) /\ KeysTyped /\ RestTyped /\ RowTyped
  BY TypeParts, ConstantsAssumption DEF RestTyped
<1>2. /\ UNCHANGED <<db, minted, sweep, sockets, bounds, early>>
      /\ knows' \in [Accounts -> SUBSET (0 .. minted)]
  BY <1>1, AnswerTyped DEF RotateSteps, MirrorOnly, row, notes, RestTyped
<1>3. CallsTyped(minted)' /\ Moves(c)
  <2>1. End(c) \/ \E step \in CallPcs : Goto(c, step)
    BY DEF RotateSteps, CallPcs
  <2>2. QED
    BY <1>1, <1>2, <2>1, GotoMoves, EndMoves DEF CallsTyped, Moves
<1>4. KeysTyped'
  <2>1. call[c].token \in 0 .. minted
    BY <1>1 DEF CallsTyped, CallRec
  <2>2. QED
    BY <1>1, <1>2, <2>1 DEF RotateSteps, KeysTyped
<1>5. RowTyped' /\ RestTyped'
  BY <1>1, <1>2 DEF RowTyped, RestTyped, sockets, bounds
<1>6. QED
  BY <1>3, <1>4, <1>5, TypePartsPrimed

LEMMA CloseTypes ==
  ASSUME MirrorTypeOK, NEW c \in Calls, CloseSteps(c)
  PROVE  MirrorTypeOK' /\ Moves(c)
<1>1. minted \in Nat /\ CallsTyped(minted) /\ KeysTyped /\ RestTyped /\ RowTyped
  BY TypeParts, ConstantsAssumption DEF RestTyped
<1>2. UNCHANGED <<minted, knows, sweep, socket, bounds, early>>
  BY DEF CloseSteps, MirrorOnly, row, sockets, notes
<1>3. CallsTyped(minted)' /\ Moves(c)
  <2>1. CASE End(c) \/ \E step \in CallPcs : Goto(c, step)
    BY <1>1, <1>2, <2>1, GotoMoves, EndMoves DEF CallsTyped, Moves
  <2>2. CASE call' = [call EXCEPT ![c].pc = "update", ![c].list = db.members]
    <3>1. [call[c] EXCEPT !.pc = "update", !.list = db.members] \in CallRec(minted)
      <4>1. /\ call[c] \in CallRec(minted) /\ "update" \in CallPcs
            /\ db.members \in SUBSET Accounts
        BY <1>1 DEF CallsTyped, RowTyped, CallPcs
      <4>2. QED
        BY <1>1, <4>1, FieldsTyped
    <3>2. call' = [call EXCEPT ![c] = [call[c] EXCEPT !.pc = "update", !.list = db.members]]
      BY <2>2
    <3>3. QED
      BY <1>1, <1>2, <3>1, <3>2 DEF CallsTyped, Moves
  <2>3. ASSUME NEW u \in call[c].list, call' = [call EXCEPT ![c].list = @ \ {u}]
        PROVE  CallsTyped(minted)' /\ Moves(c)
    BY <1>1, <1>2, <2>3 DEF CallsTyped, CallRec, Moves
  <2>4. QED
    BY <2>1, <2>2, <2>3 DEF CloseSteps, CallPcs
<1>4. KeysTyped'
  BY <1>1, <1>2 DEF CloseSteps, KeysTyped, MirrorOnly
<1>5. RowTyped'
  BY <1>1, <1>2 DEF CloseSteps, RowTyped, MirrorOnly, row
<1>6. RestTyped'
  <2>1. evicted' \in SUBSET Accounts
    BY <1>1 DEF CloseSteps, MirrorOnly, sockets, RestTyped, CallsTyped, CallRec
  <2>2. QED
    BY <1>1, <1>2, <2>1 DEF RestTyped, bounds
<1>7. QED
  BY <1>3, <1>4, <1>5, <1>6, TypePartsPrimed

LEMMA MeetTypes ==
  ASSUME MirrorTypeOK, NEW c \in Calls, MeetSteps(c)
  PROVE  MirrorTypeOK' /\ Moves(c)
<1>1. minted \in Nat /\ CallsTyped(minted) /\ KeysTyped /\ RestTyped /\ RowTyped
  BY TypeParts, ConstantsAssumption DEF RestTyped
<1>2. /\ UNCHANGED <<minted, sweep, sockets, bounds>>
      /\ knows' \in [Accounts -> SUBSET (0 .. minted)]
      /\ early' \in SUBSET (1 .. minted)
  <2>1. db.token \in 1 .. minted
    BY <1>1 DEF RowTyped
  <2>2. QED
    BY <1>1, <2>1, AnswerTyped DEF MeetSteps, MirrorOnly, row, notes, RestTyped
<1>3. CallsTyped(minted)' /\ Moves(c)
  <2>1. CASE End(c) \/ \E step \in CallPcs : Goto(c, step)
    BY <1>1, <1>2, <2>1, GotoMoves, EndMoves DEF CallsTyped, Moves
  <2>2. CASE call' = [call EXCEPT ![c].pc = "create", ![c].list = db.members,
                                  ![c].token = db.token]
    <3>1. [call[c] EXCEPT !.pc = "create", !.list = db.members, !.token = db.token]
            \in CallRec(minted)
      <4>1. /\ call[c] \in CallRec(minted) /\ "create" \in CallPcs
            /\ db.members \in SUBSET Accounts /\ db.token \in 0 .. minted
        BY <1>1 DEF CallsTyped, RowTyped, CallPcs
      <4>2. QED
        BY <1>1, <4>1, FieldsTyped
    <3>2. call' = [call EXCEPT ![c] = [call[c] EXCEPT !.pc = "create", !.list = db.members,
                                                      !.token = db.token]]
      BY <2>2
    <3>3. QED
      BY <1>1, <1>2, <3>1, <3>2 DEF CallsTyped, Moves
  <2>3. \A step \in {"answer", "set"} : step \in CallPcs
    BY DEF CallPcs
  <2>4. QED
    BY <2>1, <2>2, <2>3 DEF MeetSteps, CallPcs
<1>4. call[c].u \in Accounts
  BY <1>1 DEF CallsTyped, CallRec
<1>5. KeysTyped'
  BY <1>1, <1>2, <1>4 DEF MeetSteps, KeysTyped, MirrorOnly
<1>6. RowTyped'
  BY <1>1, <1>2, <1>4 DEF MeetSteps, RowTyped, MirrorOnly, row
<1>7. RestTyped'
  BY <1>1, <1>2 DEF RestTyped, bounds, sockets
<1>8. QED
  BY <1>3, <1>5, <1>6, <1>7, TypePartsPrimed

LEMMA LockedTypes ==
  ASSUME MirrorTypeOK, NEW c \in Calls,
         JoinTx(c) \/ Activate(c) \/ AddSteps(c) \/ RemoveRefused(c) \/ Hdel(c) \/ Evict(c)
  PROVE  MirrorTypeOK' /\ Moves(c)
<1>1. minted \in Nat /\ CallsTyped(minted) /\ KeysTyped /\ RestTyped /\ RowTyped
  BY TypeParts, ConstantsAssumption DEF RestTyped
<1>2. /\ UNCHANGED <<minted, sweep, socket, bounds, early>>
      /\ knows' \in [Accounts -> SUBSET (0 .. minted)]
  BY <1>1, AnswerTyped DEF JoinTx, Activate, AddSteps, RemoveRefused, Hdel, Evict, MirrorOnly,
     row, sockets, notes, RestTyped
<1>3. CallsTyped(minted)' /\ Moves(c)
  <2>1. CASE End(c) \/ \E step \in CallPcs : Goto(c, step)
    BY <1>1, <1>2, <2>1, GotoMoves, EndMoves DEF CallsTyped, Moves
  <2>2. ASSUME NEW t \in 0 .. minted,
               call' = [call EXCEPT ![c].pc = "activate", ![c].token = t]
        PROVE  CallsTyped(minted)' /\ Moves(c)
    <3>1. [call[c] EXCEPT !.pc = "activate", !.token = t] \in CallRec(minted)
      <4>1. call[c] \in CallRec(minted) /\ "activate" \in CallPcs
        BY <1>1 DEF CallsTyped, CallPcs
      <4>2. QED
        BY <1>1, <4>1, FieldsTyped
    <3>2. call' = [call EXCEPT ![c] = [call[c] EXCEPT !.pc = "activate", !.token = t]]
      BY <2>2
    <3>3. QED
      BY <1>1, <1>2, <3>1, <3>2 DEF CallsTyped, Moves
  <2>3. db.token \in 0 .. minted /\ mirror.token \in 0 .. minted
    BY <1>1 DEF RowTyped, KeysTyped
  <2>4. QED
    BY <2>1, <2>2, <2>3 DEF JoinTx, Activate, AddSteps, RemoveRefused, Hdel, Evict, CallPcs
<1>4. call[c].u \in Accounts
  BY <1>1 DEF CallsTyped, CallRec
<1>5. KeysTyped'
  <2>1. db.token \in 0 .. minted
    BY <1>1 DEF RowTyped
  <2>2. QED
    BY <1>1, <1>2, <1>4, <2>1 DEF JoinTx, Activate, AddSteps, RemoveRefused, Hdel, Evict,
       KeysTyped, MirrorOnly
<1>6. RowTyped'
  BY <1>1, <1>2, <1>4 DEF JoinTx, Activate, AddSteps, RemoveRefused, Hdel, Evict, RowTyped,
     MirrorOnly, row
<1>7. RestTyped'
  <2>1. evicted' \in SUBSET Accounts
    BY <1>1, <1>4 DEF JoinTx, Activate, AddSteps, RemoveRefused, Hdel, Evict, MirrorOnly,
       sockets, RestTyped
  <2>2. QED
    BY <1>1, <1>2, <2>1 DEF RestTyped, bounds
<1>8. QED
  BY <1>3, <1>5, <1>6, <1>7, TypePartsPrimed

\* The calls that are going to make a token are fewer than those there may still be.
LEMMA RaiserCounts ==
  ASSUME MirrorTypeOK, MintedOK, NEW c \in Calls, c \in Raisers
  PROVE  minted + 1 \in 1 .. MaxCalls[env] + 1 /\ minted \in Nat
<1>1. Cardinality(Raisers) # 0
  BY FS_EmptySet DEF MintedOK
<1>2. Cardinality(Raisers) \in Nat
  BY FS_CardinalityType DEF MintedOK
<1>3. /\ minted \in Nat /\ minted >= 1 /\ calls \in Nat /\ calls <= MaxCalls[env]
      /\ MaxCalls[env] \in Nat
  BY ConstantsAssumption DEF MirrorTypeOK
<1>4. minted + Cardinality(Raisers) <= calls + 1
  BY DEF MintedOK
<1>5. QED
  BY <1>1, <1>2, <1>3, <1>4, ConstantsAssumption

\* The steps that make one.
LEMMA RaisingTypes ==
  ASSUME MirrorTypeOK, MintedOK, NEW c \in Calls,
         \/ RotateSteps(c) /\ At(c, "rotate", "update")
         \/ RemoveTx(c) \/ RemoveTorn(c)
  PROVE  /\ MirrorTypeOK' /\ Moves(c)
         /\ minted' = minted + 1 /\ c \in Raisers
<1>1. minted \in Nat /\ CallsTyped(minted) /\ KeysTyped /\ RestTyped /\ RowTyped
  BY TypeParts, ConstantsAssumption DEF RestTyped
<1>2. c \in Raisers
  BY DEF At, RemoveTx, RemoveTorn, Raisers
<1>3. minted' = minted + 1 /\ minted + 1 \in 1 .. MaxCalls[env] + 1 /\ minted + 1 \in Nat
  BY <1>2, RaiserCounts DEF RotateSteps, At, RemoveTx, RemoveTorn
<1>4. CallsTyped(minted + 1)
  BY <1>1 DEF CallsTyped, CallRec
<1>5. call' \in [Calls -> CallRec(minted + 1)] /\ Moves(c)
  <2>1. CASE End(c) \/ \E step \in CallPcs : Goto(c, step)
    BY <1>3, <1>4, <2>1, GotoMoves, EndMoves DEF Moves
  <2>2. CASE call' = [call EXCEPT ![c].pc = "set", ![c].token = minted + 1]
    <3>1. call[c] \in CallRec(minted + 1)
      BY <1>4 DEF CallsTyped
    <3>2. [call[c] EXCEPT !.pc = "set", !.token = minted + 1] \in CallRec(minted + 1)
      <4>1. "set" \in CallPcs /\ minted + 1 \in 0 .. minted + 1
        BY <1>3 DEF CallPcs
      <4>2. QED
        BY <1>3, <3>1, <4>1, FieldsTyped
    <3>3. call' = [call EXCEPT ![c] = [call[c] EXCEPT !.pc = "set", !.token = minted + 1]]
      BY <2>2
    <3>4. QED
      BY <1>4, <3>2, <3>3 DEF CallsTyped, Moves
  <2>3. QED
    BY <2>1, <2>2 DEF RotateSteps, At, RemoveTx, RemoveTorn, CallPcs
<1>6. CallsTyped(minted)'
  BY <1>3, <1>5 DEF CallsTyped
<1>7. KeysTyped'
  BY <1>1, <1>3 DEF RotateSteps, At, RemoveTx, RemoveTorn, KeysTyped
<1>8. RowTyped'
  <2>1. CASE RemoveTorn(c)
    BY <1>1, <1>3, <2>1 DEF RemoveTorn, RowTyped
  <2>2. CASE ~RemoveTorn(c)
    <3>1. /\ db' = [db EXCEPT !.token = minted + 1, !.members = db'.members]
          /\ db'.members \in SUBSET Accounts
      BY <1>1, <2>2 DEF RotateSteps, At, RemoveTx, RowTyped
    <3>2. minted + 1 \in 1 .. minted + 1
      BY <1>1
    <3>3. QED
      BY <1>1, <1>3, <3>1, <3>2 DEF RowTyped
  <2>3. QED
    BY <2>1, <2>2
<1>9. RestTyped'
  <2>1. /\ UNCHANGED <<env, knows, sweep, socket, evicted, calls, early>>
        /\ faults' \in 0 .. MaxFaults
    BY <1>1, ConstantsAssumption DEF RotateSteps, At, RemoveTx, RemoveTorn, Fault, RestTyped,
       bounds, sockets, notes
  <2>2. QED
    BY <1>1, <1>3, <2>1 DEF RestTyped
<1>10. QED
  BY <1>2, <1>3, <1>5, <1>6, <1>7, <1>8, <1>9, TypePartsPrimed

LEMMA BeginTypes ==
  ASSUME MirrorTypeOK, NEW c \in Calls, NEW kind \in Kinds, NEW u \in People, Begin(c, kind, u)
  PROVE  MirrorTypeOK' /\ Moves(c)
<1>1. minted \in Nat /\ CallsTyped(minted) /\ KeysTyped /\ RestTyped /\ RowTyped
  BY TypeParts, ConstantsAssumption DEF RestTyped
<1>2. UNCHANGED <<env, faults, row, mirror, sweep, sockets, early>>
  BY DEF Begin, notes
<1>3. CallsTyped(minted)' /\ Moves(c)
  <2>1. [NoCall EXCEPT !.kind = kind, !.pc = "begin", !.u = u] \in CallRec(minted)
    <3>1. u \in Accounts /\ NoCall \in CallRec(minted)
      BY <1>1, PeopleTyped, NoCallTyped
    <3>2. QED
      BY <3>1 DEF CallRec, CallPcs
  <2>2. QED
    BY <1>1, <1>2, <2>1 DEF Begin, CallsTyped, Moves, row
<1>4. calls' \in 0 .. MaxCalls[env]
  BY <1>1, ConstantsAssumption DEF Begin, RestTyped
<1>5. RowTyped' /\ KeysTyped' /\ RestTyped'
  BY <1>1, <1>2, <1>4 DEF RowTyped, KeysTyped, RestTyped, row, sockets
<1>6. QED
  BY <1>3, <1>5, TypePartsPrimed

LEMMA AbortTypes ==
  ASSUME MirrorTypeOK, NEW c \in Calls, Abort(c)
  PROVE  MirrorTypeOK' /\ Moves(c)
<1>1. minted \in Nat /\ CallsTyped(minted) /\ KeysTyped /\ RestTyped /\ RowTyped
  BY TypeParts, ConstantsAssumption DEF RestTyped
<1>2. UNCHANGED <<env, calls, row, mirror, sweep, socket, evicted, early>> /\ End(c)
  BY DEF Abort, Fault
<1>3. CallsTyped(minted)' /\ Moves(c)
  BY <1>1, <1>2, EndMoves DEF CallsTyped, Moves, row
<1>4. faults' \in 0 .. MaxFaults
  BY <1>1, ConstantsAssumption DEF Abort, Fault, RestTyped
<1>5. RowTyped' /\ KeysTyped' /\ RestTyped'
  BY <1>1, <1>2, <1>4 DEF RowTyped, KeysTyped, RestTyped, row
<1>6. QED
  BY <1>3, <1>5, TypePartsPrimed

\* The steps of nobody's call.
Outside(u) == \/ Invite(u) \/ CheckActive(u) \/ CheckMember(u) \/ Register(u)
              \/ Leave(u) \/ Deliver(u) \/ Lose(u)

LEMMA OutsideTypes ==
  ASSUME MirrorTypeOK, NEW u \in People, Outside(u)
  PROVE  MirrorTypeOK' /\ UNCHANGED call
<1>1. minted \in Nat /\ CallsTyped(minted) /\ KeysTyped /\ RestTyped /\ RowTyped
  BY TypeParts, ConstantsAssumption DEF RestTyped
<1>2. u \in Accounts
  BY PeopleTyped
<1>3. UNCHANGED <<env, db, mirror, minted, call, sweep, calls, early>>
  BY DEF Outside, Invite, CheckActive, CheckMember, Register, Leave, Deliver, Lose, SockOnly,
     Fault, row, bounds, notes
<1>4. knows' \in [Accounts -> SUBSET (0 .. minted)]
  BY <1>1, <1>2, PeopleTyped DEF Outside, Invite, CheckActive, CheckMember, Register, Leave,
     Deliver, Lose, SockOnly, row, RestTyped
<1>5. socket' \in [Accounts -> {"none", "active", "member", "open"}]
  BY <1>1, <1>2 DEF Outside, Invite, CheckActive, CheckMember, Register, Leave, Deliver, Lose,
     SockOnly, sockets, RestTyped
<1>6. evicted' \in SUBSET Accounts
  BY <1>1 DEF Outside, Invite, CheckActive, CheckMember, Register, Leave, Deliver, Lose,
     SockOnly, sockets, RestTyped
<1>7. faults' \in 0 .. MaxFaults
  BY <1>1, ConstantsAssumption DEF Outside, Invite, CheckActive, CheckMember, Register, Leave,
     Deliver, Lose, SockOnly, bounds, Fault, RestTyped
<1>8. QED
  BY <1>1, <1>3, <1>4, <1>5, <1>6, <1>7, TypePartsPrimed
     DEF CallsTyped, RowTyped, KeysTyped, RestTyped

LEMMA SweepTypes ==
  ASSUME MirrorTypeOK, Flush \/ SweepRead \/ SweepLua
  PROVE  MirrorTypeOK' /\ UNCHANGED call
<1>1. minted \in Nat /\ CallsTyped(minted) /\ KeysTyped /\ RestTyped /\ RowTyped
  BY TypeParts, ConstantsAssumption DEF RestTyped
<1>2. UNCHANGED <<env, row, call, sockets, calls, early>>
  BY DEF Flush, SweepRead, SweepLua, Fault, bounds, notes
<1>3. KeysTyped'
  <2>1. CASE Flush
    BY <1>1, <1>2, <2>1 DEF Flush, KeysTyped, NoMirror, row
  <2>2. CASE SweepRead
    BY <1>1, <1>2, <2>2 DEF SweepRead, KeysTyped, row
  <2>3. CASE SweepLua
    <3>1. sweep.list \in SUBSET Accounts /\ sweep.token \in 0 .. minted
      BY <1>1 DEF RestTyped
    <3>2. QED
      BY <1>1, <1>2, <2>3, <3>1 DEF SweepLua, KeysTyped, Reconciled, row
  <2>4. QED
    BY <2>1, <2>2, <2>3
<1>4. sweep' \in [read : BOOLEAN, list : SUBSET Accounts, token : 0 .. minted]
  <2>1. db.token \in 0 .. minted /\ db.members \in SUBSET Accounts /\ 0 \in 0 .. minted
    BY <1>1 DEF RowTyped
  <2>2. [read |-> TRUE, list |-> db.members, token |-> db.token]
          \in [read : BOOLEAN, list : SUBSET Accounts, token : 0 .. minted]
    BY <2>1
  <2>3. NoSweep \in [read : BOOLEAN, list : SUBSET Accounts, token : 0 .. minted]
    BY <2>1 DEF NoSweep
  <2>4. QED
    BY <1>1, <2>2, <2>3 DEF Flush, SweepRead, SweepLua, RestTyped
<1>5. faults' \in 0 .. MaxFaults
  BY <1>1, ConstantsAssumption DEF Flush, SweepRead, SweepLua, Fault, RestTyped, bounds
<1>6. QED
  BY <1>1, <1>2, <1>3, <1>4, <1>5, TypePartsPrimed
     DEF CallsTyped, RowTyped, RestTyped, row, sockets

-----------------------------------------------------------------------------
(* What a step does to the calls *)

\* A call that moves leaves the records of the others alone.
LEMMA OthersStay ==
  ASSUME MirrorTypeOK, NEW c \in Calls, Moves(c)
  PROVE  \A d \in Calls : d # c => call'[d] = call[d]
BY DEF MirrorTypeOK, Moves

\* A step of the call c, made by its own request, by a failure or by its beginning.
CallMovesOf(c) ==
  \/ CallStep(c) \/ Abort(c) \/ RemoveTorn(c)
  \/ \E kind \in Kinds, u \in People : Begin(c, kind, u)

LEMMA CallTypes ==
  ASSUME MirrorTypeOK, MintedOK, NEW c \in Calls, CallMovesOf(c)
  PROVE  MirrorTypeOK' /\ Moves(c)
<1>1. CASE CreateSteps(c)
  BY <1>1, CreateTypes
<1>2. CASE RotateSteps(c) /\ ~At(c, "rotate", "update")
  BY <1>2, RotateTypes
<1>3. CASE RotateSteps(c) /\ At(c, "rotate", "update")
  BY <1>3, RaisingTypes
<1>4. CASE RemoveTx(c) \/ RemoveTorn(c)
  BY <1>4, RaisingTypes
<1>5. CASE CloseSteps(c)
  BY <1>5, CloseTypes
<1>6. CASE MeetSteps(c)
  BY <1>6, MeetTypes
<1>7. CASE JoinTx(c) \/ Activate(c) \/ AddSteps(c) \/ RemoveRefused(c) \/ Hdel(c) \/ Evict(c)
  BY <1>7, LockedTypes
<1>8. CASE Abort(c)
  BY <1>8, AbortTypes
<1>9. CASE \E kind \in Kinds, u \in People : Begin(c, kind, u)
  BY <1>9, BeginTypes
<1>10. QED
  BY <1>1, <1>2, <1>3, <1>4, <1>5, <1>6, <1>7, <1>8, <1>9 DEF CallMovesOf, CallStep

LEMMA RaisersMove ==
  ASSUME MirrorTypeOK, MintedOK, NEW c \in Calls, Moves(c)
  PROVE  /\ IsFiniteSet(Raisers') /\ Cardinality(Raisers) \in Nat /\ Cardinality(Raisers') \in Nat
         /\ Cardinality(Raisers') <= Cardinality(Raisers) + 1
         /\ c \in Raisers \/ c \notin Raisers' => Cardinality(Raisers') <= Cardinality(Raisers)
         /\ c \in Raisers /\ c \notin Raisers' => Cardinality(Raisers') + 1 <= Cardinality(Raisers)
<1>1. IsFiniteSet(Raisers)
  BY DEF MintedOK
<1>2. \A d \in Calls : d # c => (d \in Raisers' <=> d \in Raisers)
  BY OthersStay DEF Raisers
<1>3. Raisers' \subseteq Calls /\ Raisers \subseteq Calls
  BY DEF Raisers
<1>4. /\ IsFiniteSet(Raisers \cup {c}) /\ IsFiniteSet(Raisers \ {c})
      /\ Cardinality(Raisers \cup {c}) = IF c \in Raisers THEN Cardinality(Raisers)
                                                        ELSE Cardinality(Raisers) + 1
      /\ Cardinality(Raisers \ {c}) = IF c \in Raisers THEN Cardinality(Raisers) - 1
                                                     ELSE Cardinality(Raisers)
      /\ Cardinality(Raisers) \in Nat
  BY <1>1, FS_AddElement, FS_RemoveElement, FS_CardinalityType
<1>5. CASE c \in Raisers'
  <2>1. Raisers' = Raisers \cup {c}
    BY <1>2, <1>3, <1>5
  <2>2. QED
    BY <1>4, <1>5, <2>1
<1>6. CASE c \notin Raisers'
  <2>1. Raisers' = Raisers \ {c}
    BY <1>2, <1>3, <1>6
  <2>2. Cardinality(Raisers \ {c}) \in Nat
    BY <1>4, FS_CardinalityType
  <2>3. QED
    BY <1>4, <1>6, <2>1, <2>2
<1>7. QED
  BY <1>5, <1>6

LEMMA CallMinted ==
  ASSUME MirrorTypeOK, MintedOK, NEW c \in Calls, CallMovesOf(c)
  PROVE  MintedOK'
<1>1. Moves(c) /\ minted \in Nat /\ calls \in Nat /\ call \in [Calls -> CallRec(minted)]
  BY CallTypes, TypeParts, ConstantsAssumption DEF MirrorTypeOK, CallsTyped
<1>2. /\ IsFiniteSet(Raisers') /\ Cardinality(Raisers) \in Nat /\ Cardinality(Raisers') \in Nat
      /\ Cardinality(Raisers') <= Cardinality(Raisers) + 1
      /\ c \in Raisers \/ c \notin Raisers' => Cardinality(Raisers') <= Cardinality(Raisers)
      /\ c \in Raisers /\ c \notin Raisers' => Cardinality(Raisers') + 1 <= Cardinality(Raisers)
  BY <1>1, RaisersMove
<1>3. minted + Cardinality(Raisers) <= calls + 1
  BY DEF MintedOK
<1>4. CASE minted' = minted /\ calls' = calls /\ (c \in Raisers \/ c \notin Raisers')
  BY <1>1, <1>2, <1>3, <1>4 DEF MintedOK
<1>5. CASE minted' = minted + 1 /\ calls' = calls /\ c \in Raisers /\ c \notin Raisers'
  BY <1>1, <1>2, <1>3, <1>5 DEF MintedOK
<1>6. CASE minted' = minted /\ calls' = calls + 1
  BY <1>1, <1>2, <1>3, <1>6 DEF MintedOK
<1>7. \A step \in CallPcs : Goto(c, step) => call'[c].kind = call[c].kind /\ call'[c].pc = step
  BY GotoFields
<1>8. End(c) => call'[c].kind = "none"
  BY EndFields
<1>9. CASE RotateSteps(c)
  <2>1. CASE At(c, "rotate", "begin")
    BY <1>1, <1>4, <1>9, <2>1 DEF RotateSteps, At, Raisers, MirrorOnly, row, bounds
  <2>2. CASE At(c, "rotate", "update")
    <3>1. call'[c].kind = "rotate" /\ call'[c].pc = "set"
      BY <1>1, <1>9, <2>2 DEF RotateSteps, At, CallRec
    <3>2. QED
      BY <1>5, <1>9, <2>2, <3>1 DEF RotateSteps, At, Raisers, bounds
  <2>3. CASE At(c, "rotate", "set")
    BY <1>4, <1>8, <1>9, <2>3 DEF RotateSteps, At, Raisers, MirrorOnly, row, bounds
  <2>4. QED
    BY <1>9, <2>1, <2>2, <2>3 DEF RotateSteps
<1>10. CASE RemoveTx(c) \/ RemoveTorn(c)
  <2>1. c \in Raisers /\ c \notin Raisers'
    BY <1>7, <1>8, <1>10 DEF RemoveTx, RemoveTorn, At, Raisers, CallPcs
  <2>2. QED
    BY <1>5, <1>10, <2>1 DEF RemoveTx, RemoveTorn, Fault, bounds
<1>11. CASE CloseSteps(c)
  <2>1. call'[c].kind \in {"none", "close"}
    BY <1>1, <1>7, <1>8, <1>11 DEF CloseSteps, At, CallRec, CallPcs
  <2>2. QED
    BY <1>4, <1>11, <2>1 DEF CloseSteps, MirrorOnly, row, bounds, Raisers
<1>12. CASE MeetSteps(c)
  <2>1. call'[c].kind \in {"none", "meet"}
    <3>1. CASE End(c) \/ \E step \in CallPcs : Goto(c, step)
      BY <1>7, <1>8, <1>12, <3>1 DEF MeetSteps, At
    <3>2. CASE call' = [call EXCEPT ![c].pc = "create", ![c].list = db.members,
                                    ![c].token = db.token]
      BY <1>12, <3>2, TripleFields DEF MeetSteps, At
    <3>3. \A step \in {"answer", "set"} : step \in CallPcs
      BY DEF CallPcs
    <3>4. QED
      BY <1>12, <3>1, <3>2, <3>3 DEF MeetSteps, CallPcs
  <2>2. QED
    BY <1>4, <1>12, <2>1 DEF MeetSteps, MirrorOnly, row, bounds, Raisers
<1>13. CASE CreateSteps(c)
  <2>1. call'[c].kind \in {"none", "create"}
    BY <1>1, <1>7, <1>8, <1>13 DEF CreateSteps, At, CallRec, CallPcs
  <2>2. QED
    BY <1>4, <1>13, <2>1 DEF CreateSteps, MirrorOnly, row, bounds, Raisers
<1>14. CASE JoinTx(c) \/ Activate(c) \/ AddSteps(c)
  <2>1. call'[c].kind \in {"none", "join", "add"}
    <3>1. CASE End(c) \/ \E step \in CallPcs : Goto(c, step)
      BY <1>7, <1>8, <1>14, <3>1 DEF JoinTx, Activate, AddSteps, At
    <3>2. CASE \E k : call' = [call EXCEPT ![c].pc = "activate", ![c].token = k]
      <4>1. PICK k : call' = [call EXCEPT ![c].pc = "activate", ![c].token = k]
        BY <3>2
      <4>2. call'[c].kind = call[c].kind
        BY <4>1, PairFields
      <4>3. QED
        BY <1>14, <4>2 DEF JoinTx, Activate, AddSteps, At
    <3>3. QED
      BY <1>14, <3>1, <3>2 DEF JoinTx, Activate, AddSteps, CallPcs
  <2>2. QED
    BY <1>4, <1>14, <2>1 DEF JoinTx, Activate, AddSteps, MirrorOnly, row, bounds, Raisers
<1>15. CASE RemoveRefused(c) \/ Hdel(c) \/ Evict(c)
  <2>1. call'[c].kind = "none" \/ call'[c].pc = "publish"
    BY <1>1, <1>7, <1>8, <1>15 DEF RemoveRefused, Hdel, Evict, At, CallRec, CallPcs
  <2>2. QED
    BY <1>4, <1>15, <2>1 DEF RemoveRefused, Hdel, Evict, MirrorOnly, row, bounds, Raisers
<1>16. CASE Abort(c)
  BY <1>4, <1>8, <1>16 DEF Abort, Fault, row, Raisers
<1>17. CASE \E kind \in Kinds, u \in People : Begin(c, kind, u)
  BY <1>6, <1>17 DEF Begin, row
<1>18. QED
  BY <1>9, <1>10, <1>11, <1>12, <1>13, <1>14, <1>15, <1>16, <1>17 DEF CallMovesOf, CallStep

Publishing(r) == r.kind = "close" /\ r.pc \in {"publish", "token", "members"}

\* What a step of c has to show for CallsOK: the other calls are as they were.
LEMMA CallsOKMove ==
  ASSUME MirrorTypeOK, CallsOK, NEW c \in Calls, Moves(c), UNCHANGED env,
         db'.open => db.open,
         call[c].kind # "none" \/ \A d \in Calls : call[d].kind # "create",
         call'[c].kind \in env \cup {"none", "create"},
         call'[c].kind = "none" => call'[c].pc = "idle",
         Publishing(call'[c]) => ~db'.open,
         call'[c].kind = "create" =>
           /\ call[c].kind = "create" /\ call'[c].pc \in {"active", "member", "invite"}
           /\ call'[c].token = call[c].token
           /\ minted' = minted /\ db'.open /\ out' = {}
  PROVE  CallsOK'
<1>1. \A d \in Calls : d # c => call'[d] = call[d]
  BY OthersStay
<1>2. SUFFICES ASSUME NEW d \in Calls
      PROVE  /\ call'[d].kind \in env' \cup {"none", "create"}
             /\ call'[d].kind = "none" => call'[d].pc = "idle"
             /\ Publishing(call'[d]) => ~db'.open
             /\ call'[d].kind = "create" =>
                  /\ \A e \in Calls : e # d => call'[e].kind = "none"
                  /\ call'[d].pc \in {"active", "member", "invite"}
                  /\ call'[d].token = 1 /\ minted' = 1 /\ db'.open /\ out' = {}
  BY DEF CallsOK, Publishing, At
<1>3. CASE d = c
  BY <1>1, <1>3 DEF CallsOK
<1>4. CASE d # c
  <2>1. call[d].kind # "create"
    BY <1>4 DEF CallsOK
  <2>2. QED
    BY <1>1, <1>4, <2>1 DEF CallsOK, Publishing, At
<1>5. QED
  BY <1>3, <1>4

LEMMA CallCallsOK ==
  ASSUME MirrorTypeOK, MintedOK, CallsOK, NEW c \in Calls, CallMovesOf(c)
  PROVE  CallsOK'
<1>1. Moves(c)
  BY CallTypes
<1>2. \A step \in CallPcs : Goto(c, step) => /\ call'[c].kind = call[c].kind /\ call'[c].pc = step
                                         /\ call'[c].token = call[c].token
  BY GotoFields
<1>3. End(c) => call'[c].kind = "none" /\ call'[c].pc = "idle"
  BY EndFields
<1>4. /\ call[c].kind \in env \cup {"none", "create"}
      /\ call[c].kind = "none" => call[c].pc = "idle"
      /\ Publishing(call[c]) => ~db.open
      /\ call[c].kind = "create" => minted = 1 /\ db.open /\ out = {}
  BY DEF CallsOK, Publishing, At
<1>5. /\ call[c] \in CallRec(minted)
      /\ db \in [open : BOOLEAN, members : SUBSET Accounts, token : 1 .. minted]
  BY TypeParts DEF CallsTyped, RowTyped
<1>6. CASE CreateSteps(c)
  <2>1. UNCHANGED <<minted, db, env, out>> /\ call[c].kind = "create"
    BY <1>6 DEF CreateSteps, At, MirrorOnly, row, bounds
  <2>2. \/ call'[c].kind = "none" /\ call'[c].pc = "idle"
        \/ /\ call'[c].kind = "create" /\ call'[c].pc \in {"member", "invite"}
           /\ call'[c].token = call[c].token
    BY <1>2, <1>3, <1>6, <2>1 DEF CreateSteps, CallPcs
  <2>3. QED
    BY <1>1, <1>4, <2>1, <2>2, CallsOKMove DEF Publishing
<1>7. CASE RotateSteps(c)
  <2>1. UNCHANGED env /\ db'.open = db.open /\ call[c].kind = "rotate"
    BY <1>5, <1>7 DEF RotateSteps, At, MirrorOnly, row, bounds
  <2>2. call'[c].kind = "rotate" \/ (call'[c].kind = "none" /\ call'[c].pc = "idle")
    BY <1>2, <1>3, <1>7, <2>1, PairFields DEF RotateSteps, CallPcs
  <2>3. QED
    BY <1>1, <1>4, <2>1, <2>2, CallsOKMove DEF Publishing
<1>8. CASE CloseSteps(c)
  <2>1. UNCHANGED env /\ (db'.open => db.open) /\ call[c].kind = "close"
    BY <1>5, <1>8 DEF CloseSteps, At, MirrorOnly, row, bounds
  <2>2. \/ call'[c].kind = "none" /\ call'[c].pc = "idle"
        \/ call'[c].kind = "close" /\ (call'[c].pc = "update" \/ ~db'.open)
    <3>1. CASE At(c, "close", "begin")
      BY <1>3, <1>5, <1>8, <2>1, <3>1 DEF CloseSteps, At, CallRec, MirrorTypeOK
    <3>2. CASE At(c, "close", "update")
      BY <1>2, <1>5, <1>8, <2>1, <3>2 DEF CloseSteps, At, CallPcs
    <3>3. CASE At(c, "close", "publish")
      <4>1. ~db'.open
        BY <1>4, <2>1, <3>3 DEF At, Publishing
      <4>2. call'[c].kind = "close"
        BY <1>2, <1>5, <1>8, <2>1, <3>3 DEF CloseSteps, At, CallPcs, CallRec, MirrorTypeOK
      <4>3. QED
        BY <4>1, <4>2
    <3>4. CASE At(c, "close", "token")
      BY <1>2, <1>4, <1>8, <2>1, <3>4 DEF CloseSteps, At, CallPcs, Publishing
    <3>5. CASE At(c, "close", "members")
      BY <1>3, <1>8, <3>5 DEF CloseSteps, At
    <3>6. QED
      BY <1>8, <3>1, <3>2, <3>3, <3>4, <3>5 DEF CloseSteps
  <2>3. QED
    BY <1>1, <1>4, <2>1, <2>2, CallsOKMove DEF Publishing
<1>9. CASE MeetSteps(c)
  <2>1. UNCHANGED env /\ db'.open = db.open /\ call[c].kind = "meet"
    BY <1>5, <1>9 DEF MeetSteps, At, MirrorOnly, row, bounds
  <2>2. call'[c].kind = "meet" \/ (call'[c].kind = "none" /\ call'[c].pc = "idle")
    <3>1. CASE End(c) \/ \E step \in CallPcs : Goto(c, step)
      BY <1>2, <1>3, <2>1, <3>1
    <3>2. CASE call' = [call EXCEPT ![c].pc = "create", ![c].list = db.members,
                                    ![c].token = db.token]
      BY <2>1, <3>2, TripleFields
    <3>3. \A step \in {"answer", "set"} : step \in CallPcs
      BY DEF CallPcs
    <3>4. QED
      BY <1>9, <3>1, <3>2, <3>3 DEF MeetSteps, CallPcs
  <2>3. QED
    BY <1>1, <1>4, <2>1, <2>2, CallsOKMove DEF Publishing
<1>10. CASE \/ JoinTx(c) \/ Activate(c) \/ AddSteps(c)
            \/ RemoveRefused(c) \/ Hdel(c) \/ Evict(c) \/ RemoveTx(c) \/ RemoveTorn(c)
  <2>1. UNCHANGED env /\ db'.open = db.open /\ call[c].kind \in {"join", "add", "remove"}
    BY <1>5, <1>10 DEF JoinTx, Activate, AddSteps, RemoveRefused, Hdel, Evict, RemoveTx,
       RemoveTorn, At, MirrorOnly, row, bounds, Fault
  <2>2. call'[c].kind = call[c].kind \/ (call'[c].kind = "none" /\ call'[c].pc = "idle")
    <3>1. CASE \E k : call' = [call EXCEPT ![c].pc = "activate", ![c].token = k]
      <4>1. PICK k : call' = [call EXCEPT ![c].pc = "activate", ![c].token = k]
        BY <3>1
      <4>2. QED
        BY <4>1, PairFields
    <3>2. CASE End(c) \/ \E step \in CallPcs : Goto(c, step)
      BY <1>2, <1>3, <3>2
    <3>3. QED
      BY <1>10, <3>1, <3>2 DEF JoinTx, Activate, AddSteps, RemoveRefused, Hdel, Evict, RemoveTx,
         RemoveTorn, CallPcs
  <2>3. QED
    BY <1>1, <1>4, <2>1, <2>2, CallsOKMove DEF Publishing
<1>11. CASE Abort(c)
  <2>1. UNCHANGED <<env, db>> /\ End(c) /\ call[c].pc # "idle"
    BY <1>11 DEF Abort, Fault, row
  <2>2. QED
    BY <1>1, <1>3, <1>4, <2>1, CallsOKMove DEF Publishing
<1>12. ASSUME NEW kind \in Kinds, NEW u \in People, Begin(c, kind, u) PROVE CallsOK'
  <2>1. UNCHANGED <<env, db>> /\ kind \in env /\ \A d \in Calls : call[d].kind # "create"
    BY <1>12 DEF Begin, row
  <2>2. call'[c].kind = kind /\ call'[c].pc = "begin"
    BY <1>12 DEF Begin, NoCall, MirrorTypeOK
  <2>3. kind # "none" /\ kind # "create"
    BY DEF Kinds
  <2>4. QED
    BY <1>1, <1>4, <2>1, <2>2, <2>3, CallsOKMove DEF Publishing
<1>13. QED
  BY <1>6, <1>7, <1>8, <1>9, <1>10, <1>11, <1>12 DEF CallMovesOf, CallStep

\* The places: who joins or is added has been counted under the lock.
LEMMA CallPlaces ==
  ASSUME MirrorTypeOK, CallsOK, PlacesOK, NEW c \in Calls, CallMovesOf(c)
  PROVE  PlacesOK'
<1>1. \/ db'.members = db.members
      \/ db'.members = db.members \ {call[c].u}
      \/ /\ db'.members = db.members \cup {call[c].u}
         /\ \/ "meet" \in env \/ call[c].u \in db.members
            \/ Cardinality(db.members) < MaxParticipants
  <2>1. db \in [open : BOOLEAN, members : SUBSET Accounts, token : 1 .. minted]
    BY DEF MirrorTypeOK
  <2>2. CASE MeetSteps(c)
    <3>1. "meet" \in env
      BY <2>2 DEF MeetSteps, At, CallsOK
    <3>2. QED
      BY <2>1, <2>2, <3>1 DEF MeetSteps, MirrorOnly, row
  <2>3. CASE JoinTx(c) \/ AddSteps(c)
    BY <2>1, <2>3 DEF JoinTx, AddSteps, Entitled, MirrorOnly, row
  <2>4. CASE RemoveTx(c) \/ CloseSteps(c) \/ RotateSteps(c)
    BY <2>1, <2>4 DEF RemoveTx, CloseSteps, RotateSteps, MirrorOnly, row
  <2>5. CASE \/ CreateSteps(c) \/ Activate(c) \/ RemoveRefused(c) \/ Hdel(c) \/ Evict(c)
             \/ Abort(c) \/ RemoveTorn(c)
             \/ \E kind \in Kinds, u \in People : Begin(c, kind, u)
    BY <2>5 DEF CreateSteps, Activate, RemoveRefused, Hdel, Evict, Abort, RemoveTorn, Begin,
       MirrorOnly, row
  <2>6. QED
    BY <2>2, <2>3, <2>4, <2>5 DEF CallMovesOf, CallStep
<1>2. UNCHANGED env
  BY DEF CallMovesOf, CallStep, CreateSteps, RotateSteps, CloseSteps, MeetSteps, JoinTx, Activate,
     AddSteps, RemoveTx, RemoveRefused, Hdel, Evict, Abort, RemoveTorn, Begin, Fault, MirrorOnly,
     bounds
<1>3. /\ IsFiniteSet(db.members) /\ Cardinality(db.members) \in Nat
      /\ IsFiniteSet(db.members \cup {call[c].u})
      /\ Cardinality(db.members \cup {call[c].u}) =
           IF call[c].u \in db.members THEN Cardinality(db.members)
                                       ELSE Cardinality(db.members) + 1
      /\ IsFiniteSet(db.members \ {call[c].u})
      /\ Cardinality(db.members \ {call[c].u}) =
           IF call[c].u \in db.members THEN Cardinality(db.members) - 1
                                       ELSE Cardinality(db.members)
  BY FS_AddElement, FS_RemoveElement, FS_CardinalityType DEF PlacesOK
<1>4. PlacesOK /\ MaxParticipants \in Nat
  BY ConstantsAssumption
<1>5. CASE db'.members = db.members
  BY <1>2, <1>4, <1>5 DEF PlacesOK
<1>6. CASE db'.members = db.members \ {call[c].u}
  BY <1>2, <1>3, <1>4, <1>6 DEF PlacesOK
<1>7. CASE /\ db'.members = db.members \cup {call[c].u}
           /\ \/ "meet" \in env \/ call[c].u \in db.members
              \/ Cardinality(db.members) < MaxParticipants
  BY <1>2, <1>3, <1>4, <1>7 DEF PlacesOK
<1>8. QED
  BY <1>1, <1>5, <1>6, <1>7

\* A mirror that is active although the session is closed has closeSession at work.
LEMMA CallClosed ==
  ASSUME MirrorTypeOK, MintedOK, CallsOK, ClosedOK, NEW c \in Calls, CallMovesOf(c)
  PROVE  ClosedOK'
<1>1. Moves(c) /\ \A d \in Calls : d # c => call'[d] = call[d]
  BY CallTypes, OthersStay
<1>2. /\ db \in [open : BOOLEAN, members : SUBSET Accounts, token : 1 .. minted]
      /\ mirror \in [active : {"none", "true", "closed"}, members : SUBSET Accounts,
                     token : 0 .. minted]
  BY DEF MirrorTypeOK
<1>3. CASE /\ ~At(c, "close", "publish") /\ db'.open = db.open /\ (revived => revived')
           /\ mirror'.active = mirror.active
  <2>1. (\E d \in Calls : At(d, "close", "publish")) => \E d \in Calls : At(d, "close", "publish")'
    BY <1>1, <1>3 DEF At
  <2>2. QED
    BY <1>3, <2>1 DEF ClosedOK
<1>4. CASE ~db'.open => revived'
  BY <1>4 DEF ClosedOK
<1>5. CASE At(c, "close", "publish")'
  BY <1>5 DEF ClosedOK
<1>6. CASE mirror'.active = "closed"
  BY <1>6 DEF ClosedOK
<1>7. CASE CreateSteps(c)
  BY <1>4, <1>7 DEF CreateSteps, At, CallsOK, MirrorOnly, row
<1>8. CASE RotateSteps(c)
  BY <1>2, <1>3, <1>8 DEF RotateSteps, At, MirrorOnly, row, notes
<1>9. CASE CloseSteps(c)
  <2>1. CASE At(c, "close", "update")
    <3>1. "publish" \in CallPcs /\ Goto(c, "publish")
      BY <1>9, <2>1 DEF CloseSteps, At, CallPcs
    <3>2. QED
      BY <1>5, <2>1, <3>1, GotoFields DEF At
  <2>2. CASE At(c, "close", "publish")
    <3>1. CASE \E u \in call[c].list : call' = [call EXCEPT ![c].list = @ \ {u}]
      <4>1. PICK u \in call[c].list : call' = [call EXCEPT ![c].list = call[c].list \ {u}]
        BY <1>1, <3>1
      <4>2. QED
        BY <1>5, <2>2, <4>1, PairFields DEF At
    <3>2. CASE mirror' = [mirror EXCEPT !.active = "closed"]
      BY <1>2, <1>6, <3>2
    <3>3. QED
      BY <1>9, <2>2, <3>1, <3>2 DEF CloseSteps, At
  <2>3. CASE ~At(c, "close", "update") /\ ~At(c, "close", "publish")
    BY <1>2, <1>3, <1>9, <2>3 DEF CloseSteps, MirrorOnly, row, notes
  <2>4. QED
    BY <2>1, <2>2, <2>3
<1>10. CASE MeetSteps(c)
  <2>1. CASE At(c, "meet", "set")
    BY <1>4, <1>10, <2>1 DEF MeetSteps, At, MirrorOnly, row
  <2>2. CASE ~At(c, "meet", "set")
    BY <1>2, <1>3, <1>10, <2>2 DEF MeetSteps, At, MirrorOnly, row, notes
  <2>3. QED
    BY <2>1, <2>2
<1>11. CASE Activate(c)
  <2>1. UNCHANGED db /\ ~At(c, "close", "publish")
    BY <1>11 DEF Activate, At, MirrorOnly, row
  <2>2. CASE mirror.active = "closed"
    BY <1>6, <1>11, <2>2 DEF Activate
  <2>3. CASE mirror.active = "none"
    BY <1>4, <1>11, <2>1, <2>3 DEF Activate
  <2>4. CASE mirror.active = "true"
    BY <1>2, <1>3, <1>11, <2>1, <2>4 DEF Activate
  <2>5. QED
    BY <1>2, <2>2, <2>3, <2>4
<1>12. CASE JoinTx(c) \/ AddSteps(c)
  BY <1>2, <1>3, <1>12 DEF JoinTx, AddSteps, At, MirrorOnly, row, notes
<1>13. CASE RemoveRefused(c) \/ Hdel(c) \/ Evict(c) \/ RemoveTx(c) \/ RemoveTorn(c)
  BY <1>2, <1>3, <1>13 DEF RemoveRefused, Hdel, Evict, RemoveTx, RemoveTorn, At, MirrorOnly,
     row, notes
<1>14. CASE Abort(c)
  BY <1>3, <1>4, <1>14 DEF Abort, row
<1>15. CASE \E kind \in Kinds, u \in People : Begin(c, kind, u)
  BY <1>3, <1>15 DEF Begin, At, row, notes
<1>16. QED
  BY <1>7, <1>8, <1>9, <1>10, <1>11, <1>12, <1>13, <1>14, <1>15 DEF CallMovesOf, CallStep

\* The token of the mirror is the row's, or there is none.
LEMMA CallToken ==
  ASSUME MirrorTypeOK, MintedOK, CallsOK, TokenOK, NEW c \in Calls, CallMovesOf(c)
  PROVE  TokenOK'
<1>1. /\ Moves(c) /\ \A d \in Calls : d # c => call'[d] = call[d]
      /\ MirrorTypeOK'
  BY CallTypes, OthersStay
<1>2. /\ db \in [open : BOOLEAN, members : SUBSET Accounts, token : 1 .. minted]
      /\ mirror \in [active : {"none", "true", "closed"}, members : SUBSET Accounts,
                     token : 0 .. minted]
  BY DEF MirrorTypeOK
<1>3. CASE /\ call[c].kind # "create" /\ ~Owed(c)
           /\ db'.open => db.open
           /\ mixed => mixed'
           /\ db'.token = db.token /\ mirror'.token \in {0, db.token, mirror.token}
  <2>1. TokenChanges => TokenChanges'
    BY <1>1, <1>3 DEF TokenChanges, Owed, At
  <2>2. QED
    BY <1>3, <2>1 DEF TokenOK
<1>4. CASE (db'.open => mixed') \/ mirror'.token = db'.token \/ Owed(c)'
  BY <1>4 DEF TokenOK, TokenChanges, Owed
<1>5. CASE call[c].kind = "create" /\ minted' = minted
  <2>1. minted' = 1
    BY <1>5 DEF CallsOK
  <2>2. /\ db' \in [open : BOOLEAN, members : SUBSET Accounts, token : 1 .. minted']
        /\ mirror' \in [active : {"none", "true", "closed"}, members : SUBSET Accounts,
                        token : 0 .. minted']
    BY <1>1 DEF MirrorTypeOK
  <2>3. db'.token \in 1 .. 1 /\ mirror'.token \in 0 .. 1
    BY <2>1, <2>2
  <2>4. mirror'.token \in {0, db'.token}
    BY <2>3
  <2>5. QED
    BY <2>4 DEF TokenOK
<1>6. CASE CreateSteps(c)
  BY <1>5, <1>6 DEF CreateSteps, At, MirrorOnly, row
<1>7. CASE RotateSteps(c)
  <2>1. CASE At(c, "rotate", "begin")
    BY <1>2, <1>3, <1>7, <2>1 DEF RotateSteps, At, Owed, MirrorOnly, row, notes
  <2>2. CASE At(c, "rotate", "update")
    <3>1. Owed(c)'
      BY <1>7, <2>2, PairFields DEF RotateSteps, At, Owed
    <3>2. QED
      BY <1>4, <3>1
  <2>3. CASE At(c, "rotate", "set")
    BY <1>2, <1>4, <1>7, <2>3 DEF RotateSteps, At, MirrorOnly, row
  <2>4. QED
    BY <1>7, <2>1, <2>2, <2>3 DEF RotateSteps
<1>8. CASE CloseSteps(c)
  BY <1>2, <1>3, <1>8 DEF CloseSteps, At, Owed, MirrorOnly, row, notes
<1>9. CASE MeetSteps(c)
  BY <1>2, <1>3, <1>9 DEF MeetSteps, At, Owed, MirrorOnly, row, notes
<1>10. CASE JoinTx(c) \/ AddSteps(c) \/ Activate(c)
  BY <1>2, <1>3, <1>10 DEF JoinTx, AddSteps, Activate, At, Owed, MirrorOnly, row, notes
<1>11. CASE RemoveRefused(c) \/ Hdel(c) \/ Evict(c)
  BY <1>2, <1>3, <1>11 DEF RemoveRefused, Hdel, Evict, At, Owed, MirrorOnly, row, notes
<1>12. CASE RemoveTx(c) \/ RemoveTorn(c)
  BY <1>2, <1>4, <1>12 DEF RemoveTx, RemoveTorn
<1>13. CASE Abort(c)
  BY <1>3, <1>4, <1>5, <1>13 DEF Abort, At, Owed, row
<1>14. CASE \E kind \in Kinds, u \in People : Begin(c, kind, u)
  BY <1>3, <1>14 DEF Begin, At, Owed, row, notes
<1>15. QED
  BY <1>6, <1>7, <1>8, <1>9, <1>10, <1>11, <1>12, <1>13, <1>14 DEF CallMovesOf, CallStep

\* How a step of c leaves the record of c.
LEMMA CallShape ==
  ASSUME MirrorTypeOK, NEW c \in Calls, CallMovesOf(c)
  PROVE  \/ call'[c].kind = "none"
         \/ call'[c].kind = call[c].kind /\ call'[c].u = call[c].u
         \/ \E kind \in Kinds, u \in People :
              Begin(c, kind, u) /\ call'[c].kind = kind /\ call'[c].u = u
<1>1. CASE CreateSteps(c) \/ Activate(c) \/ AddSteps(c) \/ RemoveTx(c) \/ RemoveRefused(c)
           \/ Hdel(c) \/ Evict(c) \/ Abort(c) \/ RemoveTorn(c)
  <2>1. End(c) \/ \E step \in CallPcs : Goto(c, step)
    BY <1>1 DEF CreateSteps, Activate, AddSteps, RemoveTx, RemoveRefused, Hdel, Evict, Abort,
       RemoveTorn, CallPcs
  <2>2. QED
    BY <2>1, GotoFields, EndFields
<1>2. CASE RotateSteps(c)
  BY <1>2, GotoFields, EndFields, PairFields DEF RotateSteps, CallPcs
<1>3. CASE CloseSteps(c)
  <2>1. CASE End(c) \/ \E step \in CallPcs : Goto(c, step)
    BY <2>1, GotoFields, EndFields
  <2>2. CASE call' = [call EXCEPT ![c].pc = "update", ![c].list = db.members]
    BY <2>2, PairFields
  <2>3. CASE \E u \in call[c].list : call' = [call EXCEPT ![c].list = @ \ {u}]
    <3>1. PICK u \in call[c].list : call' = [call EXCEPT ![c].list = call[c].list \ {u}]
      BY <2>3 DEF MirrorTypeOK
    <3>2. QED
      BY <3>1, PairFields
  <2>4. QED
    BY <1>3, <2>1, <2>2, <2>3 DEF CloseSteps, CallPcs
<1>4. CASE MeetSteps(c)
  <2>1. CASE End(c) \/ \E step \in CallPcs : Goto(c, step)
    BY <2>1, GotoFields, EndFields
  <2>2. CASE call' = [call EXCEPT ![c].pc = "create", ![c].list = db.members,
                                  ![c].token = db.token]
    BY <2>2, TripleFields
  <2>3. \A step \in {"answer", "set"} : step \in CallPcs
    BY DEF CallPcs
  <2>4. QED
    BY <1>4, <2>1, <2>2, <2>3 DEF MeetSteps, CallPcs
<1>5. CASE JoinTx(c)
  <2>1. CASE End(c)
    BY <2>1, EndFields
  <2>2. CASE ~End(c)
    <3>1. PICK t : call' = [call EXCEPT ![c].pc = "activate", ![c].token = t]
      BY <1>5, <2>2 DEF JoinTx
    <3>2. QED
      BY <3>1, PairFields
  <2>3. QED
    BY <2>1, <2>2
<1>6. ASSUME NEW kind \in Kinds, NEW u \in People, Begin(c, kind, u)
      PROVE  call'[c].kind = kind /\ call'[c].u = u
  <2>1. call' = [call EXCEPT ![c] = [NoCall EXCEPT !.kind = kind, !.pc = "begin", !.u = u]]
    BY <1>6 DEF Begin
  <2>2. call'[c] = [NoCall EXCEPT !.kind = kind, !.pc = "begin", !.u = u]
    BY <2>1 DEF MirrorTypeOK
  <2>3. QED
    BY <2>2 DEF NoCall
<1>7. QED
  BY <1>1, <1>2, <1>3, <1>4, <1>5, <1>6 DEF CallMovesOf, CallStep

\* A session is created, and its link rotated, by its owner, who is not removed.
OwnersOK ==
  /\ Owner \notin out
  /\ \A c \in Calls : call[c].kind \in {"rotate", "create"} => call[c].u = Owner

LEMMA CallOwners ==
  ASSUME MirrorTypeOK, MintedOK, CallsOK, OwnersOK, NEW c \in Calls, CallMovesOf(c)
  PROVE  OwnersOK'
<1>1. \A d \in Calls : d # c => call'[d] = call[d]
  BY CallTypes, OthersStay
<1>2. call'[c].kind \in {"rotate", "create"} => call'[c].u = Owner
  BY CallShape DEF OwnersOK, Begin, Kinds
<1>3. out' \subseteq out \/ RemoveTx(c)
  BY DEF CallMovesOf, CallStep, CreateSteps, RotateSteps, CloseSteps, MeetSteps, JoinTx, Activate,
     AddSteps, RemoveRefused, Hdel, Evict, Abort, RemoveTorn, Begin, MirrorOnly
<1>4. Owner \notin out'
  BY <1>3 DEF OwnersOK, RemoveTx, MayRemove
<1>5. QED
  BY <1>1, <1>2, <1>4 DEF OwnersOK

\* What a step of c has to show for OwedOK: no rotation begins to owe its token.
LEMMA OwedMove ==
  ASSUME MirrorTypeOK, OwedOK, NEW c \in Calls, Moves(c), ~Owed(c)',
         early \subseteq early',
         \A d \in Calls : Owed(d) /\ d # c =>
           /\ mirror'.token # call[d].token
           /\ \A u \in Accounts : call[d].token \in knows'[u] =>
                                    call[d].token \in knows[u] \/ call[d].token \in early'
           /\ call'[c].kind \in {"join", "meet"} /\ call'[c].token = call[d].token =>
                call[d].token \in early'
  PROVE  OwedOK'
<1>1. \A d \in Calls : d # c => call'[d] = call[d]
  BY OthersStay
<1>2. \A d \in Calls : Owed(d)' => Owed(d) /\ d # c /\ call'[d] = call[d]
  BY <1>1 DEF Owed, At
<1>3. ASSUME NEW d \in Calls, Owed(d)'
      PROVE  /\ call'[d].token \notin {0, mirror'.token}
             /\ \A u \in Accounts : call'[d].token \in knows'[u] => call'[d].token \in early'
             /\ \A e \in Calls :
                  /\ call'[e].kind \in {"join", "meet"} /\ call'[e].token = call'[d].token =>
                       call'[d].token \in early'
                  /\ Owed(e)' /\ e # d => call'[e].token # call'[d].token
  <2>1. Owed(d) /\ d # c /\ call'[d] = call[d]
    BY <1>2, <1>3
  <2>2. /\ call[d].token \notin {0, mirror.token}
        /\ \A u \in Accounts : call[d].token \in knows[u] => call[d].token \in early
        /\ \A e \in Calls :
             /\ call[e].kind \in {"join", "meet"} /\ call[e].token = call[d].token =>
                  call[d].token \in early
             /\ Owed(e) /\ e # d => call[e].token # call[d].token
    BY <2>1 DEF OwedOK
  <2>3. /\ call'[d].token \notin {0, mirror'.token}
        /\ \A u \in Accounts : call'[d].token \in knows'[u] => call'[d].token \in early'
    BY <2>1, <2>2
  <2>4. ASSUME NEW e \in Calls
        PROVE  /\ call'[e].kind \in {"join", "meet"} /\ call'[e].token = call'[d].token =>
                    call'[d].token \in early'
               /\ Owed(e)' /\ e # d => call'[e].token # call'[d].token
    <3>1. CASE e = c
      BY <2>1, <3>1
    <3>2. CASE e # c
      BY <1>1, <1>2, <2>1, <2>2, <3>2
    <3>3. QED
      BY <3>1, <3>2
  <2>5. QED
    BY <2>3, <2>4
<1>4. QED
  BY <1>3 DEF OwedOK

\* While a mirror that was never lost has no token, the session is being created.
MadeOK == mirror.token = 0 => \E c \in Calls : call[c].kind = "create"

LEMMA CallOwed ==
  ASSUME MirrorTypeOK, MintedOK, CallsOK, OwnersOK, NEW c \in Calls, CallMovesOf(c),
         db.open /\ ~unlinked => MadeOK /\ OwedOK
  PROVE  db'.open /\ ~unlinked' => MadeOK' /\ OwedOK'
<1>1. Moves(c) /\ \A d \in Calls : d # c => call'[d] = call[d]
  BY CallTypes, OthersStay
<1>2. /\ db \in [open : BOOLEAN, members : SUBSET Accounts, token : 1 .. minted]
      /\ mirror \in [active : {"none", "true", "closed"}, members : SUBSET Accounts,
                     token : 0 .. minted]
      /\ minted \in Nat /\ minted >= 1 /\ knows \in [Accounts -> SUBSET (0 .. minted)]
      /\ call \in [Calls -> CallRec(minted)]
  BY TypeParts, ConstantsAssumption DEF CallsTyped, MirrorTypeOK
<1>3. /\ \A u \in Accounts : minted + 1 \notin knows[u]
      /\ \A d \in Calls : call[d].token \in 0 .. minted /\ call[d].token # minted + 1
      /\ minted + 1 \notin {0, mirror.token}
      /\ call[c].u \in Accounts
  BY <1>2 DEF CallRec
<1>4. Answer(c) => \A u \in Accounts : knows'[u] \subseteq knows[u] \cup {call[c].token}
  BY <1>2, <1>3 DEF Answer
<1>5. SUFFICES ASSUME db'.open, ~unlinked'
               PROVE  MadeOK' /\ OwedOK'
  OBVIOUS
\* The steps that touch no token.
<1>6. ASSUME db.open, ~unlinked, mirror'.token = mirror.token, knows' = knows, early' = early,
             ~Owed(c)', call[c].kind = "create" => call'[c].kind = "create",
             \/ call'[c].kind \notin {"join", "meet"}
             \/ call'[c].token = 0
             \/ call'[c].kind = call[c].kind /\ call'[c].token = call[c].token
      PROVE  MadeOK' /\ OwedOK'
  <2>1. MadeOK /\ OwedOK
    BY <1>5, <1>6
  <2>2. MadeOK'
    <3>1. \A d \in Calls : call[d].kind = "create" => call'[d].kind = "create"
      BY <1>1, <1>6
    <3>2. QED
      BY <1>6, <2>1, <3>1 DEF MadeOK
  <2>3. \A d \in Calls : Owed(d) /\ d # c =>
          /\ mirror'.token # call[d].token
          /\ \A u \in Accounts : call[d].token \in knows'[u] =>
                                   call[d].token \in knows[u] \/ call[d].token \in early'
          /\ call'[c].kind \in {"join", "meet"} /\ call'[c].token = call[d].token =>
               call[d].token \in early'
    BY <1>6, <2>1 DEF OwedOK
  <2>4. early \subseteq early'
    BY <1>6
  <2>5. OwedOK'
    BY <1>1, <1>6, <2>1, <2>3, <2>4, OwedMove
  <2>6. QED
    BY <2>2, <2>5
<1>7. CASE CreateSteps(c)
  <2>1. /\ call[c].kind = "create" /\ call[c].token = 1
        /\ \A d \in Calls : d # c => call[d].kind = "none"
    BY <1>7 DEF CreateSteps, At, CallsOK
  <2>2. call'[c].kind # "rotate"
    BY <1>7, <2>1, GotoFields, EndFields DEF CreateSteps, CallPcs
  <2>3. \A d \in Calls : ~Owed(d)'
    BY <1>1, <2>1, <2>2 DEF Owed, At
  <2>4. MadeOK'
    <3>1. CASE At(c, "create", "invite")
      BY <1>2, <1>7, <2>1, <3>1 DEF CreateSteps, At, MadeOK
    <3>2. CASE ~At(c, "create", "invite")
      BY <1>7, <2>1, <3>2, GotoFields DEF CreateSteps, CallPcs, MadeOK
    <3>3. QED
      BY <3>1, <3>2
  <2>5. QED
    BY <2>3, <2>4 DEF OwedOK
<1>8. CASE RotateSteps(c)
  <2>1. /\ call[c].kind = "rotate" /\ db.open /\ ~unlinked /\ early' = early
        /\ \A d \in Calls : call[d].kind = "create" => call'[d] = call[d]
    BY <1>1, <1>2, <1>5, <1>8 DEF RotateSteps, At, MirrorOnly, row, bounds, notes
  <2>2. MadeOK /\ OwedOK
    BY <1>5, <2>1
  <2>3. CASE At(c, "rotate", "begin")
    <3>1. UNCHANGED <<mirror, knows>>
      BY <1>8, <2>3 DEF RotateSteps, At, MirrorOnly, row, notes
    <3>2. \/ call'[c].kind = "rotate" /\ call'[c].pc = "update"
          \/ call'[c].kind = "none"
      BY <1>8, <2>3, GotoFields, EndFields DEF RotateSteps, At, CallPcs
    <3>3. QED
      BY <1>6, <2>1, <3>1, <3>2 DEF Owed, At
  <2>4. CASE At(c, "rotate", "update")
    <3>1. UNCHANGED <<mirror, knows>>
      BY <1>8, <2>4 DEF RotateSteps, At
    <3>2. call'[c].token = minted + 1 /\ call'[c].kind = "rotate"
      BY <1>8, <2>4, PairFields DEF RotateSteps, At
    <3>3. \A d \in Calls : d # c /\ Owed(d)' => Owed(d) /\ call'[d] = call[d]
      BY <1>1 DEF Owed, At
    <3>4. ASSUME NEW d \in Calls, Owed(d)'
          PROVE  /\ call'[d].token \notin {0, mirror'.token}
                 /\ \A u \in Accounts : call'[d].token \in knows'[u] => call'[d].token \in early'
                 /\ \A e \in Calls :
                      /\ call'[e].kind \in {"join", "meet"} /\ call'[e].token = call'[d].token =>
                           call'[d].token \in early'
                      /\ Owed(e)' /\ e # d => call'[e].token # call'[d].token
      <4>1. CASE d = c
        BY <1>1, <1>3, <3>1, <3>2, <4>1
      <4>2. CASE d # c
        <5>1. Owed(d) /\ call'[d] = call[d] /\ call[d].token # minted + 1
          BY <1>3, <3>3, <3>4, <4>2
        <5>2. QED
          BY <1>1, <2>1, <2>2, <3>1, <3>2, <3>3, <5>1 DEF OwedOK
      <4>3. QED
        BY <4>1, <4>2
    <3>5. OwedOK'
      BY <3>4 DEF OwedOK
    <3>6. MadeOK'
      BY <2>1, <2>2, <3>1 DEF MadeOK
    <3>7. QED
      BY <3>5, <3>6
  <2>5. CASE At(c, "rotate", "set")
    <3>1. mirror'.token = call[c].token /\ Answer(c) /\ Owed(c)
      BY <1>2, <1>8, <2>5 DEF RotateSteps, At, Owed
    <3>2. call'[c].kind = "none"
      BY <1>8, <2>5, EndFields DEF RotateSteps, At
    <3>3. \A d \in Calls : Owed(d) /\ d # c => call[d].token # call[c].token
      BY <2>2, <3>1 DEF OwedOK
    <3>4. \A d \in Calls : Owed(d) /\ d # c =>
            /\ mirror'.token # call[d].token
            /\ \A u \in Accounts : call[d].token \in knows'[u] =>
                                     call[d].token \in knows[u] \/ call[d].token \in early'
            /\ call'[c].kind \in {"join", "meet"} /\ call'[c].token = call[d].token =>
                 call[d].token \in early'
      BY <1>4, <3>1, <3>2, <3>3
    <3>5. ~Owed(c)' /\ early \subseteq early'
      BY <2>1, <3>2 DEF Owed, At
    <3>6. OwedOK'
      BY <1>1, <2>2, <3>4, <3>5, OwedMove
    <3>7. MadeOK'
      BY <2>2, <3>1 DEF OwedOK, MadeOK
    <3>8. QED
      BY <3>6, <3>7
  <2>6. QED
    BY <1>8, <2>3, <2>4, <2>5 DEF RotateSteps
<1>9. CASE CloseSteps(c)
  <2>1. /\ UNCHANGED <<knows, unlinked, early>> /\ call[c].kind = "close"
        /\ db.open /\ mirror'.token = mirror.token
    BY <1>2, <1>5, <1>9 DEF CloseSteps, At, MirrorOnly, row, notes, CallsOK
  <2>2. call'[c].kind \in {"none", "close"}
    BY <1>9, <2>1, CallShape DEF CloseSteps, Begin, At
  <2>3. QED
    BY <1>5, <1>6, <2>1, <2>2 DEF Owed, At
<1>10. CASE MeetSteps(c)
  <2>1. /\ call[c].kind = "meet" /\ db.open /\ ~unlinked /\ early \subseteq early'
        /\ mirror'.token = mirror.token
    BY <1>2, <1>5, <1>10 DEF MeetSteps, At, MirrorOnly, row, notes
  <2>2. MadeOK /\ OwedOK
    BY <1>5, <2>1
  <2>3. call'[c].kind \in {"none", "meet"}
    BY <1>10, <2>1, CallShape DEF MeetSteps, Begin, At
  <2>4. MadeOK'
    <3>1. \A d \in Calls : call[d].kind = "create" => call'[d] = call[d]
      BY <1>1, <2>1
    <3>2. QED
      BY <2>1, <2>2, <3>1 DEF MadeOK
  <2>5. ASSUME NEW d \in Calls, Owed(d), d # c
        PROVE  /\ mirror'.token # call[d].token
               /\ \A u \in Accounts : call[d].token \in knows'[u] =>
                                        call[d].token \in knows[u] \/ call[d].token \in early'
               /\ call'[c].kind \in {"join", "meet"} /\ call'[c].token = call[d].token =>
                    call[d].token \in early'
    <3>1. /\ call[d].token \notin {0, mirror.token}
          /\ call[c].token = call[d].token => call[d].token \in early
      BY <2>1, <2>2, <2>5 DEF OwedOK
    <3>2. CASE At(c, "meet", "begin")
      <4>1. UNCHANGED knows
        BY <1>10, <3>2 DEF MeetSteps, At, MirrorOnly, row
      <4>2. call'[c].token = db.token /\ (mirror.token # db.token => db.token \in early')
        <5>1. mirror.token # db.token => db.token \in early'
          BY <1>10, <2>1, <3>2 DEF MeetSteps, At
        <5>2. call'[c].token = db.token
          BY <1>10, <2>1, <3>2, MeetBegun
        <5>3. QED
          BY <5>1, <5>2
      <4>3. QED
        BY <2>1, <3>1, <4>1, <4>2
    <3>3. CASE At(c, "meet", "answer")
      <4>1. Answer(c) /\ call'[c].kind = "none"
        BY <1>10, <3>3, EndFields DEF MeetSteps, At
      <4>2. QED
        BY <1>4, <2>1, <3>1, <4>1
    <3>4. CASE ~At(c, "meet", "begin") /\ ~At(c, "meet", "answer")
      <4>1. UNCHANGED knows
        BY <1>10, <3>4 DEF MeetSteps, MirrorOnly, row
      <4>2. call'[c].kind = "none" \/ call'[c].token = call[c].token
        <5>1. \A step \in {"answer", "set"} : step \in CallPcs
          BY DEF CallPcs
        <5>2. End(c) \/ \E step \in CallPcs : Goto(c, step)
          BY <1>10, <3>4, <5>1 DEF MeetSteps, CallPcs
        <5>3. QED
          BY <5>2, GotoFields, EndFields
      <4>3. QED
        BY <2>1, <3>1, <4>1, <4>2
    <3>5. QED
      BY <3>2, <3>3, <3>4
  <2>6. ~Owed(c)'
    BY <2>3 DEF Owed, At
  <2>7. OwedOK'
    BY <1>1, <2>1, <2>2, <2>5, <2>6, OwedMove
  <2>8. QED
    BY <2>4, <2>7
<1>11. CASE JoinTx(c)
  <2>1. /\ UNCHANGED <<knows, early, unlinked>> /\ call[c].kind = "join" /\ db.open
    BY <1>2, <1>5, <1>11 DEF JoinTx, At, bounds, notes
  <2>2. MadeOK /\ OwedOK /\ mirror.token # 0
    BY <1>5, <2>1 DEF MadeOK, CallsOK
  <2>3. mirror'.token = mirror.token
    BY <1>2, <1>11, <2>1, <2>2 DEF JoinTx
  <2>4. \/ call'[c].kind = "none"
        \/ call'[c].kind = "join" /\ call'[c].token = mirror.token
    <3>1. CASE End(c)
      BY <3>1, EndFields
    <3>2. CASE ~End(c)
      <4>1. call'[c].kind = call[c].kind /\ call'[c].token = mirror.token
        BY <1>11, <2>2, <3>2, JoinBegun
      <4>2. QED
        BY <2>1, <4>1
    <3>3. QED
      BY <3>1, <3>2
  <2>5. ~Owed(c)' /\ early \subseteq early'
    BY <2>1, <2>4 DEF Owed, At
  <2>6. \A d \in Calls : Owed(d) /\ d # c =>
          /\ mirror'.token # call[d].token
          /\ \A u \in Accounts : call[d].token \in knows'[u] =>
                                   call[d].token \in knows[u] \/ call[d].token \in early'
          /\ call'[c].kind \in {"join", "meet"} /\ call'[c].token = call[d].token =>
               call[d].token \in early'
    BY <2>1, <2>2, <2>3, <2>4 DEF OwedOK
  <2>7. OwedOK'
    BY <1>1, <2>2, <2>5, <2>6, OwedMove
  <2>8. MadeOK'
    BY <2>2, <2>3 DEF MadeOK
  <2>9. QED
    BY <2>7, <2>8
<1>12. CASE Activate(c)
  <2>1. /\ UNCHANGED <<db, early, unlinked>> /\ call[c].kind = "join"
        /\ mirror'.token = mirror.token /\ (UNCHANGED knows \/ Answer(c))
    BY <1>2, <1>12 DEF Activate, At, notes
  <2>2. MadeOK /\ OwedOK
    BY <1>5, <2>1
  <2>3. call'[c].kind = "none"
    BY <1>12, EndFields DEF Activate
  <2>4. ~Owed(c)' /\ early \subseteq early'
    BY <2>1, <2>3 DEF Owed, At
  <2>5. \A d \in Calls : Owed(d) /\ d # c =>
          /\ mirror'.token # call[d].token
          /\ \A u \in Accounts : call[d].token \in knows'[u] =>
                                   call[d].token \in knows[u] \/ call[d].token \in early'
          /\ call'[c].kind \in {"join", "meet"} /\ call'[c].token = call[d].token =>
               call[d].token \in early'
    BY <1>4, <2>1, <2>2, <2>3 DEF OwedOK
  <2>6. OwedOK'
    BY <1>1, <2>2, <2>4, <2>5, OwedMove
  <2>7. MadeOK'
    <3>1. \A d \in Calls : call[d].kind = "create" => call'[d] = call[d]
      BY <1>1, <2>1
    <3>2. QED
      BY <2>1, <2>2, <3>1 DEF MadeOK
  <2>8. QED
    BY <2>6, <2>7
<1>13. CASE AddSteps(c) \/ RemoveRefused(c) \/ Hdel(c) \/ Evict(c)
  <2>1. /\ UNCHANGED <<knows, unlinked, early>> /\ call[c].kind \in {"add", "remove"}
        /\ db.open /\ mirror'.token = mirror.token
    BY <1>2, <1>5, <1>13 DEF AddSteps, RemoveRefused, Hdel, Evict, At, MirrorOnly, row, notes
  <2>2. call'[c].kind \in {"none", "add", "remove"}
    BY <1>13, <2>1, CallShape DEF Begin
  <2>3. QED
    BY <1>5, <1>6, <2>1, <2>2 DEF Owed, At
<1>14. CASE RemoveTx(c) \/ RemoveTorn(c)
  <2>1. /\ UNCHANGED <<knows, unlinked, early>> /\ call[c].kind = "remove"
        /\ db.open /\ mirror'.token = minted + 1
    BY <1>2, <1>5, <1>14 DEF RemoveTx, RemoveTorn, At
  <2>2. MadeOK /\ OwedOK
    BY <1>5, <2>1
  <2>3. call'[c].kind \in {"none", "remove"}
    BY <1>14, <2>1, CallShape DEF Begin
  <2>4. ~Owed(c)' /\ early \subseteq early'
    BY <2>1, <2>3 DEF Owed, At
  <2>5. \A d \in Calls : Owed(d) /\ d # c =>
          /\ mirror'.token # call[d].token
          /\ \A u \in Accounts : call[d].token \in knows'[u] =>
                                   call[d].token \in knows[u] \/ call[d].token \in early'
          /\ call'[c].kind \in {"join", "meet"} /\ call'[c].token = call[d].token =>
               call[d].token \in early'
    BY <1>3, <2>1, <2>3
  <2>6. OwedOK'
    BY <1>1, <2>2, <2>4, <2>5, OwedMove
  <2>7. MadeOK'
    BY <1>3, <2>1 DEF MadeOK
  <2>8. QED
    BY <2>6, <2>7
<1>15. CASE Abort(c)
  <2>1. /\ UNCHANGED <<db, mirror, knows, early>> /\ ~unlinked /\ call[c].kind # "create"
    BY <1>5, <1>15 DEF Abort, row
  <2>2. call'[c].kind = "none"
    BY <1>15, EndFields DEF Abort
  <2>3. QED
    BY <1>5, <1>6, <2>1, <2>2 DEF Owed, At
<1>16. ASSUME NEW kind \in Kinds, NEW u \in People, Begin(c, kind, u)
       PROVE  MadeOK' /\ OwedOK'
  <2>1. UNCHANGED <<db, mirror, knows, early, unlinked>> /\ call[c].kind = "none"
    BY <1>16 DEF Begin, row, notes
  <2>2. call' = [call EXCEPT ![c] = [NoCall EXCEPT !.kind = kind, !.pc = "begin", !.u = u]]
    BY <1>16 DEF Begin
  <2>3. call'[c] = [NoCall EXCEPT !.kind = kind, !.pc = "begin", !.u = u]
    BY <1>2, <2>2
  <2>4. call'[c].pc = "begin" /\ call'[c].token = 0
    BY <2>3 DEF NoCall
  <2>5. QED
    BY <1>5, <1>6, <2>1, <2>4 DEF Owed, At
<1>17. QED
  BY <1>7, <1>8, <1>9, <1>10, <1>11, <1>12, <1>13, <1>14, <1>15, <1>16 DEF CallMovesOf, CallStep

\* What a step of c has to show for OutOK, when nobody is removed and the tokens of the
\* mirror and the row are those they were, or new.
LEMMA OutMove ==
  ASSUME MirrorTypeOK, OutOK, out \subseteq Accounts, NEW c \in Calls, Moves(c),
         out' \subseteq out,
         {mirror'.token, db'.token} \subseteq {mirror.token, db.token, minted + 1},
         \A u \in out' : \A t \in knows'[u] :
           t \in knows[u] \/ (Tells(c) /\ call[c].u = u /\ t = call[c].token),
         Tells(c)' /\ call'[c].u \in out' =>
           Tells(c) /\ call'[c].u = call[c].u /\ call'[c].token = call[c].token
  PROVE  OutOK'
<1>1. \A d \in Calls : d # c => call'[d] = call[d]
  BY OthersStay
<1>2. /\ minted \in Nat /\ \A u \in Accounts : minted + 1 \notin knows[u]
      /\ \A d \in Calls : call[d].token # minted + 1
  <2>1. /\ minted \in Nat /\ knows \in [Accounts -> SUBSET (0 .. minted)]
        /\ call \in [Calls -> CallRec(minted)]
    BY TypeParts, ConstantsAssumption DEF CallsTyped, MirrorTypeOK
  <2>2. QED
    BY <2>1 DEF CallRec
<1>3. ASSUME NEW u \in out'
      PROVE  /\ mirror'.token \notin knows'[u] /\ db'.token \notin knows'[u]
             /\ \A d \in Calls : Tells(d)' /\ call'[d].u = u =>
                                   call'[d].token \notin {mirror'.token, db'.token}
  <2>1. u \in out /\ u \in Accounts
    BY <1>3
  <2>2. /\ mirror.token \notin knows[u] /\ db.token \notin knows[u]
        /\ \A d \in Calls : Tells(d) /\ call[d].u = u =>
                              call[d].token \notin {mirror.token, db.token, minted + 1}
    BY <1>2, <2>1 DEF OutOK
  <2>3. mirror'.token \notin knows'[u] /\ db'.token \notin knows'[u]
    BY <1>2, <1>3, <2>1, <2>2
  <2>4. ASSUME NEW d \in Calls, Tells(d)', call'[d].u = u
        PROVE  call'[d].token \notin {mirror'.token, db'.token}
    <3>1. Tells(d) /\ call[d].u = u /\ call'[d].token = call[d].token
      <4>1. CASE d = c
        BY <1>3, <2>4, <4>1
      <4>2. CASE d # c
        BY <1>1, <2>4, <4>2 DEF Tells, At
      <4>3. QED
        BY <4>1, <4>2
    <3>2. QED
      BY <2>2, <3>1
  <2>5. QED
    BY <2>3, <2>4
<1>4. QED
  BY <1>3 DEF OutOK

\* Who was removed is not let in, and neither knows nor is about to be told what would
\* let him in.
LEMMA CallOut ==
  ASSUME MirrorTypeOK, MintedOK, CallsOK, OwnersOK, out \subseteq Accounts,
         NEW c \in Calls, CallMovesOf(c),
         db.open /\ ~unlinked => MadeOK /\ OwedOK,
         ~unlinked /\ ~leaked => out \cap db.members = {},
         db.open /\ ~unlinked /\ ~leaked => OutOK
  PROVE  /\ out' \subseteq Accounts
         /\ ~unlinked' /\ ~leaked' => out' \cap db'.members = {}
         /\ db'.open /\ ~unlinked' /\ ~leaked' => OutOK'
<1>1. Moves(c) /\ \A d \in Calls : d # c => call'[d] = call[d]
  BY CallTypes, OthersStay
<1>2. /\ db \in [open : BOOLEAN, members : SUBSET Accounts, token : 1 .. minted]
      /\ mirror \in [active : {"none", "true", "closed"}, members : SUBSET Accounts,
                     token : 0 .. minted]
      /\ minted \in Nat /\ minted >= 1 /\ knows \in [Accounts -> SUBSET (0 .. minted)]
      /\ call \in [Calls -> CallRec(minted)]
  BY TypeParts, ConstantsAssumption DEF CallsTyped, MirrorTypeOK
<1>3. /\ \A u \in Accounts : minted + 1 \notin knows[u]
      /\ \A d \in Calls : call[d].token \in 0 .. minted /\ call[d].token # minted + 1
      /\ call[c].u \in Accounts
  BY <1>2 DEF CallRec
<1>4. Answer(c) => \A u \in Accounts : \A t \in knows'[u] :
                     t \in knows[u] \/ (call[c].u = u /\ t = call[c].token)
  BY <1>2, <1>3 DEF Answer
\* The steps that tell nobody anything, and let nobody in.
<1>5. ASSUME out' \subseteq out, out' \cap db'.members \subseteq out \cap db.members,
             unlinked => unlinked', leaked => leaked', db'.open => db.open,
             db'.open => {mirror'.token, db'.token} \subseteq {mirror.token, db.token, minted + 1},
             \A u \in out' : \A t \in knows'[u] :
               t \in knows[u] \/ (Tells(c) /\ call[c].u = u /\ t = call[c].token),
             Tells(c)' /\ call'[c].u \in out' =>
               Tells(c) /\ call'[c].u = call[c].u /\ call'[c].token = call[c].token
      PROVE  /\ out' \subseteq Accounts
             /\ ~unlinked' /\ ~leaked' => out' \cap db'.members = {}
             /\ db'.open /\ ~unlinked' /\ ~leaked' => OutOK'
  <2>1. ASSUME db'.open, ~unlinked', ~leaked' PROVE OutOK'
    <3>1. OutOK
      BY <1>5, <2>1
    <3>2. {mirror'.token, db'.token} \subseteq {mirror.token, db.token, minted + 1}
      BY <1>5, <2>1
    <3>3. QED
      BY <1>1, <1>5, <3>1, <3>2, OutMove
  <2>2. QED
    BY <1>5, <2>1
<1>6. CASE CreateSteps(c)
  <2>1. UNCHANGED out /\ out = {}
    BY <1>6 DEF CreateSteps, At, CallsOK, MirrorOnly
  <2>2. QED
    BY <2>1 DEF OutOK
<1>7. CASE RotateSteps(c) /\ ~At(c, "rotate", "set")
  <2>1. /\ UNCHANGED <<knows, out, mirror, unlinked, leaked>> /\ call[c].kind = "rotate"
        /\ db'.members = db.members /\ db'.open = db.open
        /\ db'.token \in {db.token, minted + 1}
    BY <1>2, <1>7 DEF RotateSteps, At, MirrorOnly, row, bounds, notes
  <2>2. call'[c].kind \in {"none", "rotate"}
    BY <1>7, <2>1, CallShape DEF Begin
  <2>3. QED
    BY <1>5, <2>1, <2>2 DEF Tells, At
<1>8. CASE RotateSteps(c) /\ At(c, "rotate", "set")
  <2>1. /\ UNCHANGED <<db, out, unlinked>> /\ Answer(c) /\ Owed(c) /\ call[c].u = Owner
        /\ mirror'.token = call[c].token
        /\ leaked' = (leaked \/ call[c].token \in early \ {db.token})
    BY <1>2, <1>8 DEF RotateSteps, At, Owed, OwnersOK
  <2>2. call'[c].kind = "none"
    BY <1>8, EndFields DEF RotateSteps, At
  <2>3. \A u \in out : knows'[u] = knows[u]
    BY <1>2, <2>1 DEF Answer, OwnersOK
  <2>4. ~Tells(c)'
    BY <2>2 DEF Tells, At
  <2>5. leaked => leaked'
    BY <2>1
  <2>6. CASE call[c].token = db.token
    BY <1>5, <2>1, <2>3, <2>4, <2>5, <2>6
  <2>7. CASE call[c].token # db.token
    <3>1. ASSUME db.open, ~unlinked, ~leaked'
          PROVE  OutOK'
      <4>1. OutOK /\ OwedOK /\ call[c].token \notin early
        BY <2>1, <2>5, <2>7, <3>1
      <4>2. /\ \A u \in Accounts : call[c].token \notin knows[u]
            /\ \A d \in Calls : call[d].kind \in {"join", "meet"} =>
                                  call[d].token # call[c].token
        BY <2>1, <4>1 DEF OwedOK
      <4>3. \A d \in Calls : Tells(d)' => Tells(d) /\ call'[d] = call[d]
                                       /\ call[d].kind \in {"join", "meet"}
        <5>1. \A d \in Calls : Tells(d)' => d # c
          BY <2>4
        <5>2. QED
          BY <1>1, <5>1 DEF Tells, At
      <4>4. QED
        BY <2>1, <2>3, <4>1, <4>2, <4>3 DEF OutOK
    <3>2. QED
      BY <2>1, <2>5, <3>1
  <2>8. QED
    BY <2>6, <2>7
<1>9. CASE CloseSteps(c)
  <2>1. /\ UNCHANGED <<knows, out, unlinked, leaked>> /\ call[c].kind = "close"
        /\ db'.members = db.members /\ db'.token = db.token /\ (db'.open => db.open)
        /\ db'.open => mirror'.token = mirror.token
    BY <1>2, <1>9 DEF CloseSteps, At, MirrorOnly, row, notes, CallsOK
  <2>2. call'[c].kind \in {"none", "close"}
    BY <1>9, <2>1, CallShape DEF Begin
  <2>3. QED
    BY <1>5, <2>1, <2>2 DEF Tells, At
<1>10. CASE MeetSteps(c)
  <2>1. /\ UNCHANGED <<unlinked, leaked>> /\ call[c].kind = "meet"
        /\ db'.open = db.open /\ mirror'.token = mirror.token /\ db'.token = db.token
        /\ \/ db'.members = db.members /\ out' = out
           \/ db'.members = db.members \cup {call[c].u} /\ out' = out \ {call[c].u}
    BY <1>2, <1>10 DEF MeetSteps, At, MirrorOnly, row, notes
  <2>2. out' \subseteq out /\ out' \cap db'.members \subseteq out \cap db.members
    BY <2>1
  <2>3. \A u \in out' : \A t \in knows'[u] :
          t \in knows[u] \/ (Tells(c) /\ call[c].u = u /\ t = call[c].token)
    <3>1. CASE At(c, "meet", "answer")
      BY <1>4, <1>10, <2>2, <3>1 DEF MeetSteps, At, Tells
    <3>2. CASE ~At(c, "meet", "answer")
      BY <1>10, <3>2 DEF MeetSteps, MirrorOnly, row
    <3>3. QED
      BY <3>1, <3>2
  <2>4. ASSUME Tells(c)', call'[c].u \in out', ~unlinked', ~leaked'
        PROVE  Tells(c) /\ call'[c].u = call[c].u /\ call'[c].token = call[c].token
    <3>1. CASE At(c, "meet", "begin")
      <4>1. db.open
        BY <1>10, <2>4, <3>1, EndFields DEF MeetSteps, At, Tells
      <4>2. /\ call'[c].list = db.members /\ call'[c].u = call[c].u /\ call'[c].pc = "create"
            /\ call'[c].kind = "meet"
        BY <1>10, <2>1, <3>1, <4>1, MeetBegun
      <4>3. call[c].u \in db.members
        BY <2>4, <4>2 DEF Tells, At
      <4>4. QED
        BY <2>1, <2>2, <2>4, <4>2, <4>3
    <3>2. CASE At(c, "meet", "create")
      <4>1. Goto(c, "member")
        BY <1>10, <2>4, <3>2, EndFields DEF MeetSteps, At, Tells
      <4>2. call'[c].u = call[c].u /\ call'[c].token = call[c].token
        BY <4>1, GotoFields DEF CallPcs
      <4>3. call[c].u \in call[c].list
        <5>1. ~End(c)
          BY <2>4, EndFields DEF Tells, At
        <5>2. call[c].u \in out'
          BY <2>4, <4>2
        <5>3. CASE Cardinality(call[c].list) < MaxParticipants
          BY <1>10, <3>2, <5>2, <5>3 DEF MeetSteps, At
        <5>4. CASE ~(Cardinality(call[c].list) < MaxParticipants)
          BY <1>10, <3>2, <5>1, <5>4 DEF MeetSteps, At
        <5>5. QED
          BY <5>3, <5>4
      <4>4. QED
        BY <3>2, <4>2, <4>3 DEF Tells, At
    <3>3. CASE ~At(c, "meet", "begin") /\ ~At(c, "meet", "create")
      <4>1. \A step \in {"answer", "set"} : step \in CallPcs
        BY DEF CallPcs
      <4>2. End(c) \/ \E step \in CallPcs : Goto(c, step)
        BY <1>10, <3>3, <4>1 DEF MeetSteps, CallPcs
      <4>3. call'[c].u = call[c].u /\ call'[c].token = call[c].token
        BY <2>4, <4>2, GotoFields, EndFields DEF Tells, At
      <4>4. QED
        BY <2>1, <3>3, <4>3 DEF Tells, At
    <3>4. QED
      BY <3>1, <3>2, <3>3
  <2>5. CASE unlinked' \/ leaked'
    BY <1>3, <2>2, <2>5
  <2>6. CASE ~unlinked' /\ ~leaked'
    BY <1>5, <2>1, <2>2, <2>3, <2>4, <2>6
  <2>7. QED
    BY <2>5, <2>6
<1>11. CASE JoinTx(c)
  <2>1. /\ UNCHANGED <<knows, out, unlinked, leaked>> /\ call[c].kind = "join"
        /\ db'.open = db.open /\ db'.token = db.token
        /\ mirror'.token \in {mirror.token, db.token}
        /\ db' = db \/ db' = [db EXCEPT !.members = @ \cup {call[c].u}]
    BY <1>2, <1>11 DEF JoinTx, At, bounds, notes
  <2>2. CASE UNCHANGED db /\ End(c)
    <3>1. call'[c].kind = "none"
      BY <2>2, EndFields
    <3>2. QED
      BY <1>5, <2>1, <2>2, <3>1 DEF Tells, At
  <2>3. CASE ~(UNCHANGED db /\ End(c))
    <3>1. /\ db.open /\ db' = [db EXCEPT !.members = @ \cup {call[c].u}]
          /\ \/ call[c].u \in db.members
             \/ (IF mirror.token = 0 THEN db.token ELSE mirror.token) \in knows[call[c].u]
      BY <1>11, <2>3 DEF JoinTx, Entitled
    <3>2. PICK t : call' = [call EXCEPT ![c].pc = "activate", ![c].token = t]
      BY <1>11, <2>3 DEF JoinTx
    <3>3. call'[c].u = call[c].u
      BY <3>2, PairFields
    <3>4. CASE ~unlinked /\ ~leaked
      <4>1. mirror.token # 0
        BY <2>1, <3>1, <3>4 DEF MadeOK, CallsOK
      <4>2. call[c].u \notin out
        BY <3>1, <3>4, <4>1 DEF OutOK
      <4>3. out' \cap db'.members \subseteq out \cap db.members
        BY <1>2, <2>1, <3>1, <4>2
      <4>4. QED
        BY <1>5, <2>1, <3>3, <4>2, <4>3
    <3>5. CASE unlinked \/ leaked
      BY <2>1, <3>5
    <3>6. QED
      BY <3>4, <3>5
  <2>4. QED
    BY <2>2, <2>3
<1>12. CASE Activate(c)
  <2>1. /\ UNCHANGED <<db, out, unlinked, leaked>> /\ Tells(c)
        /\ mirror'.token = mirror.token /\ (UNCHANGED knows \/ Answer(c))
    BY <1>2, <1>12 DEF Activate, At, notes, Tells
  <2>2. call'[c].kind = "none"
    BY <1>12, EndFields DEF Activate
  <2>3. \A u \in out' : \A t \in knows'[u] :
          t \in knows[u] \/ (Tells(c) /\ call[c].u = u /\ t = call[c].token)
    BY <1>4, <2>1
  <2>4. ~Tells(c)'
    BY <2>2 DEF Tells, At
  <2>5. QED
    BY <1>5, <2>1, <2>3, <2>4
<1>13. CASE AddSteps(c) \/ RemoveRefused(c) \/ Hdel(c) \/ Evict(c)
  <2>1. /\ UNCHANGED <<knows, unlinked, leaked>> /\ call[c].kind \in {"add", "remove"}
        /\ db'.open = db.open /\ mirror'.token = mirror.token /\ db'.token = db.token
        /\ \/ db'.members = db.members /\ out' = out
           \/ db'.members = db.members \cup {call[c].u} /\ out' = out \ {call[c].u}
    BY <1>2, <1>13 DEF AddSteps, RemoveRefused, Hdel, Evict, At, MirrorOnly, row, notes
  <2>2. call'[c].kind \in {"none", "add", "remove"}
    BY <1>13, <2>1, CallShape DEF Begin
  <2>3. out' \subseteq out /\ out' \cap db'.members \subseteq out \cap db.members
    BY <2>1
  <2>4. QED
    BY <1>5, <2>1, <2>2, <2>3 DEF Tells, At
<1>14. CASE RemoveTorn(c)
  <2>1. /\ UNCHANGED <<db, out, knows, unlinked, leaked>> /\ mirror'.token = minted + 1
    BY <1>2, <1>14 DEF RemoveTorn
  <2>2. call'[c].kind = "none"
    BY <1>14, EndFields DEF RemoveTorn
  <2>3. QED
    BY <1>5, <2>1, <2>2 DEF Tells, At
<1>15. CASE RemoveTx(c)
  <2>1. /\ UNCHANGED <<knows, unlinked, leaked>> /\ call[c].kind = "remove"
        /\ mirror'.token = minted + 1 /\ db'.token = minted + 1
        /\ db'.members = db.members \ {call[c].u} /\ out' = out \cup {call[c].u}
    BY <1>2, <1>15 DEF RemoveTx, At
  <2>2. \A d \in Calls : call'[d].token # minted + 1
    BY <1>1, <1>3, <1>15, GotoFields DEF RemoveTx, CallPcs
  <2>3. out' \subseteq Accounts
    BY <1>3, <2>1
  <2>4. OutOK'
    BY <1>3, <2>1, <2>2, <2>3 DEF OutOK
  <2>5. ~unlinked' /\ ~leaked' => out' \cap db'.members = {}
    BY <2>1
  <2>6. QED
    BY <2>3, <2>4, <2>5
<1>16. CASE Abort(c)
  <2>1. UNCHANGED <<db, mirror, knows, out, leaked>> /\ (unlinked => unlinked')
    BY <1>16 DEF Abort, row
  <2>2. call'[c].kind = "none"
    BY <1>16, EndFields DEF Abort
  <2>3. QED
    BY <1>5, <2>1, <2>2 DEF Tells, At
<1>17. ASSUME NEW kind \in Kinds, NEW u \in People, Begin(c, kind, u)
       PROVE  /\ out' \subseteq Accounts
              /\ ~unlinked' /\ ~leaked' => out' \cap db'.members = {}
              /\ db'.open /\ ~unlinked' /\ ~leaked' => OutOK'
  <2>1. UNCHANGED <<db, mirror, knows, out, unlinked, leaked>>
    BY <1>17 DEF Begin, row, notes
  <2>2. call'[c].pc = "begin"
    BY <1>17 DEF Begin, MirrorTypeOK
  <2>3. QED
    BY <1>5, <2>1, <2>2 DEF Tells, At
<1>18. QED
  BY <1>6, <1>7, <1>8, <1>9, <1>10, <1>11, <1>12, <1>13, <1>14, <1>15, <1>16, <1>17
     DEF CallMovesOf, CallStep

\* Who was removed does not know the token that would bring him back.
LEMMA CallLink ==
  ASSUME MirrorTypeOK, MintedOK, CallsOK, LinkOK, out \subseteq Accounts,
         NEW c \in Calls, CallMovesOf(c)
  PROVE  LinkOK' /\ out' \subseteq Accounts
<1>1. /\ OwnersOK /\ (db.open /\ ~unlinked => MadeOK /\ OwedOK)
      /\ ~unlinked /\ ~leaked => out \cap db.members = {}
      /\ db.open /\ ~unlinked /\ ~leaked => OutOK
  BY DEF LinkOK, OwnersOK, MadeOK
<1>2. OwnersOK'
  BY <1>1, CallOwners
<1>3. db'.open /\ ~unlinked' => MadeOK' /\ OwedOK'
  BY <1>1, CallOwed
<1>4. /\ out' \subseteq Accounts
      /\ ~unlinked' /\ ~leaked' => out' \cap db'.members = {}
      /\ db'.open /\ ~unlinked' /\ ~leaked' => OutOK'
  BY <1>1, CallOut
<1>5. QED
  BY <1>2, <1>3, <1>4 DEF LinkOK, OwnersOK, MadeOK

\* Of the steps of nobody's call, an invitation alone disturbs more than sockets.
LEMMA OutsideKeeps ==
  ASSUME MirrorIInv, NEW u \in People, Outside(u)
  PROVE  MirrorIInv'
<1>1. MirrorTypeOK' /\ UNCHANGED call
  BY OutsideTypes DEF MirrorIInv
<1>2. UNCHANGED <<env, db, mirror, minted, calls, notes>>
  BY DEF Outside, Invite, CheckActive, CheckMember, Register, Leave, Deliver, Lose, SockOnly,
     Fault, row, bounds
<1>3. \/ UNCHANGED <<knows, out>>
      \/ Invite(u)
  BY DEF Outside, CheckActive, CheckMember, Register, Leave, Deliver, Lose, SockOnly, row
<1>4. out' \subseteq out
  BY <1>3 DEF Invite
<1>5. MintedOK' /\ PlacesOK' /\ ClosedOK' /\ TokenOK'
  BY <1>1, <1>2 DEF MirrorIInv, MintedOK, Raisers, PlacesOK, ClosedOK, TokenOK, TokenChanges,
     At, notes
<1>6. CallsOK'
  BY <1>1, <1>2, <1>4 DEF MirrorIInv, CallsOK, At
<1>7. LinkOK'
  <2>1. CASE UNCHANGED <<knows, out>>
    BY <1>1, <1>2, <2>1 DEF MirrorIInv, LinkOK, OwedOK, OutOK, Owed, Tells, At, notes
  <2>2. CASE Invite(u)
    <3>0. PICK v \in People : \E t \in knows[v] :
            /\ knows' = [knows EXCEPT ![u] = @ \cup {t}]
            /\ out' = IF v \in out THEN out ELSE out \ {u}
      BY <2>2 DEF Invite
    <3>1. PICK t \in knows[v] :
            /\ knows' = [knows EXCEPT ![u] = knows[u] \cup {t}]
            /\ out' = IF v \in out THEN out ELSE out \ {u}
      <4>1. knows \in [Accounts -> SUBSET (0 .. minted)] /\ u \in Accounts
        BY PeopleTyped DEF MirrorIInv, MirrorTypeOK
      <4>2. QED
        BY <3>0, <4>1
    <3>2. \A w \in Accounts : knows'[w] = IF w = u THEN knows[u] \cup {t} ELSE knows[w]
      BY <3>1 DEF MirrorIInv, MirrorTypeOK
    <3>3. u \in Accounts /\ v \in Accounts
      BY PeopleTyped
    <3>4. \A w \in out' : w \in out /\ knows'[w] \subseteq knows[w] \cup UNION {knows[x] : x \in out}
      BY <1>4, <3>1, <3>2, <3>3 DEF MirrorIInv
    <3>5. ASSUME db.open, ~unlinked
          PROVE  OwedOK'
      <4>1. OwedOK
        BY <3>5 DEF MirrorIInv, LinkOK
      <4>2. \A d \in Calls : Owed(d)' <=> Owed(d)
        BY <1>1 DEF Owed, At
      <4>3. \A d \in Calls, w \in Accounts :
              Owed(d) /\ call[d].token \in knows'[w] => call[d].token \in early
        BY <3>2, <3>3, <4>1 DEF OwedOK
      <4>4. QED
        BY <1>1, <1>2, <4>1, <4>2, <4>3 DEF OwedOK, notes
    <3>6. ASSUME OutOK
          PROVE  OutOK'
      <4>1. \A d \in Calls : Tells(d)' <=> Tells(d)
        BY <1>1 DEF Tells, At
      <4>2. \A w \in out' : mirror.token \notin knows'[w] /\ db.token \notin knows'[w]
        BY <3>4, <3>6 DEF OutOK
      <4>3. QED
        BY <1>1, <1>2, <3>4, <3>6, <4>1, <4>2 DEF OutOK
    <3>7. QED
      BY <1>1, <1>2, <1>4, <3>5, <3>6 DEF MirrorIInv, LinkOK, notes
  <2>3. QED
    BY <1>3, <2>1, <2>2
<1>8. QED
  BY <1>1, <1>4, <1>5, <1>6, <1>7 DEF MirrorIInv

\* A mirror that is lost is excused; a sweep opens none that was closed, and gives a
\* token only to one that has none.
LEMMA SweepKeeps ==
  ASSUME MirrorIInv, Flush \/ SweepRead \/ SweepLua
  PROVE  MirrorIInv'
<1>1. MirrorTypeOK' /\ UNCHANGED call
  BY SweepTypes DEF MirrorIInv
<1>2. UNCHANGED <<env, row, calls, out>>
  BY DEF Flush, SweepRead, SweepLua, Fault, bounds
<1>3. MintedOK' /\ PlacesOK' /\ CallsOK' /\ out' \subseteq Accounts
  BY <1>1, <1>2 DEF MirrorIInv, MintedOK, Raisers, PlacesOK, CallsOK, At, row
<1>4. CASE Flush
  <2>1. mirror'.active = "none" /\ mirror'.token = 0 /\ unlinked'
    BY <1>4 DEF Flush, NoMirror
  <2>2. ClosedOK' /\ TokenOK'
    BY <2>1 DEF ClosedOK, TokenOK
  <2>3. LinkOK'
    BY <1>1, <1>2, <2>1 DEF MirrorIInv, LinkOK
  <2>4. QED
    BY <1>1, <1>3, <2>2, <2>3 DEF MirrorIInv
<1>5. CASE SweepRead
  <2>1. ClosedOK' /\ LinkOK' /\ TokenOK'
    BY <1>1, <1>2, <1>5 DEF SweepRead, MirrorIInv, ClosedOK, LinkOK, OwedOK, OutOK,
       Owed, Tells, TokenOK,
       TokenChanges, At, row, notes
  <2>2. QED
    BY <1>1, <1>3, <2>1 DEF MirrorIInv
<1>6. CASE SweepLua
  <2>1. /\ mirror'.active = IF mirror.active = "closed" THEN "closed" ELSE "true"
        /\ \/ mirror'.token = mirror.token
           \/ mirror.token = 0 /\ mirror'.token = sweep.token
    BY <1>6 DEF SweepLua, Reconciled, MirrorIInv, MirrorTypeOK
  <2>2. ClosedOK'
    <3>1. (revived' <=> (revived \/ (~db.open /\ mirror.active = "none")))
      BY <1>6 DEF SweepLua, MirrorIInv
    <3>2. mirror.active \in {"none", "true", "closed"}
      BY DEF MirrorIInv, MirrorTypeOK
    <3>3. QED
      BY <1>1, <1>2, <2>1, <3>1, <3>2 DEF MirrorIInv, ClosedOK, At, row
  <2>3. LinkOK'
    <3>1. UNCHANGED <<db, knows, out, call, unlinked, leaked, early>>
      BY <1>1, <1>2, <1>6 DEF SweepLua, row
    <3>2. CASE mirror'.token = mirror.token
      BY <3>1, <3>2 DEF MirrorIInv, LinkOK, OwedOK, OutOK, Owed, Tells, At
    <3>3. CASE mirror.token = 0 /\ db.open /\ ~unlinked
      <4>1. PICK d \in Calls : call[d].kind = "create"
        BY <3>3 DEF MirrorIInv, LinkOK
      <4>2. out = {} /\ \A e \in Calls : ~Owed(e)
        BY <4>1 DEF MirrorIInv, CallsOK, Owed, At
      <4>3. QED
        BY <3>1, <4>1, <4>2 DEF MirrorIInv, LinkOK, OwedOK, OutOK, Owed, At
    <3>4. CASE ~db.open \/ unlinked
      BY <3>1, <3>4 DEF MirrorIInv, LinkOK
    <3>5. QED
      BY <2>1, <3>2, <3>3, <3>4
  <2>4. TokenOK'
    <3>1. (mixed' <=> (mixed \/ (mirror.token = 0 /\ sweep.token # db.token)))
      BY <1>6 DEF SweepLua
    <3>2. QED
      BY <1>1, <1>2, <2>1, <3>1 DEF MirrorIInv, TokenOK, TokenChanges, At, row
  <2>5. QED
    BY <1>1, <1>3, <2>2, <2>3, <2>4 DEF MirrorIInv
<1>7. QED
  BY <1>4, <1>5, <1>6

-----------------------------------------------------------------------------
(* The theorems *)

LEMMA MirrorInitIInv == MirrorInit => MirrorIInv
<1> SUFFICES ASSUME MirrorInit
             PROVE  MirrorIInv
  OBVIOUS
<1> DEFINE first == CHOOSE d \in Calls : TRUE
<1>1. call \in [Calls -> CallRec(1)]
  <2>1. NoCall \in CallRec(1)
    BY NoCallTyped
  <2>2. [NoCall EXCEPT !.kind = "create", !.pc = "active", !.token = 1] \in CallRec(1)
    <3>1. \A q \in CallRec(1) : [q EXCEPT !.kind = "create"] \in CallRec(1)
      BY DEF CallRec
    <3>2. "active" \in CallPcs /\ 1 \in Nat /\ 1 \in 0 .. 1
      BY DEF CallPcs
    <3>3. \A q \in CallRec(1) : [q EXCEPT !.pc = "active", !.token = 1] \in CallRec(1)
      BY <3>2, FieldsTyped
    <3>4. QED
      BY <2>1, <3>1, <3>3
  <2>3. QED
    BY <2>1, <2>2 DEF MirrorInit
<1>2. \A d \in Calls : IF d = first
                       THEN /\ call[d].kind = "create" /\ call[d].pc = "active"
                            /\ call[d].token = 1
                       ELSE call[d].kind = "none" /\ call[d].pc = "idle"
  BY DEF MirrorInit, NoCall
<1>3. MirrorTypeOK
  BY <1>1, ConstantsAssumption DEF MirrorInit, MirrorTypeOK, CallRec, CallPcs, NoMirror, NoSweep
<1>4. MintedOK
  <2>1. Raisers = {}
    BY <1>2 DEF Raisers
  <2>2. QED
    BY <2>1, FS_EmptySet DEF MintedOK, MirrorInit
<1>5. CallsOK
  BY <1>2 DEF CallsOK, MirrorInit, At
<1>6. PlacesOK
  <2>1. IsFiniteSet({Owner}) /\ Cardinality({Owner}) = 1
    BY FS_Singleton
  <2>2. QED
    BY <2>1, ConstantsAssumption DEF PlacesOK, MirrorInit
<1>7. ClosedOK /\ TokenOK
  BY DEF ClosedOK, TokenOK, MirrorInit, NoMirror
<1>8. LinkOK
  <2>1. \A d \in Calls : ~Owed(d)
    BY <1>2 DEF Owed, At
  <2>2. \E d \in Calls : call[d].kind = "create"
    <3>1. first \in Calls
      BY ConstantsAssumption
    <3>2. QED
      BY <1>2, <3>1
  <2>3. \A d \in Calls : call[d].u = Owner
    BY DEF MirrorInit, NoCall
  <2>4. QED
    BY <1>2, <2>1, <2>2, <2>3 DEF LinkOK, OwedOK, OutOK, MirrorInit
<1>9. QED
  BY <1>3, <1>4, <1>5, <1>6, <1>7, <1>8 DEF MirrorIInv, MirrorInit

LEMMA MirrorNextIInv == MirrorIInv /\ [MirrorNext]_mirrorVars => MirrorIInv'
<1> SUFFICES ASSUME MirrorIInv, [MirrorNext]_mirrorVars
             PROVE  MirrorIInv'
  OBVIOUS
<1>1. ASSUME NEW c \in Calls, CallMovesOf(c)
      PROVE  MirrorIInv'
  BY <1>1, CallTypes, CallMinted, CallCallsOK, CallPlaces, CallClosed, CallToken, CallLink
     DEF MirrorIInv
<1>2. ASSUME NEW u \in People, Outside(u)
      PROVE  MirrorIInv'
  BY <1>2, OutsideKeeps
<1>3. CASE Flush \/ SweepRead \/ SweepLua
  BY <1>3, SweepKeeps
<1>4. CASE UNCHANGED mirrorVars
  BY <1>4 DEF mirrorVars, MirrorIInv, MirrorTypeOK, MintedOK, Raisers, CallsOK, PlacesOK,
     ClosedOK, LinkOK, OwedOK, OutOK, TokenOK, TokenChanges, Owed, Tells, At
<1>5. QED
  BY <1>1, <1>2, <1>3, <1>4 DEF MirrorNext, CallMovesOf, Outside

\* Whatever calls, sweeps and failures race, the mirror of a closed session stays
\* closed once closeSession has told everybody, the places are counted, who was removed
\* stays out, and the link is the row's (MirrorAgrees, with its excuses): for any number
\* of calls, users and places.  Who was removed may know a token that joinMeeting read
\* to him from the row; the mirror has it only if a rotation was late to write it.
THEOREM MirrorInvariant == MirrorSpec => []MirrorIInv
<1>1. MirrorInit => MirrorIInv
  BY MirrorInitIInv
<1>2. MirrorIInv /\ [MirrorNext]_mirrorVars => MirrorIInv'
  BY MirrorNextIInv
<1>3. QED
  BY <1>1, <1>2, PTL DEF MirrorSpec

THEOREM MirrorOfTheRow == MirrorSpec => []MirrorAgrees
<1>1. MirrorIInv => MirrorAgrees
  BY DEF MirrorIInv, MirrorAgrees, ClosedOK, PlacesOK, LinkOK, TokenOK
<1>2. QED
  BY <1>1, MirrorInvariant, PTL

-----------------------------------------------------------------------------
(* Sockets *)

\* What a call does for the sockets of those it takes the place of: none changes hands
\* without a revocation, one still to be sent, or a note that none will be.
LEMMA CallEvicts ==
  ASSUME MirrorTypeOK, MirrorTypeOK', CallsOK, NEW c \in Calls, CallMovesOf(c), Moves(c)
  PROVE  /\ UNCHANGED socket
         /\ evicted \subseteq evicted' /\ stray \subseteq stray'
         /\ \A u \in Accounts : u \in WillEvict(c) /\ socket[u] = "open" =>
              u \in evicted' \cup stray' \cup WillEvict(c)'
         /\ \A u \in Accounts : Entitled(u) /\ ~Entitled(u)' /\ socket[u] = "open" =>
              u \in stray' \cup WillEvict(c)'
<1> DEFINE Kept == \A u \in Accounts : u \in WillEvict(c) /\ socket[u] = "open" =>
                     u \in evicted' \cup stray' \cup WillEvict(c)'
           Lost == \A u \in Accounts : Entitled(u) /\ ~Entitled(u)' /\ socket[u] = "open" =>
                     u \in stray' \cup WillEvict(c)'
           Goal == /\ UNCHANGED socket
                   /\ evicted \subseteq evicted' /\ stray \subseteq stray'
                   /\ Kept /\ Lost
<1>1. /\ db \in [open : BOOLEAN, members : SUBSET Accounts, token : 1 .. minted]
      /\ call[c] \in CallRec(minted)
  BY TypeParts DEF CallsTyped, RowTyped
<1>2. ASSUME db'.open = db.open, db.members \subseteq db'.members
      PROVE  Lost
  BY <1>2 DEF Entitled
<1>3. ASSUME \/ call[c].kind \notin {"close", "remove"}
             \/ call[c].kind = "close" /\ call[c].pc # "publish"
             \/ call[c].kind = "remove" /\ call[c].pc \notin {"hdel", "publish"}
      PROVE  Kept
  BY <1>3 DEF WillEvict
<1> SUFFICES Goal
  OBVIOUS
<1> HIDE DEF Kept, Lost
<1>4. CASE CreateSteps(c) \/ MeetSteps(c) \/ JoinTx(c) \/ AddSteps(c) \/ Activate(c)
  <2>1. /\ UNCHANGED sockets
        /\ call[c].kind \in {"create", "meet", "join", "add"}
        /\ db'.open = db.open /\ db.members \subseteq db'.members
    BY <1>1, <1>4 DEF CreateSteps, MeetSteps, JoinTx, AddSteps, Activate, At, MirrorOnly, row
  <2>2. QED
    BY <1>2, <1>3, <2>1 DEF sockets
<1>5. CASE RotateSteps(c)
  <2>1. UNCHANGED sockets /\ call[c].kind = "rotate"
        /\ db'.open = db.open /\ db.members \subseteq db'.members
    BY <1>1, <1>5 DEF RotateSteps, At, MirrorOnly, row
  <2>2. QED
    BY <1>2, <1>3, <2>1 DEF sockets
<1>6. CASE CloseSteps(c)
  <2>1. CASE At(c, "close", "update")
    <3>1. /\ db' = [db EXCEPT !.open = FALSE] /\ Goto(c, "publish") /\ UNCHANGED <<socket, evicted>>
          /\ stray' = stray \cup {u \in db.members \ call[c].list : socket[u] = "open"}
      BY <1>6, <2>1 DEF CloseSteps, At
    <3>2. WillEvict(c)' = call[c].list
      BY <2>1, <3>1, GotoFields DEF CallPcs, WillEvict, At
    <3>3. Kept
      BY <1>3, <2>1 DEF At
    <3>4. Lost
      BY <3>1, <3>2 DEF Lost, Entitled
    <3>5. QED
      BY <3>1, <3>3, <3>4
  <2>2. CASE At(c, "close", "publish")
    <3>1. UNCHANGED <<socket, stray, db>>
      BY <1>6, <2>2 DEF CloseSteps, At, MirrorOnly, row, sockets
    <3>2. CASE call[c].list = {} /\ UNCHANGED evicted
      <4>1. Kept
        BY <2>2, <3>2 DEF Kept, WillEvict, At
      <4>2. QED
        BY <1>2, <3>1, <3>2, <4>1
    <3>3. ASSUME NEW u \in call[c].list, evicted' = evicted \cup {u},
                 call' = [call EXCEPT ![c].list = @ \ {u}]
          PROVE  Goal
      <4>1. /\ call'[c].kind = "close" /\ call'[c].pc = "publish"
            /\ call'[c].list = call[c].list \ {u}
        BY <1>1, <2>2, <3>3 DEF At, Moves, MirrorTypeOK
      <4>2. Kept
        BY <2>2, <3>3, <4>1 DEF Kept, WillEvict, At
      <4>3. QED
        BY <1>2, <3>1, <3>3, <4>2
    <3>4. QED
      BY <1>6, <2>2, <3>2, <3>3 DEF CloseSteps, At, MirrorOnly, sockets
  <2>3. CASE call[c].pc \notin {"update", "publish"}
    <3>1. UNCHANGED <<db, sockets>> /\ call[c].kind = "close"
      BY <1>6, <2>3 DEF CloseSteps, At, MirrorOnly, row
    <3>2. QED
      BY <1>2, <1>3, <2>3, <3>1 DEF sockets
  <2>4. QED
    BY <1>6, <2>1, <2>2, <2>3 DEF CloseSteps, At
<1>7. CASE RemoveTx(c)
  <2>1. /\ call[c].kind = "remove" /\ call[c].pc = "begin" /\ UNCHANGED sockets
        /\ db'.open = db.open /\ db'.members = db.members \ {call[c].u} /\ Goto(c, "hdel")
    BY <1>1, <1>7 DEF RemoveTx, At
  <2>2. WillEvict(c)' = {call[c].u}
    BY <2>1, GotoFields DEF WillEvict, CallPcs
  <2>3. Lost
    BY <2>1, <2>2 DEF Lost, Entitled
  <2>4. QED
    BY <1>3, <2>1, <2>3 DEF sockets
<1>8. CASE RemoveRefused(c) \/ RemoveTorn(c)
  <2>1. UNCHANGED <<db, sockets>> /\ call[c].kind = "remove" /\ call[c].pc = "begin"
    BY <1>8 DEF RemoveRefused, RemoveTorn, At, MirrorOnly, row
  <2>2. QED
    BY <1>2, <1>3, <2>1 DEF sockets
<1>9. CASE Hdel(c)
  <2>1. UNCHANGED <<db, sockets>> /\ At(c, "remove", "hdel") /\ Goto(c, "publish")
    BY <1>9 DEF Hdel, MirrorOnly, row
  <2>2. WillEvict(c)' = {call[c].u} /\ WillEvict(c) = {call[c].u}
    BY <2>1, GotoFields DEF WillEvict, At, CallPcs
  <2>3. Kept
    BY <2>2 DEF Kept
  <2>4. QED
    BY <1>2, <2>1, <2>3 DEF sockets
<1>10. CASE Evict(c)
  <2>1. /\ UNCHANGED <<db, socket, stray>> /\ At(c, "remove", "publish")
        /\ evicted' = evicted \cup {call[c].u}
    BY <1>10 DEF Evict, row
  <2>2. Kept
    BY <2>1 DEF Kept, WillEvict, At
  <2>3. QED
    BY <1>2, <2>1, <2>2
<1>11. CASE Abort(c)
  <2>1. /\ UNCHANGED <<db, socket, evicted>>
        /\ stray' = stray \cup {u \in WillEvict(c) : socket[u] = "open"}
    BY <1>11 DEF Abort, row
  <2>2. Kept
    BY <2>1 DEF Kept
  <2>3. QED
    BY <1>2, <2>1, <2>2
<1>12. ASSUME NEW kind \in Kinds, NEW u \in People, Begin(c, kind, u)
       PROVE  Goal
  BY <1>2, <1>3, <1>12 DEF Begin, row, sockets
<1>13. QED
  BY <1>4, <1>5, <1>6, <1>7, <1>8, <1>9, <1>10, <1>11, <1>12 DEF CallMovesOf, CallStep

LEMMA SocketsNext ==
  ASSUME MirrorIInv, MirrorIInv', SocketsEnd, [MirrorNext]_mirrorVars
  PROVE  SocketsEnd'
<1>1. ASSUME NEW c \in Calls, CallMovesOf(c)
      PROVE  SocketsEnd'
  <2>1. MirrorTypeOK /\ MirrorTypeOK' /\ CallsOK /\ MintedOK
    BY DEF MirrorIInv
  <2>2. Moves(c)
    BY <1>1, <2>1, CallTypes
  <2>3. \A d \in Calls : d # c => WillEvict(d)' = WillEvict(d)
    BY <2>1, <2>2, OthersStay DEF WillEvict
  <2>4. SUFFICES ASSUME NEW u \in Accounts, socket'[u] = "open", ~Entitled(u)'
                 PROVE  u \in evicted' \cup stray' \cup UNION {WillEvict(d)' : d \in Calls}
    BY DEF SocketsEnd
  <2>5. socket[u] = "open" /\ evicted \subseteq evicted' /\ stray \subseteq stray'
    BY <1>1, <2>1, <2>2, <2>4, CallEvicts
  <2>6. CASE Entitled(u)
    BY <1>1, <2>1, <2>2, <2>4, <2>5, <2>6, CallEvicts
  <2>7. CASE ~Entitled(u)
    <3>1. CASE u \in evicted \cup stray
      BY <2>5, <3>1
    <3>2. ASSUME NEW d \in Calls, u \in WillEvict(d)
          PROVE  u \in evicted' \cup stray' \cup UNION {WillEvict(e)' : e \in Calls}
      <4>1. CASE d = c
        BY <1>1, <2>1, <2>2, <2>5, <3>2, <4>1, CallEvicts
      <4>2. CASE d # c
        BY <2>3, <3>2, <4>2
      <4>3. QED
        BY <4>1, <4>2
    <3>3. QED
      BY <2>5, <2>7, <3>1, <3>2 DEF SocketsEnd
  <2>8. QED
    BY <2>6, <2>7
<1>2. ASSUME NEW v \in People, Outside(v)
      PROVE  SocketsEnd'
  <2>1. UNCHANGED <<db, call>> /\ v \in Accounts
    BY <1>2, PeopleTyped DEF Outside, Invite, CheckActive, CheckMember, Register, Leave, Deliver,
       Lose, SockOnly, row
  <2>2. /\ \A d \in Calls : WillEvict(d)' = WillEvict(d)
        /\ \A u \in Accounts : Entitled(u)' <=> Entitled(u)
    BY <2>1 DEF WillEvict, Entitled
  <2>3. SUFFICES ASSUME NEW u \in Accounts, socket'[u] = "open", ~Entitled(u)',
                        u \notin UNION {WillEvict(d) : d \in Calls}
                 PROVE  u \in evicted' \cup stray'
    BY <2>2 DEF SocketsEnd
  <2>4. socket[u] = "open" => u \in evicted \cup stray
    BY <2>2, <2>3 DEF SocketsEnd
  <2>5. socket \in [Accounts -> {"none", "active", "member", "open"}]
    BY DEF MirrorIInv, MirrorTypeOK
  <2>6. CASE Invite(v)
    BY <2>3, <2>4, <2>6 DEF Invite, sockets
  <2>7. CASE CheckActive(v) \/ CheckMember(v) \/ Leave(v)
    BY <2>1, <2>3, <2>4, <2>5, <2>7 DEF CheckActive, CheckMember, Leave
  <2>8. CASE Register(v)
    <3>1. u # v => u \in evicted \cup stray
      BY <2>1, <2>3, <2>4, <2>5, <2>8 DEF Register
    <3>2. v = u => u \in stray'
      BY <2>2, <2>3, <2>8 DEF Register
    <3>3. QED
      BY <2>8, <3>1, <3>2 DEF Register
  <2>9. CASE Deliver(v)
    BY <2>1, <2>3, <2>4, <2>5, <2>9 DEF Deliver
  <2>10. CASE Lose(v)
    BY <2>1, <2>3, <2>4, <2>5, <2>10 DEF Lose
  <2>11. QED
    BY <1>2, <2>6, <2>7, <2>8, <2>9, <2>10 DEF Outside
<1>3. CASE Flush \/ SweepRead \/ SweepLua \/ UNCHANGED mirrorVars
  <2>1. UNCHANGED <<db, call, sockets>>
    BY <1>3 DEF Flush, SweepRead, SweepLua, mirrorVars, row, sockets
  <2>2. QED
    BY <2>1 DEF SocketsEnd, WillEvict, Entitled, sockets
<1>4. QED
  BY <1>1, <1>2, <1>3 DEF MirrorNext, CallMovesOf, Outside

\* No open socket outlives its user's place unless a revocation is under way, is still
\* owed by a call, or was lost in one of the ways SocketsEnd names.
THEOREM SocketsAreClosed == MirrorSpec => []SocketsEnd
<1>1. MirrorInit => SocketsEnd
  BY DEF MirrorInit, SocketsEnd
<1>2. MirrorIInv /\ MirrorIInv' /\ SocketsEnd /\ [MirrorNext]_mirrorVars => SocketsEnd'
  BY SocketsNext
<1>3. QED
  BY <1>1, <1>2, MirrorInvariant, PTL DEF MirrorSpec
====
