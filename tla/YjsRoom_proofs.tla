---------------------------- MODULE YjsRoom_proofs ----------------------------
(***************************************************************************)
(* Proofs about YjsRoom, for any users, replicas and deltas, any buffers   *)
(* and any number of connections: an edit is kept until the server has     *)
(* taken it, what the server has taken is kept for good, and on one        *)
(* replica nothing of it falls between history and live updates.           *)
(***************************************************************************)
EXTENDS YjsRoom, SequenceTheorems, TLAPS

(* What may travel where.  Deltas the server has taken are in accepted; a  *)
(* snapshot puts the others of its author into the stream as well.         *)

Shared == accepted \cup Union(stream)

UpKinds == IF "compaction" \in env THEN {"update", "snapshot"} ELSE {"update"}

UpGood == [type : UpKinds, data : SUBSET Deltas, from : Conns]

Remote == [type : {"update"}, data : SUBSET accepted, from : {NoConn}]

FanGood == [type : {"update"}, data : SUBSET accepted, from : Conns \cup {NoConn}]

\* Only what was taken is acknowledged.
DownGood ==
  [type : {"sync", "init", "update", "failed"}, data : SUBSET Shared]
    \cup [type : {"ack"}, data : SUBSET accepted]

JobGood ==
  [conn : Conns, at : Replicas, pc : {"pending", "xrange", "send", "close"},
   got : SUBSET Shared]

(* The inductive invariant, by the variables it is about. *)

\* A socket that is open has a number.
SocksOK ==
  /\ env \in Cases
  /\ link \in [Users -> Replicas \cup {None}]
  /\ conn \in [Users -> 0..MaxConns]
  /\ closed \in [Users -> BOOLEAN]
  /\ effect \in [Users -> BOOLEAN]
  /\ status \in [Users -> {"DISCONNECTED", "INITIALIZING", "SYNCED", "ERROR"}]
  /\ overflowed \in [Users -> BOOLEAN]
  /\ \A u \in Users : link[u] # None => conn[u] # 0

UpOK == up \in [Users -> Seq(UpGood)]

\* What is sent to a browser goes through its open socket.
DownOK ==
  /\ down \in [Users -> Seq(DownGood)]
  /\ \A u \in Users : down[u] # <<>> => link[u] # None

RoomsOK ==
  /\ joining \in [Replicas -> SUBSET Conns]
  /\ members \in [Replicas -> SUBSET Conns]
  /\ bcast \in [Replicas -> Seq(UpGood \cup Remote)]
  /\ fan \in [Replicas -> Seq(FanGood)]
  /\ pubQ \in [Replicas -> Seq(SUBSET accepted)]
  /\ jobs \subseteq JobGood

\* Nothing is trimmed without a compaction, ...
SnapsOK ==
  /\ snaps \subseteq Snap /\ first \in Nat
  /\ "compaction" \notin env => snaps = {} /\ first = 1

\* ... what was taken is in a save queue or was added to the stream, and the
\* flusher removes from its queue what it has added.
LogOK ==
  /\ accepted \subseteq Deltas
  /\ pend \in [Replicas -> Seq(SUBSET Deltas)]
  /\ xadded \in [Replicas -> BOOLEAN]
  /\ stream \in Seq(SUBSET Deltas)
  /\ \A r \in Replicas : Union(pend[r]) \subseteq accepted
  /\ \A r \in Replicas : xadded[r] => pend[r] # <<>> /\ Head(pend[r]) \subseteq Union(stream)
  /\ accepted \subseteq Union(stream) \cup UNION {Union(pend[r]) : r \in Replicas}

\* A document holds what its user has made and what was shared.
DocsOK ==
  /\ doc \in [Users -> SUBSET Deltas]
  /\ live \in [Users -> Seq(SUBSET Shared)]
  /\ unsent \in [Users -> SUBSET Deltas]
  /\ authored \in [Users -> SUBSET Deltas]
  /\ refused \subseteq Deltas
  /\ \A u \in Users : doc[u] \subseteq authored[u] \cup Shared
  /\ UnsentKept

IInv == SocksOK /\ UpOK /\ DownOK /\ RoomsOK /\ SnapsOK /\ LogOK /\ DocsOK

-----------------------------------------------------------------------------
(* Sequences of sets *)

LEMMA UnionIs ==
  ASSUME NEW S, NEW s \in Seq(SUBSET S)
  PROVE  /\ Union(s) \subseteq S
         /\ \A x : x \in Union(s) <=> \E i \in 1..Len(s) : x \in s[i]
<1>1. Range(s) = {s[i] : i \in 1..Len(s)} /\ \A i \in 1..Len(s) : s[i] \in SUBSET S
  BY RangeEquality, ElementOfSeq
<1>2. QED
  BY <1>1 DEF Union

LEMMA UnionEmpty == Union(<<>>) = {}
BY DEF Union, Range

LEMMA UnionAppend ==
  ASSUME NEW S, NEW s \in Seq(SUBSET S), NEW d \in SUBSET S
  PROVE  Union(Append(s, d)) = Union(s) \cup d
<1>1. /\ Append(s, d) \in Seq(SUBSET S) /\ Len(s) \in Nat
      /\ Len(Append(s, d)) = Len(s) + 1
      /\ \A i \in 1..Len(s) : Append(s, d)[i] = s[i]
      /\ Append(s, d)[Len(s) + 1] = d
  BY AppendProperties, LenProperties
<1>2. ASSUME NEW x
      PROVE  x \in Union(Append(s, d)) <=> x \in Union(s) \cup d
  <2>1. x \in Union(Append(s, d)) <=> \E i \in 1..(Len(s) + 1) : x \in Append(s, d)[i]
    BY <1>1, UnionIs
  <2>2. x \in Union(s) <=> \E i \in 1..Len(s) : x \in s[i]
    BY UnionIs
  <2>3. QED
    BY <1>1, <2>1, <2>2
<1>3. QED
  BY <1>2

LEMMA UnionTail ==
  ASSUME NEW S, NEW s \in Seq(SUBSET S), s # <<>>
  PROVE  Union(s) = Head(s) \cup Union(Tail(s))
<1>1. /\ Tail(s) \in Seq(SUBSET S) /\ Len(s) \in Nat \ {0} /\ Len(Tail(s)) = Len(s) - 1
      /\ \A i \in 1..Len(Tail(s)) : Tail(s)[i] = s[i + 1]
      /\ Head(s) = s[1]
  BY HeadTailProperties, EmptySeq
<1>2. ASSUME NEW x
      PROVE  x \in Union(s) <=> x \in Head(s) \cup Union(Tail(s))
  <2>1. x \in Union(Tail(s)) <=> \E i \in 1..(Len(s) - 1) : x \in s[i + 1]
    BY <1>1, UnionIs
  <2>2. x \in Union(s) <=> \E i \in 1..Len(s) : x \in s[i]
    BY UnionIs
  <2>3. (\E i \in 1..Len(s) : x \in s[i])
          <=> (x \in s[1] \/ \E i \in 1..(Len(s) - 1) : x \in s[i + 1])
    <3>1. \A i \in 1..Len(s) : i = 1 \/ (i - 1 \in 1..(Len(s) - 1) /\ (i - 1) + 1 = i)
      BY <1>1
    <3>2. 1 \in 1..Len(s) /\ \A i \in 1..(Len(s) - 1) : i + 1 \in 1..Len(s)
      BY <1>1
    <3>3. QED
      BY <3>1, <3>2
  <2>4. QED
    BY <1>1, <2>1, <2>2, <2>3
<1>3. QED
  BY <1>2

-----------------------------------------------------------------------------
(* The log: who writes it, and that what is shared stays shared. *)

LEMMA LogWriters ==
  ASSUME Step
  PROVE  \/ UNCHANGED <<accepted, pend, xadded, stream>>
         \/ \E r \in Replicas : Enqueue(r) \/ XAdd(r) \/ Commit(r)
         \/ \E s \in snaps : SnapAdd(s)
<1>1. ASSUME NEW u \in Users,
             \/ \E d \in Deltas : Edit(u, d)
             \/ \E r \in Replicas : Connect(u, r)
             \/ Drop(u) \/ Evicted(u) \/ ConnectEffect(u) \/ SendSnapshot(u)
             \/ Recv(u) \/ Read(u) \/ Limited(u)
      PROVE  UNCHANGED <<accepted, pend, xadded, stream>>
  BY <1>1 DEF Edit, Connect, Drop, Evicted, ConnectEffect, SendSnapshot, Recv, RecvSync,
     RecvInit, RecvUpdate, RecvAck, RecvFailed, Receiving, Read, Limited, queueVars,
     redisVars, histVars
<1>2. ASSUME NEW r \in Replicas, RunStep(r) \/ Publish(r), ~Enqueue(r)
      PROVE  UNCHANGED <<accepted, pend, xadded, stream>>
  BY <1>2 DEF RunStep, Register, Unregister, Refuse, TakeRemote, TakeSnapshot, FanOut, Publish,
     queueVars, redisVars, histVars
<1>3. ASSUME NEW j \in jobs, JobStep(j)
      PROVE  UNCHANGED <<accepted, pend, xadded, stream>>
  BY <1>3 DEF JobStep, GetPending, XRange, XRangeFails, CloseFailed, SendInit, queueVars,
     redisVars, histVars
<1>4. ASSUME NEW s \in snaps, SnapTrim(s) \/ SnapFails(s)
      PROVE  UNCHANGED <<accepted, pend, xadded, stream>>
  BY <1>4 DEF SnapTrim, SnapFails, queueVars, redisVars, histVars
<1>5. QED
  BY <1>1, <1>2, <1>3, <1>4 DEF Step

\* What handleBroadcast has at hand.
LEMMA Handled ==
  ASSUME LogOK, RoomsOK, NEW r \in Replicas, bcast[r] # <<>>
  PROVE  /\ Msg(r) \in UpGood \cup Remote
         /\ Msg(r).data \subseteq Deltas
         /\ Tail(bcast[r]) \in Seq(UpGood \cup Remote)
<1>1. Msg(r) \in UpGood \cup Remote /\ Tail(bcast[r]) \in Seq(UpGood \cup Remote)
  BY HeadTailProperties DEF RoomsOK, Msg
<1>2. QED
  BY <1>1 DEF LogOK, UpGood, Remote

LEMMA LogStep ==
  ASSUME LogOK, RoomsOK, SnapsOK, Step
  PROVE  LogOK'
<1>1. CASE UNCHANGED <<accepted, pend, xadded, stream>>
  BY <1>1 DEF LogOK
<1>2. ASSUME NEW r \in Replicas, Enqueue(r)
      PROVE  LogOK'
  <2> DEFINE d == Msg(r).data
  <2>1. /\ pend' = [pend EXCEPT ![r] = Append(pend[r], d)]
        /\ accepted' = accepted \cup d
        /\ UNCHANGED <<xadded, stream>>
    BY <1>2 DEF Enqueue, redisVars, LogOK
  <2>2. d \in SUBSET Deltas /\ pend[r] \in Seq(SUBSET Deltas)
    BY <1>2, Handled DEF Enqueue, LogOK
  <2> HIDE DEF d
  <2>3. /\ Append(pend[r], d) \in Seq(SUBSET Deltas) /\ Append(pend[r], d) # <<>>
        /\ Union(Append(pend[r], d)) = Union(pend[r]) \cup d
        /\ pend[r] # <<>> => Head(Append(pend[r], d)) = Head(pend[r])
    BY <2>2, AppendProperties, HeadTailAppend, UnionAppend
  <2>4. \A q \in Replicas : Union(pend'[q]) = IF q = r THEN Union(pend[q]) \cup d ELSE Union(pend[q])
    BY <2>1, <2>3 DEF LogOK
  <2>5. accepted' \subseteq Deltas /\ pend' \in [Replicas -> Seq(SUBSET Deltas)]
    BY <2>1, <2>2, <2>3 DEF LogOK
  <2>6. \A q \in Replicas : Union(pend'[q]) \subseteq accepted'
    BY <2>1, <2>4 DEF LogOK
  <2>7. \A q \in Replicas : xadded[q] => pend'[q] # <<>> /\ Head(pend'[q]) \subseteq Union(stream)
    BY <2>1, <2>3 DEF LogOK
  <2>8. accepted' \subseteq Union(stream) \cup UNION {Union(pend'[q]) : q \in Replicas}
    BY <2>1, <2>4 DEF LogOK
  <2>9. QED
    BY <2>1, <2>5, <2>6, <2>7, <2>8 DEF LogOK
<1>3. ASSUME NEW d \in SUBSET Deltas, stream' = Append(stream, d), UNCHANGED <<accepted, pend>>,
             \/ UNCHANGED xadded
             \/ \E r \in Replicas : /\ pend[r] # <<>> /\ d = Head(pend[r])
                                    /\ xadded' = [xadded EXCEPT ![r] = TRUE]
      PROVE  LogOK'
  <2>1. stream \in Seq(SUBSET Deltas)
    BY DEF LogOK
  <2>2. /\ Append(stream, d) \in Seq(SUBSET Deltas)
        /\ Union(Append(stream, d)) = Union(stream) \cup d
    BY <2>1, AppendProperties, UnionAppend
  <2>3. stream' \in Seq(SUBSET Deltas) /\ Union(stream') = Union(stream) \cup d
    BY <1>3, <2>2
  <2>4. QED
    BY <1>3, <2>3 DEF LogOK
<1>4. ASSUME NEW r \in Replicas, XAdd(r)
      PROVE  LogOK'
  <2>1. Head(pend[r]) \in SUBSET Deltas
    BY <1>4, HeadTailProperties DEF XAdd, LogOK
  <2>2. QED
    BY <1>3, <1>4, <2>1 DEF XAdd, histVars
<1>5. ASSUME NEW s \in snaps, SnapAdd(s)
      PROVE  LogOK'
  <2>1. s.data \in SUBSET Deltas
    BY DEF SnapsOK, Snap
  <2>2. QED
    BY <1>3, <1>5, <2>1 DEF SnapAdd, queueVars, histVars
<1>6. ASSUME NEW r \in Replicas, Commit(r)
      PROVE  LogOK'
  <2>1. /\ pend' = [pend EXCEPT ![r] = Tail(pend[r])] /\ xadded' = [xadded EXCEPT ![r] = FALSE]
        /\ UNCHANGED <<accepted, stream>> /\ xadded[r]
    BY <1>6 DEF Commit, redisVars, histVars, LogOK
  <2>2. /\ Tail(pend[r]) \in Seq(SUBSET Deltas)
        /\ Union(pend[r]) = Head(pend[r]) \cup Union(Tail(pend[r]))
        /\ Head(pend[r]) \subseteq Union(stream)
    BY <2>1, HeadTailProperties, UnionTail DEF LogOK
  <2>3. \A q \in Replicas : Union(pend'[q]) = IF q = r THEN Union(Tail(pend[q])) ELSE Union(pend[q])
    BY <2>1 DEF LogOK
  <2>4. pend' \in [Replicas -> Seq(SUBSET Deltas)] /\ xadded' \in [Replicas -> BOOLEAN]
    BY <2>1, <2>2 DEF LogOK
  <2>5. \A q \in Replicas : Union(pend'[q]) \subseteq accepted
    BY <2>2, <2>3 DEF LogOK
  <2>6. \A q \in Replicas : xadded'[q] => pend'[q] # <<>> /\ Head(pend'[q]) \subseteq Union(stream)
    BY <2>1 DEF LogOK
  <2>7. accepted \subseteq Union(stream) \cup UNION {Union(pend'[q]) : q \in Replicas}
    BY <2>2, <2>3 DEF LogOK
  <2>8. QED
    BY <2>1, <2>4, <2>5, <2>6, <2>7 DEF LogOK
<1>7. QED
  BY <1>1, <1>2, <1>4, <1>5, <1>6, LogWriters

LEMMA Grows ==
  ASSUME LogOK, RoomsOK, SnapsOK, Step
  PROVE  /\ accepted \subseteq accepted' /\ Shared \subseteq Shared'
         /\ accepted \subseteq Shared /\ Shared \subseteq Deltas /\ Shared' \subseteq Deltas
         /\ Union(stream) \subseteq Union(stream')
<1>1. LogOK'
  BY LogStep
<1>2. /\ accepted \subseteq Shared /\ Shared \subseteq Deltas /\ Shared' \subseteq Deltas
  BY <1>1, UnionIs DEF LogOK, Shared
<1>3. accepted \subseteq accepted'
  BY LogWriters DEF Enqueue, XAdd, Commit, SnapAdd, histVars
<1>4. ASSUME NEW d \in SUBSET Deltas, stream' = Append(stream, d)
      PROVE  Union(stream) \subseteq Union(stream')
  <2>1. stream \in Seq(SUBSET Deltas)
    BY DEF LogOK
  <2>2. Union(Append(stream, d)) = Union(stream) \cup d
    BY <2>1, UnionAppend
  <2>3. QED
    BY <1>4, <2>2
<1>5. Union(stream) \subseteq Union(stream')
  <2>1. ASSUME NEW r \in Replicas, Enqueue(r) \/ Commit(r)
        PROVE  UNCHANGED stream
    BY <2>1 DEF Enqueue, Commit, redisVars
  <2>2. ASSUME NEW r \in Replicas, XAdd(r)
        PROVE  Union(stream) \subseteq Union(stream')
    <3>1. Head(pend[r]) \in SUBSET Deltas
      BY <2>2, HeadTailProperties DEF XAdd, LogOK
    <3>2. QED
      BY <1>4, <2>2, <3>1 DEF XAdd
  <2>3. ASSUME NEW s \in snaps, SnapAdd(s)
        PROVE  Union(stream) \subseteq Union(stream')
    <3>1. s.data \in SUBSET Deltas
      BY DEF SnapsOK, Snap
    <3>2. QED
      BY <1>4, <2>3, <3>1 DEF SnapAdd
  <2>4. QED
    BY <2>1, <2>2, <2>3, LogWriters
<1>6. QED
  BY <1>2, <1>3, <1>5 DEF Shared

\* What may be sent may be sent later, too.
LEMMA Stays ==
  ASSUME LogOK, RoomsOK, SnapsOK, Step, env' = env
  PROVE  /\ UpGood' = UpGood
         /\ DownGood \subseteq DownGood' /\ Remote \subseteq Remote' /\ FanGood \subseteq FanGood'
         /\ JobGood \subseteq JobGood'
         /\ \A s \in Seq(DownGood) : s \in Seq(DownGood')
         /\ \A s \in Seq(UpGood \cup Remote) : s \in Seq(UpGood' \cup Remote')
         /\ \A s \in Seq(FanGood) : s \in Seq(FanGood')
         /\ \A s \in Seq(SUBSET accepted) : s \in Seq(SUBSET accepted')
         /\ \A s \in Seq(SUBSET Shared) : s \in Seq(SUBSET Shared')
<1>1. UpGood' = UpGood
  BY DEF UpGood, UpKinds
<1>2. /\ DownGood \subseteq DownGood' /\ Remote \subseteq Remote' /\ FanGood \subseteq FanGood'
      /\ JobGood \subseteq JobGood'
  BY Grows DEF DownGood, Remote, FanGood, JobGood
<1>3. SUBSET accepted \subseteq SUBSET accepted' /\ SUBSET Shared \subseteq SUBSET Shared'
  BY Grows
<1>4. QED
  BY <1>1, <1>2, <1>3, SeqMonotonic

-----------------------------------------------------------------------------
(* Sockets and browsers *)

LEMMA ConnFacts ==
  /\ NoConn \notin Conns /\ None \notin Replicas /\ Home \in Replicas
  /\ Serving \subseteq Replicas
  /\ \A c \in Conns : c[1] \in Users /\ c = <<c[1], c[2]>>
<1>1. \A c \in Conns : c # <<>>
  BY DEF Conns
<1>2. QED
  BY <1>1, RoomAssumption DEF RoomAssumption, NoConn, Conns, Serving

LEMMA MeIsConn ==
  ASSUME SocksOK, NEW u \in Users, link[u] # None
  PROVE  Me(u) \in Conns
BY RoomAssumption DEF SocksOK, Me, Conns, RoomAssumption

\* Client.Send reaches only an open socket.
LEMMA SendToOK ==
  ASSUME DownOK, NEW c \in Conns, NEW r \in Replicas, NEW m \in DownGood
  PROVE  /\ SendTo(c, r, m) \in [Users -> Seq(DownGood)]
         /\ \A u \in Users : SendTo(c, r, m)[u] # <<>> => link[u] # None
<1>1. /\ down \in [Users -> Seq(DownGood)] /\ c[1] \in Users /\ r # None
      /\ \A u \in Users : down[u] # <<>> => link[u] # None
  BY ConnFacts DEF DownOK
<1>2. Append(down[c[1]], m) \in Seq(DownGood)
  BY <1>1, AppendProperties
<1>3. CASE Live(c, r) /\ ~Full(c[1])
  <2>1. SendTo(c, r, m) = [down EXCEPT ![c[1]] = Append(down[c[1]], m)] /\ link[c[1]] # None
    BY <1>1, <1>3 DEF SendTo, Live
  <2>2. QED
    BY <1>1, <1>2, <2>1
<1>4. CASE ~(Live(c, r) /\ ~Full(c[1]))
  BY <1>1, <1>4 DEF SendTo
<1>5. QED
  BY <1>3, <1>4

LEMMA SocksStep == ASSUME SocksOK, RoomsOK, Step, env' = env PROVE SocksOK'
<1>1. /\ link \in [Users -> Replicas \cup {None}] /\ conn \in [Users -> 0..MaxConns]
      /\ closed \in [Users -> BOOLEAN] /\ effect \in [Users -> BOOLEAN]
      /\ status \in [Users -> {"DISCONNECTED", "INITIALIZING", "SYNCED", "ERROR"}]
      /\ \A u \in Users : link[u] # None => conn[u] # 0
      /\ env \in Cases /\ MaxConns \in Nat /\ overflowed \in [Users -> BOOLEAN]
  BY RoomAssumption DEF SocksOK, RoomAssumption
<1>2. ASSUME NEW u \in Users, NEW r \in Replicas, Connect(u, r)
      PROVE  SocksOK'
  <2>1. /\ link' = [link EXCEPT ![u] = r] /\ conn' = [conn EXCEPT ![u] = conn[u] + 1]
        /\ conn[u] < MaxConns /\ UNCHANGED <<closed, effect, status>>
        /\ overflowed' = [overflowed EXCEPT ![u] = FALSE]
    BY <1>1, <1>2 DEF Connect
  <2>2. conn[u] + 1 \in 0..MaxConns /\ conn[u] + 1 # 0
    BY <1>1, <2>1
  <2>3. QED
    BY <1>1, <2>1, <2>2 DEF SocksOK
<1>3. ASSUME NEW u \in Users, SocketGone(u), UNCHANGED <<conn, effect, overflowed>>,
             closed' \in [Users -> BOOLEAN],
             status' \in [Users -> {"DISCONNECTED", "INITIALIZING", "SYNCED", "ERROR"}]
      PROVE  SocksOK'
  BY <1>1, <1>3 DEF SocketGone, SocksOK
<1>4. ASSUME NEW u \in Users, Drop(u) \/ Evicted(u)
      PROVE  SocksOK'
  BY <1>1, <1>3, <1>4 DEF Drop, Evicted, histVars
<1>5. ASSUME NEW j \in jobs, CloseFailed(j)
      PROVE  SocksOK'
  <2>1. j.conn[1] \in Users
    BY ConnFacts DEF RoomsOK, JobGood
  <2>2. CASE Live(j.conn, j.at)
    BY <1>1, <1>3, <1>5, <2>1, <2>2 DEF CloseFailed, histVars
  <2>3. CASE ~Live(j.conn, j.at)
    BY <1>1, <1>5, <2>3 DEF CloseFailed, SocksOK, histVars
  <2>4. QED
    BY <2>2, <2>3
<1>6. ASSUME UNCHANGED <<link, conn, closed>>,
             effect' \in [Users -> BOOLEAN], overflowed' \in [Users -> BOOLEAN],
             status' \in [Users -> {"DISCONNECTED", "INITIALIZING", "SYNCED", "ERROR"}]
      PROVE  SocksOK'
  BY <1>1, <1>6 DEF SocksOK
<1>7. ASSUME NEW u \in Users, NEW d \in Deltas, Edit(u, d)
      PROVE  SocksOK'
  BY <1>1, <1>6, <1>7 DEF Edit
<1>8. ASSUME NEW u \in Users, ConnectEffect(u)
      PROVE  SocksOK'
  BY <1>1, <1>6, <1>8 DEF ConnectEffect, histVars
<1>9. ASSUME NEW u \in Users, Recv(u)
      PROVE  SocksOK'
  BY <1>1, <1>6, <1>9 DEF Recv, RecvSync, RecvInit, RecvUpdate, RecvAck, RecvFailed, Receiving
<1>10. ASSUME \/ \E u \in Users : SendSnapshot(u) \/ Read(u) \/ Limited(u)
              \/ \E r \in Replicas : RunStep(r) \/ Publish(r) \/ XAdd(r) \/ Commit(r)
              \/ \E j \in jobs : GetPending(j) \/ XRange(j) \/ XRangeFails(j) \/ SendInit(j)
              \/ \E s \in snaps : SnapAdd(s) \/ SnapTrim(s) \/ SnapFails(s)
       PROVE  UNCHANGED <<link, conn, closed, effect, status, overflowed>>
  BY <1>10 DEF SendSnapshot, Read, Limited, RunStep, Register, Unregister, Refuse, Enqueue,
     TakeRemote, TakeSnapshot, FanOut, Publish, XAdd, Commit, GetPending, XRange, XRangeFails,
     SendInit, SnapAdd, SnapTrim, SnapFails, browserVars, histVars
<1>11. QED
  BY <1>1, <1>2, <1>4, <1>5, <1>6, <1>7, <1>8, <1>9, <1>10 DEF Step, JobStep

\* drainUnsentQueue sends updates of what is unsent, whether it merges them or not.
Drained(u) == {Update(d, Me(u)) : d \in SUBSET unsent[u]}

LEMMA DrainSends ==
  ASSUME NEW S, up \in [Users -> Seq(S)], NEW u \in Users, Drain(u)
  PROVE  \E s \in Seq(Drained(u)) : up' = [up EXCEPT ![u] = up[u] \o s]
<1> DEFINE small == unsent[u] \ Oversized
<1>1. CASE up' = [up EXCEPT ![u] = Append(@, Update(unsent[u], Me(u)))]
  <2>1. <<Update(unsent[u], Me(u))>> \in Seq(Drained(u))
    <3>1. Update(unsent[u], Me(u)) \in Drained(u)
      BY DEF Drained
    <3>2. QED
      BY <3>1
  <2>2. up[u] \in Seq(S) /\ Append(up[u], Update(unsent[u], Me(u)))
                              = up[u] \o <<Update(unsent[u], Me(u))>>
    OBVIOUS
  <2>3. up' = [up EXCEPT ![u] = up[u] \o <<Update(unsent[u], Me(u))>>]
    BY <1>1, <2>2
  <2>4. QED
    BY <2>1, <2>3
<1>2. ASSUME NEW n \in 0 .. MaxUnsent, NEW f \in Bijection(1 .. n, small),
             up' = [up EXCEPT ![u] = @ \o [i \in 1 .. n |-> Update({f[i]}, Me(u))]]
      PROVE  \E s \in Seq(Drained(u)) : up' = [up EXCEPT ![u] = up[u] \o s]
  <2>1. f \in [1 .. n -> small] /\ n \in Nat
    BY RoomAssumption DEF Bijection, Injection, RoomAssumption
  <2>2. \A i \in 1 .. n : Update({f[i]}, Me(u)) \in Drained(u)
    BY <2>1 DEF Drained
  <2>3. [i \in 1 .. n |-> Update({f[i]}, Me(u))] \in Seq(Drained(u))
    BY <2>1, <2>2
  <2>4. QED
    BY <1>2, <2>3
<1>3. QED
  BY <1>1, <1>2 DEF Drain

LEMMA ConcatIn ==
  ASSUME NEW S, NEW T, T \subseteq S, NEW s \in Seq(S), NEW t \in Seq(T)
  PROVE  s \o t \in Seq(S)
<1>1. t \in Seq(S)
  BY SeqMonotonic
<1>2. QED
  BY <1>1, ConcatProperties

LEMMA UpStep ==
  ASSUME SocksOK, UpOK, DownOK, RoomsOK, DocsOK, Step, env' = env
  PROVE  UpOK'
<1>1. up \in [Users -> Seq(UpGood)] /\ UpGood' = UpGood
  BY DEF UpOK, UpGood, UpKinds
<1>2. ASSUME NEW u \in Users, NEW m \in UpGood, up' = [up EXCEPT ![u] = Append(up[u], m)]
      PROVE  UpOK'
  BY <1>1, <1>2, AppendProperties DEF UpOK
<1>3. ASSUME NEW u \in Users, link[u] # None, NEW d \in SUBSET Deltas
      PROVE  Update(d, Me(u)) \in UpGood
  BY <1>3, MeIsConn DEF Update, UpGood, UpKinds
<1>4. ASSUME NEW u \in Users, NEW d \in Deltas, Edit(u, d)
      PROVE  UpOK'
  <2>1. \/ UNCHANGED up
        \/ link[u] # None /\ up' = [up EXCEPT ![u] = Append(up[u], Update({d}, Me(u)))]
    BY <1>1, <1>4 DEF Edit
  <2>2. QED
    BY <1>1, <1>2, <1>3, <2>1 DEF UpOK
<1>5. ASSUME NEW u \in Users, SocketGone(u)
      PROVE  UpOK'
  BY <1>1, <1>5 DEF SocketGone, UpOK
<1>6. ASSUME NEW j \in jobs, CloseFailed(j)
      PROVE  UpOK'
  <2>1. j.conn[1] \in Users
    BY ConnFacts DEF RoomsOK, JobGood
  <2>2. QED
    BY <1>1, <1>5, <1>6, <2>1 DEF CloseFailed, wireVars, UpOK
<1>7. ASSUME NEW u \in Users, SendSnapshot(u)
      PROVE  UpOK'
  <2>1. Me(u) \in Conns /\ doc[u] \in SUBSET Deltas /\ "compaction" \in env
    BY <1>7, MeIsConn DEF SendSnapshot, DocsOK
  <2>2. [type |-> "snapshot", data |-> doc[u], from |-> Me(u)] \in UpGood
    BY <2>1 DEF UpGood, UpKinds
  <2>3. QED
    BY <1>1, <1>2, <1>7, <2>2 DEF SendSnapshot
<1>8. ASSUME NEW u \in Users, RecvInit(u)
      PROVE  UpOK'
  <2>1. link[u] # None /\ unsent[u] \in SUBSET Deltas
    BY <1>8 DEF RecvInit, Receiving, DownOK, DocsOK
  <2>2. PICK s \in Seq(Drained(u)) : up' = [up EXCEPT ![u] = up[u] \o s]
    BY <1>1, <1>8, DrainSends DEF RecvInit
  <2>3. Drained(u) \subseteq UpGood
    BY <1>3, <2>1 DEF Drained
  <2>4. up[u] \o s \in Seq(UpGood)
    BY <1>1, <2>3, ConcatIn
  <2>5. QED
    BY <1>1, <2>2, <2>4 DEF UpOK
<1>9. ASSUME NEW u \in Users, Read(u) \/ Limited(u)
      PROVE  UpOK'
  <2>1. up[u] # <<>> /\ up' = [up EXCEPT ![u] = Tail(up[u])]
    BY <1>1, <1>9 DEF Read, Limited
  <2>2. Tail(up[u]) \in Seq(UpGood)
    BY <1>1, <2>1, HeadTailProperties
  <2>3. QED
    BY <1>1, <2>1, <2>2 DEF UpOK
<1>10. ASSUME \/ \E u \in Users :
                   \/ \E r \in Replicas : Connect(u, r)
                   \/ ConnectEffect(u) \/ RecvSync(u) \/ RecvUpdate(u) \/ RecvAck(u)
                   \/ RecvFailed(u)
              \/ \E r \in Replicas : RunStep(r) \/ Publish(r) \/ XAdd(r) \/ Commit(r)
              \/ \E j \in jobs : GetPending(j) \/ XRange(j) \/ XRangeFails(j) \/ SendInit(j)
              \/ \E s \in snaps : SnapAdd(s) \/ SnapTrim(s) \/ SnapFails(s)
       PROVE  UNCHANGED up
  BY <1>10 DEF Connect, ConnectEffect, RecvSync, RecvUpdate, RecvAck, RecvFailed, RunStep,
     Register, Unregister, Refuse, Enqueue, TakeRemote, TakeSnapshot, FanOut, Publish, XAdd,
     Commit, GetPending, XRange, XRangeFails, SendInit, SnapAdd, SnapTrim, SnapFails, wireVars
<1>11. ASSUME NEW u \in Users, Drop(u) \/ Evicted(u)
       PROVE  UpOK'
  BY <1>5, <1>11 DEF Drop, Evicted
<1>12. QED
  BY <1>1, <1>4, <1>6, <1>7, <1>8, <1>9, <1>10, <1>11 DEF Step, JobStep, Recv, UpOK

-----------------------------------------------------------------------------
(* What is sent to browsers, and what they make of it *)

\* The socket of whoever is sent something may close, nothing else.
LEMMA DownStep ==
  ASSUME SocksOK, DownOK, RoomsOK, SnapsOK, LogOK, Step, env' = env
  PROVE  DownOK'
<1>1. /\ down \in [Users -> Seq(DownGood)]
      /\ \A u \in Users : down[u] # <<>> => link[u] # None
      /\ link \in [Users -> Replicas \cup {None}]
      /\ \A s \in Seq(DownGood) : s \in Seq(DownGood')
      /\ None \notin Replicas
  BY Stays, ConnFacts DEF DownOK, SocksOK
<1>2. ASSUME UNCHANGED link, down' \in [Users -> Seq(DownGood)],
             \A u \in Users : down'[u] # <<>> => link[u] # None
      PROVE  DownOK'
  BY <1>1, <1>2 DEF DownOK
<1>3. ASSUME NEW c \in Conns, NEW r \in Replicas, NEW m \in DownGood,
             down' = SendTo(c, r, m), UNCHANGED link
      PROVE  DownOK'
  BY <1>2, <1>3, SendToOK
<1>4. /\ Down("sync", {}) \in DownGood /\ Down("failed", {}) \in DownGood
      /\ \A d \in SUBSET Shared : Down("init", d) \in DownGood /\ Down("update", d) \in DownGood
      /\ \A d \in SUBSET accepted : Down("ack", d) \in DownGood
  BY DEF Down, DownGood
<1>5. ASSUME NEW u \in Users, SocketGone(u)
      PROVE  DownOK'
  BY <1>1, <1>5 DEF SocketGone, DownOK
<1>6. ASSUME NEW u \in Users, NEW r \in Replicas, Connect(u, r)
      PROVE  DownOK'
  <2>1. UNCHANGED down /\ \A v \in Users : link[v] # None => link'[v] # None
    BY <1>1, <1>6 DEF Connect, wireVars
  <2>2. QED
    BY <1>1, <2>1 DEF DownOK
<1>7. ASSUME NEW u \in Users, Recv(u)
      PROVE  DownOK'
  <2>1. down[u] # <<>> /\ down' = [down EXCEPT ![u] = Tail(down[u])] /\ UNCHANGED link
    BY <1>1, <1>7 DEF Recv, RecvSync, RecvInit, RecvUpdate, RecvAck, RecvFailed, Receiving
  <2>2. Tail(down[u]) \in Seq(DownGood)
    BY <1>1, <2>1, HeadTailProperties
  <2>3. QED
    BY <1>1, <1>2, <2>1, <2>2
<1>8. ASSUME NEW r \in Replicas, NEW c \in joining[r], Register(r, c)
      PROVE  DownOK'
  <2>1. c \in Conns
    BY DEF RoomsOK
  <2>2. QED
    BY <1>3, <1>4, <1>8, <2>1 DEF Register, browserVars
<1>9. ASSUME NEW j \in jobs, XRangeFails(j) \/ SendInit(j)
      PROVE  DownOK'
  <2>1. j.conn \in Conns /\ j.at \in Replicas /\ j.got \in SUBSET Shared
    BY DEF RoomsOK, JobGood
  <2>2. QED
    BY <1>3, <1>4, <1>9, <2>1 DEF XRangeFails, SendInit, browserVars
<1>10. ASSUME NEW j \in jobs, CloseFailed(j)
       PROVE  DownOK'
  <2>1. j.conn[1] \in Users
    BY ConnFacts DEF RoomsOK, JobGood
  <2>2. CASE Live(j.conn, j.at)
    BY <1>5, <1>10, <2>1, <2>2 DEF CloseFailed
  <2>3. CASE ~Live(j.conn, j.at)
    BY <1>1, <1>2, <1>10, <2>3 DEF CloseFailed, wireVars
  <2>4. QED
    BY <2>2, <2>3
<1>11. ASSUME NEW r \in Replicas, Refuse(r)
       PROVE  DownOK'
  <2>1. CASE Msg(r).from \in members[r]
    <3>1. Msg(r).from \in Conns
      BY <2>1 DEF RoomsOK
    <3>2. QED
      BY <1>3, <1>4, <1>11, <2>1, <3>1 DEF Refuse, browserVars
  <2>2. CASE Msg(r).from \notin members[r]
    BY <1>1, <1>2, <1>11, <2>2 DEF Refuse, browserVars
  <2>3. QED
    BY <2>1, <2>2
<1>12. ASSUME NEW r \in Replicas, FanOut(r)
       PROVE  DownOK'
  <2> DEFINE m == Head(fan[r])
             reached == {u \in Users : Me(u) \in members[r] /\ Live(Me(u), r)}
  <2>1. /\ down' = [u \in Users |-> IF u \in reached /\ ~Full(u)
                                    THEN Append(down[u], Reply(m, Me(u))) ELSE down[u]]
        /\ UNCHANGED link
    BY <1>12 DEF FanOut, browserVars
  <2>2. m \in FanGood
    BY <1>12, HeadTailProperties DEF FanOut, RoomsOK
  <2>3. m.data \in SUBSET accepted /\ m.data \in SUBSET Shared
    BY <2>2, Grows DEF FanGood
  <2>4. \A u \in Users : Reply(m, Me(u)) \in DownGood
    BY <1>4, <2>3 DEF Reply
  <2>5. \A u \in Users : Append(down[u], Reply(m, Me(u))) \in Seq(DownGood)
    BY <1>1, <2>4, AppendProperties
  <2>6. \A u \in reached : link[u] # None
    BY <1>1 DEF Live, Me
  <2> HIDE DEF m, reached
  <2>7. QED
    BY <1>1, <1>2, <2>1, <2>5, <2>6
<1>13. ASSUME NEW u \in Users, Drop(u) \/ Evicted(u)
       PROVE  DownOK'
  BY <1>5, <1>13 DEF Drop, Evicted
<1>14. ASSUME \/ \E u \in Users :
                   \/ \E d \in Deltas : Edit(u, d)
                   \/ ConnectEffect(u) \/ SendSnapshot(u) \/ Read(u) \/ Limited(u)
              \/ \E r \in Replicas :
                   \/ \E c \in members[r] : Unregister(r, c)
                   \/ Enqueue(r) \/ TakeRemote(r) \/ TakeSnapshot(r)
                   \/ Publish(r) \/ XAdd(r) \/ Commit(r)
              \/ \E j \in jobs : GetPending(j) \/ XRange(j)
              \/ \E s \in snaps : SnapAdd(s) \/ SnapTrim(s) \/ SnapFails(s)
       PROVE  UNCHANGED <<down, link>>
  BY <1>14 DEF Edit, ConnectEffect, SendSnapshot, Read, Limited, Unregister, Enqueue,
     TakeRemote, TakeSnapshot, Publish, XAdd, Commit, GetPending, XRange, SnapAdd, SnapTrim,
     SnapFails, browserVars, wireVars
<1>15. QED
  BY <1>1, <1>2, <1>6, <1>7, <1>8, <1>9, <1>10, <1>11, <1>12, <1>13, <1>14
     DEF Step, RunStep, JobStep

\* What a browser takes from its socket.
LEMMA Received ==
  ASSUME DownOK, LogOK, RoomsOK, SnapsOK, Step, NEW u \in Users, down[u] # <<>>
  PROVE  /\ Head(down[u]).data \in SUBSET Shared
         /\ Head(down[u]).type = "ack" => Head(down[u]).data \in SUBSET accepted
<1>1. Head(down[u]) \in DownGood
  BY HeadTailProperties DEF DownOK
<1>2. QED
  BY <1>1, Grows DEF DownGood

LEMMA DocsStep ==
  ASSUME DownOK, RoomsOK, SnapsOK, LogOK, DocsOK, Step, env' = env
  PROVE  DocsOK'
<1>1. /\ doc \in [Users -> SUBSET Deltas] /\ live \in [Users -> Seq(SUBSET Shared)]
      /\ unsent \in [Users -> SUBSET Deltas] /\ authored \in [Users -> SUBSET Deltas]
      /\ refused \subseteq Deltas
      /\ \A u \in Users : doc[u] \subseteq authored[u] \cup Shared
      /\ \A u \in Users : authored[u] \subseteq unsent[u] \cup accepted \cup refused
  BY DEF DocsOK, UnsentKept
<1>2. /\ accepted \subseteq accepted' /\ Shared \subseteq Shared' /\ Shared \subseteq Deltas
      /\ \A s \in Seq(SUBSET Shared) : s \in Seq(SUBSET Shared')
  BY Grows, Stays
<1>3. ASSUME doc' \in [Users -> SUBSET Deltas], live' \in [Users -> Seq(SUBSET Shared)],
             unsent' \in [Users -> SUBSET Deltas], authored' \in [Users -> SUBSET Deltas],
             refused' \subseteq Deltas,
             \A u \in Users : doc'[u] \subseteq authored'[u] \cup Shared,
             \A u \in Users : authored'[u] \subseteq unsent'[u] \cup accepted \cup refused'
      PROVE  DocsOK'
  BY <1>2, <1>3 DEF DocsOK, UnsentKept
<1>4. ASSUME NEW u \in Users, NEW d \in Deltas, Edit(u, d)
      PROVE  DocsOK'
  <2>1. /\ authored' = [authored EXCEPT ![u] = authored[u] \cup {d}]
        /\ doc' = [doc EXCEPT ![u] = doc[u] \cup {d}]
        /\ UNCHANGED live
        /\ \/ refused' = refused \cup {d} /\ UNCHANGED unsent
           \/ unsent' = [unsent EXCEPT ![u] = unsent[u] \cup {d}] /\ UNCHANGED refused
    BY <1>1, <1>4 DEF Edit
  <2>2. /\ doc' \in [Users -> SUBSET Deltas] /\ authored' \in [Users -> SUBSET Deltas]
        /\ unsent' \in [Users -> SUBSET Deltas] /\ refused' \subseteq Deltas
    BY <1>1, <2>1
  <2>3. \A v \in Users : doc'[v] \subseteq authored'[v] \cup Shared
    BY <1>1, <2>1
  <2>4. \A v \in Users : authored'[v] \subseteq unsent'[v] \cup accepted \cup refused'
    BY <1>1, <2>1
  <2>5. QED
    BY <1>1, <1>3, <2>1, <2>2, <2>3, <2>4
<1>5. ASSUME NEW u \in Users, NEW d \in SUBSET Shared,
             doc' \in {doc, [doc EXCEPT ![u] = doc[u] \cup d]},
             live' \in {live, [live EXCEPT ![u] = <<>>], [live EXCEPT ![u] = Append(live[u], d)]},
             UNCHANGED <<unsent, authored, refused>>
      PROVE  DocsOK'
  <2>1. Append(live[u], d) \in Seq(SUBSET Shared) /\ <<>> \in Seq(SUBSET Shared)
    BY <1>1, AppendProperties
  <2>2. live' \in [Users -> Seq(SUBSET Shared)] /\ doc' \in [Users -> SUBSET Deltas]
    BY <1>1, <1>2, <1>5, <2>1
  <2>3. QED
    BY <1>1, <1>3, <1>5, <2>2
<1>6. ASSUME NEW u \in Users, RecvInit(u)
      PROVE  DocsOK'
  <2> DEFINE d == Head(down[u]).data \cup Union(live[u])
  <2>1. /\ doc' = [doc EXCEPT ![u] = doc[u] \cup d] /\ live' = [live EXCEPT ![u] = <<>>]
        /\ down[u] # <<>> /\ UNCHANGED <<unsent, authored, refused>>
    <3>1. doc' = [doc EXCEPT ![u] = doc[u] \cup Head(down[u]).data \cup Union(live[u])]
      BY <1>6 DEF RecvInit
    <3>2. doc[u] \cup Head(down[u]).data \cup Union(live[u]) = doc[u] \cup d
      OBVIOUS
    <3>3. QED
      BY <1>6, <3>1, <3>2 DEF RecvInit, Receiving, histVars
  <2>2. d \in SUBSET Shared
    BY <1>1, <2>1, Received, UnionIs
  <2>3. QED
    BY <1>5, <2>1, <2>2
<1>7. ASSUME NEW u \in Users, RecvUpdate(u)
      PROVE  DocsOK'
  <2>1. Head(down[u]).data \in SUBSET Shared
    BY <1>7, Received DEF RecvUpdate, Receiving
  <2>2. /\ doc' \in {doc, [doc EXCEPT ![u] = doc[u] \cup Head(down[u]).data]}
        /\ live' \in {live, [live EXCEPT ![u] = <<>>],
                      [live EXCEPT ![u] = Append(live[u], Head(down[u]).data)]}
        /\ UNCHANGED <<unsent, authored, refused>>
    BY <1>7 DEF RecvUpdate, Receiving, histVars
  <2>3. QED
    BY <1>5, <2>1, <2>2
<1>8. ASSUME NEW u \in Users, RecvAck(u)
      PROVE  DocsOK'
  <2>1. Head(down[u]).data \in SUBSET accepted
    BY <1>8, Received DEF RecvAck, Receiving
  <2>2. /\ unsent' = [unsent EXCEPT ![u] = unsent[u] \ Head(down[u]).data]
        /\ UNCHANGED <<doc, live, authored, refused>>
    BY <1>8 DEF RecvAck, Receiving, histVars
  <2>3. unsent' \in [Users -> SUBSET Deltas]
    BY <1>1, <2>2
  <2>4. \A v \in Users : authored[v] \subseteq unsent'[v] \cup accepted \cup refused
    BY <1>1, <2>1, <2>2
  <2>5. QED
    BY <1>1, <1>3, <2>2, <2>3, <2>4
<1>9. ASSUME NEW u \in Users, Evicted(u)
      PROVE  DocsOK'
  BY <1>5, <1>9 DEF Evicted, histVars
<1>10. ASSUME \/ \E u \in Users :
                   \/ \E r \in Replicas : Connect(u, r)
                   \/ Drop(u) \/ ConnectEffect(u) \/ SendSnapshot(u) \/ RecvSync(u)
                   \/ RecvFailed(u) \/ Read(u) \/ Limited(u)
              \/ \E r \in Replicas : RunStep(r) \/ Publish(r) \/ XAdd(r) \/ Commit(r)
              \/ \E j \in jobs : JobStep(j)
              \/ \E s \in snaps : SnapAdd(s) \/ SnapTrim(s) \/ SnapFails(s)
       PROVE  UNCHANGED <<doc, live, unsent, authored, refused>>
  BY <1>10 DEF Connect, Drop, ConnectEffect, SendSnapshot, RecvSync, RecvFailed, Receiving,
     Read, Limited, RunStep, Register, Unregister, Refuse, Enqueue, TakeRemote, TakeSnapshot,
     FanOut, Publish, XAdd, Commit, JobStep, GetPending, XRange, XRangeFails, CloseFailed,
     SendInit, SnapAdd, SnapTrim, SnapFails, browserVars, histVars
<1>11. QED
  BY <1>1, <1>3, <1>4, <1>6, <1>7, <1>8, <1>9, <1>10 DEF Step, Recv

-----------------------------------------------------------------------------
(* The replicas *)

LEMMA SnapsStep ==
  ASSUME RoomsOK, SnapsOK, LogOK, Step, env' = env
  PROVE  SnapsOK'
<1>1. /\ snaps \subseteq Snap /\ first \in Nat
      /\ "compaction" \notin env => snaps = {} /\ first = 1
  BY DEF SnapsOK
<1>2. ASSUME NEW r \in Replicas, TakeSnapshot(r)
      PROVE  SnapsOK'
  <2>1. Msg(r) \in UpGood \cup Remote /\ Msg(r).data \subseteq Deltas /\ Msg(r).type = "snapshot"
    BY <1>2, Handled DEF TakeSnapshot
  <2>2. "compaction" \in env
    BY <2>1 DEF UpGood, Remote, UpKinds
  <2>3. [pc |-> "xadd", data |-> Msg(r).data, id |-> 0] \in Snap
    BY <2>1 DEF Snap
  <2>4. QED
    BY <1>1, <1>2, <2>2, <2>3 DEF TakeSnapshot, redisVars, SnapsOK
<1>3. ASSUME NEW s \in snaps, SnapAdd(s)
      PROVE  SnapsOK'
  <2>1. Len(stream) + 1 \in Nat
    BY LenProperties DEF LogOK
  <2>2. [s EXCEPT !.pc = "xtrim", !.id = Len(stream) + 1] \in Snap
    BY <1>1, <2>1 DEF Snap
  <2>3. QED
    BY <1>1, <1>3, <2>2 DEF SnapAdd, SnapsOK
<1>4. ASSUME NEW s \in snaps, SnapTrim(s)
      PROVE  SnapsOK'
  <2>1. s.id \in Nat
    BY <1>1 DEF Snap
  <2>2. QED
    BY <1>1, <1>4, <2>1 DEF SnapTrim, SnapsOK
<1>5. ASSUME NEW s \in snaps, SnapFails(s)
      PROVE  SnapsOK'
  BY <1>1, <1>5 DEF SnapFails, redisVars, SnapsOK
<1>6. ASSUME \/ \E u \in Users :
                   \/ \E d \in Deltas : Edit(u, d)
                   \/ \E r \in Replicas : Connect(u, r)
                   \/ Drop(u) \/ Evicted(u) \/ ConnectEffect(u) \/ SendSnapshot(u)
                   \/ Recv(u) \/ Read(u) \/ Limited(u)
             \/ \E r \in Replicas :
                   \/ \E c \in joining[r] : Register(r, c)
                   \/ \E c \in members[r] : Unregister(r, c)
                   \/ Refuse(r) \/ Enqueue(r) \/ TakeRemote(r) \/ FanOut(r)
                   \/ Publish(r) \/ XAdd(r) \/ Commit(r)
             \/ \E j \in jobs : JobStep(j)
      PROVE  UNCHANGED <<snaps, first>>
  BY <1>6 DEF Edit, Connect, Drop, Evicted, ConnectEffect, SendSnapshot, Recv, RecvSync,
     RecvInit, RecvUpdate, RecvAck, RecvFailed, Receiving, Read, Limited, Register, Unregister,
     Refuse, Enqueue, TakeRemote, FanOut, Publish, XAdd, Commit, JobStep, GetPending, XRange,
     XRangeFails, CloseFailed, SendInit, roomVars, redisVars
<1>7. QED
  BY <1>1, <1>2, <1>3, <1>4, <1>5, <1>6 DEF Step, RunStep, SnapsOK

\* XRANGE returns what was added.
LEMMA StoredIs ==
  ASSUME LogOK
  PROVE  Stored \subseteq Union(stream) /\ (first = 1 => Stored = Union(stream))
<1>1. \A x : x \in Union(stream) <=> \E i \in 1..Len(stream) : x \in stream[i]
  BY UnionIs DEF LogOK
<1>2. Len(stream) \in Nat
  BY LenProperties DEF LogOK
<1>3. QED
  BY <1>1, <1>2 DEF Stored

LEMMA RoomsStep ==
  ASSUME SocksOK, UpOK, RoomsOK, SnapsOK, LogOK, Step, env' = env
  PROVE  RoomsOK'
<1>1. /\ joining \in [Replicas -> SUBSET Conns] /\ members \in [Replicas -> SUBSET Conns]
      /\ bcast \in [Replicas -> Seq(UpGood \cup Remote)]
      /\ fan \in [Replicas -> Seq(FanGood)]
      /\ pubQ \in [Replicas -> Seq(SUBSET accepted)]
      /\ jobs \subseteq JobGood
  BY DEF RoomsOK
<1>2. ASSUME joining' \in [Replicas -> SUBSET Conns], members' \in [Replicas -> SUBSET Conns],
             bcast' \in [Replicas -> Seq(UpGood \cup Remote)],
             fan' \in [Replicas -> Seq(FanGood)] \cup [Replicas -> Seq(FanGood')],
             pubQ' \in [Replicas -> Seq(SUBSET accepted)], jobs' \subseteq JobGood
      PROVE  RoomsOK'
  <2>1. /\ bcast' \in [Replicas -> Seq(UpGood' \cup Remote')]
        /\ fan' \in [Replicas -> Seq(FanGood')]
        /\ pubQ' \in [Replicas -> Seq(SUBSET accepted')]
        /\ jobs' \subseteq JobGood'
    BY <1>2, Stays
  <2>2. QED
    BY <1>2, <2>1 DEF RoomsOK
<1>3. ASSUME NEW u \in Users, NEW r \in Replicas, Connect(u, r)
      PROVE  RoomsOK'
  <2>1. <<u, conn[u] + 1>> \in Conns
    <3>1. conn[u] \in 0..MaxConns /\ conn[u] < MaxConns /\ MaxConns \in Nat
      BY <1>3, RoomAssumption DEF Connect, SocksOK, RoomAssumption
    <3>2. conn[u] + 1 \in 1..MaxConns
      BY <3>1
    <3>3. QED
      BY <3>2 DEF Conns
  <2>2. QED
    BY <1>1, <1>2, <1>3, <2>1 DEF Connect
<1>4. ASSUME NEW u \in Users, Read(u)
      PROVE  RoomsOK'
  <2>1. link[u] \in Replicas /\ Head(up[u]) \in UpGood
    BY <1>4, HeadTailProperties DEF Read, SocksOK, UpOK
  <2>2. /\ bcast' = [bcast EXCEPT ![link[u]] = Append(bcast[link[u]], Head(up[u]))]
        /\ UNCHANGED <<joining, members, fan, pubQ, jobs>>
    BY <1>4 DEF Read
  <2>3. Append(bcast[link[u]], Head(up[u])) \in Seq(UpGood \cup Remote)
    BY <1>1, <2>1, AppendProperties
  <2>4. QED
    BY <1>1, <1>2, <2>1, <2>2, <2>3
<1>5. ASSUME NEW r \in Replicas, NEW c \in joining[r], Register(r, c)
      PROVE  RoomsOK'
  <2>1. c \in Conns
    BY <1>1
  <2>2. [conn |-> c, at |-> r, pc |-> "pending", got |-> {}] \in JobGood
    BY <2>1 DEF JobGood
  <2>3. QED
    BY <1>1, <1>2, <1>5, <2>1, <2>2 DEF Register
<1>6. ASSUME NEW r \in Replicas, NEW c \in members[r], Unregister(r, c)
      PROVE  RoomsOK'
  BY <1>1, <1>2, <1>6 DEF Unregister
<1>7. ASSUME NEW r \in Replicas, Refuse(r) \/ TakeSnapshot(r)
      PROVE  RoomsOK'
  <2>1. Tail(bcast[r]) \in Seq(UpGood \cup Remote)
    BY <1>7, Handled DEF Refuse, TakeSnapshot
  <2>2. QED
    BY <1>1, <1>2, <1>7, <2>1 DEF Refuse, TakeSnapshot
<1>8. ASSUME NEW r \in Replicas, Enqueue(r)
      PROVE  RoomsOK'
  <2>1. /\ Msg(r) \in UpGood \cup Remote /\ Tail(bcast[r]) \in Seq(UpGood \cup Remote)
        /\ Msg(r).from # NoConn /\ Msg(r).type = "update"
    BY <1>8, Handled DEF Enqueue
  <2>2. Msg(r).data \subseteq accepted'
    BY <1>8 DEF Enqueue
  <2>3. Msg(r) \in FanGood'
    BY <2>1, <2>2 DEF UpGood, Remote, FanGood
  <2>4. <<Msg(r)>> \in Seq(FanGood')
    BY <2>3
  <2>5. \A q \in Replicas : fan[q] \in Seq(FanGood')
    BY <1>1, Stays
  <2>6. fan' \in [Replicas -> Seq(FanGood')]
    BY <1>1, <1>8, <2>4, <2>5 DEF Enqueue
  <2>7. /\ bcast' = [bcast EXCEPT ![r] = Tail(bcast[r])]
        /\ UNCHANGED <<joining, members, pubQ, jobs>>
    BY <1>8 DEF Enqueue
  <2>8. QED
    BY <1>1, <1>2, <2>1, <2>6, <2>7
<1>9. ASSUME NEW r \in Replicas, TakeRemote(r)
      PROVE  RoomsOK'
  <2>1. /\ Msg(r) \in UpGood \cup Remote /\ Tail(bcast[r]) \in Seq(UpGood \cup Remote)
        /\ Msg(r).from = NoConn
    BY <1>9, Handled DEF TakeRemote
  <2>2. Msg(r) \in Remote
    BY <2>1, ConnFacts DEF UpGood
  <2>3. Msg(r) \in FanGood
    BY <2>2 DEF Remote, FanGood
  <2>4. <<Msg(r)>> \in Seq(FanGood)
    BY <2>3
  <2>5. /\ bcast' = [bcast EXCEPT ![r] = Tail(bcast[r])]
        /\ fan' = [fan EXCEPT ![r] = <<Msg(r)>>]
        /\ UNCHANGED <<joining, members, pubQ, jobs>>
    BY <1>9 DEF TakeRemote
  <2>6. QED
    BY <1>1, <1>2, <2>1, <2>4, <2>5
<1>10. ASSUME NEW r \in Replicas, FanOut(r)
       PROVE  RoomsOK'
  <2>1. Head(fan[r]) \in FanGood
    BY <1>1, <1>10, HeadTailProperties DEF FanOut
  <2>2. Append(pubQ[r], Head(fan[r]).data) \in Seq(SUBSET accepted)
    <3>1. Head(fan[r]).data \in SUBSET accepted
      BY <2>1 DEF FanGood
    <3>2. QED
      BY <1>1, <3>1, AppendProperties
  <2>3. PICK M : members' = [members EXCEPT ![r] = members[r] \ M]
    BY <1>10 DEF FanOut
  <2>4. /\ UNCHANGED pubQ \/ pubQ' = [pubQ EXCEPT ![r] = Append(pubQ[r], Head(fan[r]).data)]
        /\ fan' = [fan EXCEPT ![r] = <<>>]
        /\ UNCHANGED <<joining, bcast, jobs>>
    BY <1>10 DEF FanOut
  <2>5. <<>> \in Seq(FanGood)
    OBVIOUS
  <2>6. QED
    BY <1>1, <1>2, <2>2, <2>3, <2>4, <2>5
<1>11. ASSUME NEW r \in Replicas, Publish(r)
       PROVE  RoomsOK'
  <2>1. Head(pubQ[r]) \in SUBSET accepted /\ Tail(pubQ[r]) \in Seq(SUBSET accepted)
    BY <1>1, <1>11, HeadTailProperties DEF Publish
  <2>2. Update(Head(pubQ[r]), NoConn) \in Remote
    BY <2>1 DEF Update, Remote
  <2>3. \A q \in Replicas :
          Append(bcast[q], Update(Head(pubQ[r]), NoConn)) \in Seq(UpGood \cup Remote)
    BY <1>1, <2>2, AppendProperties
  <2>4. bcast' \in [Replicas -> Seq(UpGood \cup Remote)]
    BY <1>1, <1>11, <2>3 DEF Publish
  <2>5. pubQ' = [pubQ EXCEPT ![r] = Tail(pubQ[r])] /\ UNCHANGED <<joining, members, fan, jobs>>
    BY <1>11 DEF Publish
  <2>6. QED
    BY <1>1, <1>2, <2>1, <2>4, <2>5
<1>12. ASSUME NEW j \in jobs, GetPending(j) \/ XRange(j) \/ XRangeFails(j)
       PROVE  RoomsOK'
  <2>1. j \in JobGood
    BY <1>1
  <2>2. /\ Union(pend[j.at]) \in SUBSET Shared /\ j.got \cup Stored \in SUBSET Shared
    BY <2>1, StoredIs DEF LogOK, Shared, JobGood
  <2>3. \A pc \in {"xrange", "send", "close"}, got \in SUBSET Shared :
          Moved(j, pc, got) \subseteq JobGood
    <3>1. ASSUME NEW pc \in {"xrange", "send", "close"}, NEW got \in SUBSET Shared
          PROVE  [j EXCEPT !.pc = pc, !.got = got] \in JobGood
      BY <2>1 DEF JobGood
    <3>2. QED
      BY <1>1, <3>1 DEF Moved
  <2>4. jobs' \subseteq JobGood
    BY <1>12, <2>2, <2>3 DEF GetPending, XRange, XRangeFails
  <2>5. UNCHANGED <<joining, members, bcast, fan, pubQ>>
    BY <1>12 DEF GetPending, XRange, XRangeFails
  <2>6. QED
    BY <1>1, <1>2, <2>4, <2>5
<1>13. ASSUME NEW j \in jobs, CloseFailed(j) \/ SendInit(j)
       PROVE  RoomsOK'
  <2>1. j.at \in Replicas
    BY <1>1 DEF JobGood
  <2>2. members' \in [Replicas -> SUBSET Conns] /\ jobs' \subseteq JobGood
        /\ UNCHANGED <<joining, bcast, fan, pubQ>>
    BY <1>1, <1>13, <2>1 DEF CloseFailed, SendInit
  <2>3. QED
    BY <1>1, <1>2, <2>2
<1>14. ASSUME \/ \E u \in Users :
                   \/ \E d \in Deltas : Edit(u, d)
                   \/ Drop(u) \/ Evicted(u) \/ ConnectEffect(u) \/ SendSnapshot(u)
                   \/ Recv(u) \/ Limited(u)
              \/ \E r \in Replicas : XAdd(r) \/ Commit(r)
              \/ \E s \in snaps : SnapAdd(s) \/ SnapTrim(s) \/ SnapFails(s)
       PROVE  UNCHANGED <<joining, members, bcast, fan, pubQ, jobs>>
  BY <1>14 DEF Edit, Drop, Evicted, ConnectEffect, SendSnapshot, Recv, RecvSync, RecvInit,
     RecvUpdate, RecvAck, RecvFailed, Receiving, Limited, XAdd, Commit, SnapAdd, SnapTrim,
     SnapFails, roomVars
<1>15. QED
  BY <1>1, <1>2, <1>3, <1>4, <1>5, <1>6, <1>7, <1>8, <1>9, <1>10, <1>11, <1>12, <1>13, <1>14
     DEF Step, RunStep, JobStep

-----------------------------------------------------------------------------
(* The theorems. *)

LEMMA InitInv == ASSUME Init PROVE IInv
<1>1. \A S : <<>> \in Seq(S)
  OBVIOUS
<1>2. SocksOK /\ UpOK /\ DownOK
  BY <1>1, RoomAssumption DEF Init, SocksOK, UpOK, DownOK, RoomAssumption
<1>3. RoomsOK /\ SnapsOK
  BY <1>1 DEF Init, RoomsOK, SnapsOK
<1>4. LogOK
  BY <1>1, UnionEmpty DEF Init, LogOK
<1>5. DocsOK
  BY <1>1 DEF Init, DocsOK, UnsentKept
<1>6. QED
  BY <1>2, <1>3, <1>4, <1>5 DEF IInv

LEMMA StutterInv == ASSUME IInv, UNCHANGED <<vars, env>> PROVE IInv'
<1>1. /\ UNCHANGED <<link, conn, closed, effect, status, doc, live, unsent>>
      /\ UNCHANGED <<up, down, joining, members, bcast, fan, pubQ, jobs, snaps>>
      /\ UNCHANGED <<pend, xadded, stream, first, authored, accepted, refused, overflowed, env>>
  BY DEF vars, browserVars, wireVars, roomVars, queueVars, redisVars, histVars
<1>2. SocksOK'
  BY <1>1 DEF IInv, SocksOK
<1>3. /\ UpGood' = UpGood /\ DownGood' = DownGood /\ Remote' = Remote /\ FanGood' = FanGood
      /\ JobGood' = JobGood /\ Shared' = Shared
  BY <1>1 DEF UpGood, UpKinds, DownGood, Remote, FanGood, JobGood, Shared
<1>4. UpOK' /\ DownOK'
  BY <1>1, <1>3 DEF IInv, UpOK, DownOK
<1>5. RoomsOK' /\ SnapsOK'
  BY <1>1, <1>3 DEF IInv, RoomsOK, SnapsOK
<1>6. LogOK' /\ DocsOK'
  BY <1>1, <1>3 DEF IInv, LogOK, DocsOK, UnsentKept
<1>7. QED
  BY <1>2, <1>4, <1>5, <1>6 DEF IInv

\* What travels between browsers, replicas and Redis is what was taken, or a
\* document that has been shared, in every behaviour.
THEOREM Invariance == Spec => []IInv
<1>1. Init => IInv
  BY InitInv
<1>2. ASSUME IInv, Next
      PROVE  IInv'
  <2>1. Step /\ env' = env
    BY <1>2 DEF Next
  <2>2. SocksOK' /\ UpOK' /\ DownOK' /\ RoomsOK'
    BY <1>2, <2>1, SocksStep, UpStep, DownStep, RoomsStep DEF IInv
  <2>3. SnapsOK' /\ LogOK' /\ DocsOK'
    BY <1>2, <2>1, SnapsStep, LogStep, DocsStep DEF IInv
  <2>4. QED
    BY <2>2, <2>3 DEF IInv
<1>3. IInv /\ [Next]_<<vars, env>> => IInv'
  BY <1>2, StutterInv
<1>4. QED
  BY <1>1, <1>3, PTL DEF Spec

LEMMA TypesAreOK == ASSUME IInv PROVE TypeOK
<1>1. /\ accepted \subseteq Deltas /\ Shared \subseteq Deltas
      /\ \A r \in Replicas : xadded[r] \in BOOLEAN
  BY UnionIs DEF IInv, LogOK, Shared
<1>2. /\ UpGood \subseteq UpMessage /\ Remote \subseteq UpMessage /\ FanGood \subseteq UpMessage
      /\ DownGood \subseteq DownMessage /\ JobGood \subseteq Job
      /\ SUBSET accepted \subseteq SUBSET Deltas /\ SUBSET Shared \subseteq SUBSET Deltas
  BY <1>1 DEF UpGood, UpKinds, UpMessage, Remote, FanGood, DownGood, DownMessage, JobGood, Job
<1>3. /\ up \in [Users -> Seq(UpMessage)] /\ down \in [Users -> Seq(DownMessage)]
      /\ live \in [Users -> Seq(SUBSET Deltas)]
  BY <1>2, SeqMonotonic DEF IInv, UpOK, DownOK, DocsOK
<1>4. /\ bcast \in [Replicas -> Seq(UpMessage)] /\ fan \in [Replicas -> Seq(UpMessage)]
      /\ pubQ \in [Replicas -> Seq(SUBSET Deltas)] /\ jobs \subseteq Job
  <2>1. UpGood \cup Remote \subseteq UpMessage
    BY <1>2
  <2>2. QED
    BY <1>2, <2>1, SeqMonotonic DEF IInv, RoomsOK
<1>5. QED
  BY <1>1, <1>3, <1>4 DEF IInv, SocksOK, RoomsOK, SnapsOK, LogOK, DocsOK, TypeOK

\* An edit is with its author until the server has taken it, and what another
\* browser shows was taken: handleBroadcast, handleAck, drainUnsentQueue.
THEOREM Edits == Spec => []EditsKept
<1>1. ASSUME IInv
      PROVE  EditsKept
  <2>1. \A u \in Users : Union(live[u]) \subseteq Shared
    BY <1>1, UnionIs DEF IInv, DocsOK
  <2>2. NoPhantom
    BY <1>1, <2>1 DEF IInv, DocsOK, NoPhantom, Shared
  <2>3. QED
    BY <1>1, <2>2, TypesAreOK DEF IInv, DocsOK, EditsKept
<1>2. IInv => EditsKept
  BY <1>1
<1>3. QED
  BY <1>2, Invariance, PTL

\* What Enqueue has taken is in a save queue or in the stream, as long as
\* nothing is compacted.
THEOREM Durability == Spec => []AcceptedDurable
<1>1. ASSUME IInv
      PROVE  AcceptedDurable
  BY <1>1, StoredIs DEF IInv, SnapsOK, LogOK, AcceptedDurable
<1>2. IInv => AcceptedDurable
  BY <1>1
<1>3. QED
  BY <1>2, Invariance, PTL

-----------------------------------------------------------------------------
(* No gap: one replica, no compaction *)

Alone == {"replicas", "compaction"} \cap env = {}

(* What a browser has sent is in its document. *)

Honest == {m \in UpMessage : m.from # NoConn => m.data \subseteq doc[m.from[1]]}

Mine(u) ==
  {m \in UpMessage : m.from # NoConn /\ m.from[1] = u /\ m.data \subseteq doc[u]}

AuthorsOK ==
  /\ \A u \in Users : unsent[u] \subseteq doc[u] /\ up[u] \in Seq(Mine(u))
  /\ \A r \in Replicas : bcast[r] \in Seq(Honest) /\ fan[r] \in Seq(Honest)

\* Whatever happens, happens at Home.
HomeOnly ==
  /\ \A u \in Users : link[u] \in {Home, None}
  /\ \A r \in Replicas \ {Home} :
       /\ joining[r] = {} /\ members[r] = {}
       /\ bcast[r] = <<>> /\ fan[r] = <<>> /\ pend[r] = <<>>
  /\ \A r \in Replicas : pubQ[r] = <<>>
  /\ \A j \in jobs : j.at = Home

\* No number is used before its socket is opened, ...
Numbered ==
  /\ \A c \in joining[Home] \cup members[Home] : c[2] <= conn[c[1]]
  /\ \A j \in jobs : j.conn[2] <= conn[j.conn[1]]

\* ... a connection registers once, has one join goroutine, and is sent nothing
\* before.
OneJob ==
  /\ joining[Home] \cap members[Home] = {}
  /\ \A j \in jobs : j.conn \notin joining[Home]
  /\ \A j, k \in jobs : j.conn = k.conn => j = k
  /\ \A u \in Users : Me(u) \in joining[Home] => down[u] = <<>>

Has(u, type) == \E m \in Range(down[u]) : m.type = type

\* While its join goroutine runs, the browser is not synced, or does not yet
\* know that it has to be synced again.
Waiting ==
  \A u \in Users : \A j \in jobs :
    j.conn = Me(u) /\ link[u] # None =>
      ~Has(u, "init") /\ (Has(u, "sync") \/ status[u] # "SYNCED")

\* Delta x is in the document of the browser, or on its way there.
InHand(u, x) ==
  \/ x \in doc[u]
  \/ x \in Union(live[u])
  \/ \E m \in Range(down[u]) : m.type \in {"init", "update"} /\ x \in m.data
  \/ fan[Home] # <<>> /\ x \in Head(fan[Home]).data

\* The yjs.init that join goroutine j is preparing will hold delta x.
Covers(j, x) ==
  \/ j.pc \in {"pending", "close"}
  \/ j.pc = "xrange" /\ x \in j.got \cup Stored
  \/ j.pc = "send" /\ x \in j.got

\* The browser is in the room, and its live queue has not overflowed.
Inside(u) == link[u] # None /\ Me(u) \in members[Home] /\ ~overflowed[u]

\* What was taken is in the hands of whoever is in the room, or of the join
\* goroutine of his connection.
Told ==
  \A u \in Users : Inside(u) =>
    \A x \in accepted : InHand(u, x) \/ \E j \in jobs : j.conn = Me(u) /\ Covers(j, x)

GapInv == AuthorsOK /\ (Alone => HomeOnly /\ Numbered /\ OneJob /\ Waiting /\ Told)

-----------------------------------------------------------------------------
(* What a sequence holds *)

LEMMA RangeEmpty == Range(<<>>) = {}
BY DEF Range

LEMMA RangeAppend ==
  ASSUME NEW S, NEW s \in Seq(S), NEW m \in S
  PROVE  Range(Append(s, m)) = Range(s) \cup {m}
<1>1. /\ Append(s, m) \in Seq(S) /\ Len(s) \in Nat
      /\ Len(Append(s, m)) = Len(s) + 1
      /\ \A i \in 1..Len(s) : Append(s, m)[i] = s[i]
      /\ Append(s, m)[Len(s) + 1] = m
  BY AppendProperties, LenProperties
<1>2. /\ Range(Append(s, m)) = {Append(s, m)[i] : i \in 1..(Len(s) + 1)}
      /\ Range(s) = {s[i] : i \in 1..Len(s)}
  BY <1>1, RangeEquality
<1>3. \A i \in 1..(Len(s) + 1) : i \in 1..Len(s) \/ i = Len(s) + 1
  BY <1>1
<1>4. Len(s) + 1 \in 1..(Len(s) + 1) /\ \A i \in 1..Len(s) : i \in 1..(Len(s) + 1)
  BY <1>1
<1>5. ASSUME NEW x
      PROVE  x \in Range(Append(s, m)) <=> x \in Range(s) \cup {m}
  BY <1>1, <1>2, <1>3, <1>4
<1>6. QED
  BY <1>5

LEMMA RangeTail ==
  ASSUME NEW S, NEW s \in Seq(S), s # <<>>
  PROVE  Range(s) = Range(Tail(s)) \cup {Head(s)}
<1>1. /\ Tail(s) \in Seq(S) /\ Len(s) \in Nat \ {0} /\ Len(Tail(s)) = Len(s) - 1
      /\ \A i \in 1..Len(Tail(s)) : Tail(s)[i] = s[i + 1]
      /\ Head(s) = s[1]
  BY HeadTailProperties, EmptySeq
<1>2. /\ \A x : x \in Range(Tail(s)) <=> \E i \in 1..(Len(s) - 1) : x = s[i + 1]
      /\ \A x : x \in Range(s) <=> \E i \in 1..Len(s) : x = s[i]
  <2>1. /\ Range(Tail(s)) = {Tail(s)[i] : i \in 1..Len(Tail(s))}
        /\ Range(s) = {s[i] : i \in 1..Len(s)}
    BY <1>1, RangeEquality
  <2>2. \A x : x \in Range(s) <=> \E i \in 1..Len(s) : x = s[i]
    BY <2>1
  <2>3. \A x : x \in Range(Tail(s)) <=> \E i \in 1..Len(Tail(s)) : x = Tail(s)[i]
    BY <2>1
  <2>4. QED
    BY <1>1, <2>2, <2>3
<1>3. \A i \in 1..Len(s) : i = 1 \/ (i - 1 \in 1..(Len(s) - 1) /\ (i - 1) + 1 = i)
  BY <1>1
<1>4. 1 \in 1..Len(s) /\ \A i \in 1..(Len(s) - 1) : i + 1 \in 1..Len(s)
  BY <1>1
<1>5. ASSUME NEW x
      PROVE  x \in Range(s) <=> x \in Range(Tail(s)) \cup {Head(s)}
  <2>1. (\E i \in 1..Len(s) : x = s[i])
          <=> (x = s[1] \/ \E i \in 1..(Len(s) - 1) : x = s[i + 1])
    BY <1>3, <1>4
  <2>2. QED
    BY <1>1, <1>2, <2>1
<1>6. QED
  BY <1>5

-----------------------------------------------------------------------------
(* Documents and their authors *)

LEMMA DocGrows ==
  ASSUME DocsOK, Step, NEW u \in Users
  PROVE  doc[u] \subseteq doc'[u]
<1>1. doc \in [Users -> SUBSET Deltas]
  BY DEF DocsOK
<1>2. ASSUME NEW v \in Users, NEW d \in Deltas, Edit(v, d)
      PROVE  doc[u] \subseteq doc'[u]
  BY <1>1, <1>2 DEF Edit
<1>3. ASSUME NEW v \in Users, Recv(v)
      PROVE  doc[u] \subseteq doc'[u]
  BY <1>1, <1>3 DEF Recv, RecvSync, RecvInit, RecvUpdate, RecvAck, RecvFailed
<1>4. ASSUME \/ \E v \in Users :
                   \/ \E r \in Replicas : Connect(v, r)
                   \/ Drop(v) \/ Evicted(v) \/ ConnectEffect(v) \/ SendSnapshot(v)
                   \/ Read(v) \/ Limited(v)
             \/ \E r \in Replicas : RunStep(r) \/ Publish(r) \/ XAdd(r) \/ Commit(r)
             \/ \E j \in jobs : JobStep(j)
             \/ \E s \in snaps : SnapAdd(s) \/ SnapTrim(s) \/ SnapFails(s)
      PROVE  UNCHANGED doc
  BY <1>4 DEF Connect, Drop, Evicted, ConnectEffect, SendSnapshot, Read, Limited, RunStep,
     Register, Unregister, Refuse, Enqueue, TakeRemote, TakeSnapshot, FanOut, Publish, XAdd,
     Commit, JobStep, GetPending, XRange, XRangeFails, CloseFailed, SendInit, SnapAdd, SnapTrim,
     SnapFails, browserVars
<1>5. QED
  BY <1>1, <1>2, <1>3, <1>4 DEF Step

\* What was honest stays so.
LEMMA HonestGrows ==
  ASSUME DocsOK, Step
  PROVE  /\ Honest \subseteq Honest'
         /\ \A s \in Seq(Honest) : s \in Seq(Honest')
         /\ \A u \in Users : Mine(u) \subseteq Mine(u)' /\ Mine(u) \subseteq Honest
         /\ \A u \in Users : \A s \in Seq(Mine(u)) : s \in Seq(Mine(u)')
<1>1. \A m \in UpMessage : m.from # NoConn => m.from[1] \in Users
  BY ConnFacts DEF UpMessage
<1>2. Honest \subseteq Honest'
  BY <1>1, DocGrows DEF Honest
<1>3. \A u \in Users : Mine(u) \subseteq Mine(u)' /\ Mine(u) \subseteq Honest
  BY DocGrows DEF Mine, Honest
<1>4. QED
  BY <1>2, <1>3, SeqMonotonic

LEMMA AuthorsStep ==
  ASSUME IInv, AuthorsOK, Step, env' = env
  PROVE  AuthorsOK'
<1>1. /\ \A u \in Users : unsent[u] \subseteq doc[u] /\ doc[u] \subseteq doc'[u]
      /\ \A u \in Users : up[u] \in Seq(Mine(u)) /\ up[u] \in Seq(Mine(u)')
      /\ \A r \in Replicas : bcast[r] \in Seq(Honest) /\ bcast[r] \in Seq(Honest')
      /\ \A r \in Replicas : fan[r] \in Seq(Honest')
      /\ Honest \subseteq Honest'
      /\ \A u \in Users : Mine(u) \subseteq Mine(u)' /\ Mine(u) \subseteq Honest
  BY DocGrows, HonestGrows DEF AuthorsOK, IInv
<1>2. /\ doc \in [Users -> SUBSET Deltas] /\ unsent \in [Users -> SUBSET Deltas]
      /\ up \in [Users -> Seq(UpGood)]
      /\ bcast \in [Replicas -> Seq(UpGood \cup Remote)] /\ fan \in [Replicas -> Seq(FanGood)]
      /\ link \in [Users -> Replicas \cup {None}] /\ None \notin Replicas
      /\ accepted \subseteq Deltas
  BY RoomAssumption DEF IInv, DocsOK, UpOK, RoomsOK, SocksOK, LogOK, RoomAssumption
<1>3. ASSUME \A u \in Users : unsent'[u] \subseteq doc'[u],
             \A u \in Users : up'[u] \in Seq(Mine(u)'),
             \A r \in Replicas : bcast'[r] \in Seq(Honest'),
             \A r \in Replicas : fan'[r] \in Seq(Honest')
      PROVE  AuthorsOK'
  BY <1>3 DEF AuthorsOK
<1>4. ASSUME NEW u \in Users, link[u] # None, NEW d \in SUBSET Deltas, d \subseteq doc'[u],
             NEW t \in {"update", "snapshot"}
      PROVE  [type |-> t, data |-> d, from |-> Me(u)] \in Mine(u)'
  <2>1. Me(u) \in Conns /\ Me(u) # NoConn /\ Me(u)[1] = u
    BY <1>4, MeIsConn, ConnFacts DEF IInv, Me
  <2>2. [type |-> t, data |-> d, from |-> Me(u)] \in UpMessage
    BY <2>1 DEF UpMessage
  <2>3. QED
    BY <1>4, <2>1, <2>2 DEF Mine
<1>5. ASSUME NEW u \in Users, NEW m \in Mine(u)', up' = [up EXCEPT ![u] = Append(up[u], m)]
      PROVE  \A v \in Users : up'[v] \in Seq(Mine(v)')
  BY <1>1, <1>2, <1>5, AppendProperties
<1>6. ASSUME NEW u \in Users, NEW d \in Deltas, Edit(u, d)
      PROVE  AuthorsOK'
  <2>1. /\ doc' = [doc EXCEPT ![u] = doc[u] \cup {d}]
        /\ UNCHANGED <<bcast, fan>>
        /\ \/ UNCHANGED unsent
           \/ unsent' = [unsent EXCEPT ![u] = unsent[u] \cup {d}]
        /\ \/ UNCHANGED up
           \/ link[u] # None /\ up' = [up EXCEPT ![u] = Append(up[u], Update({d}, Me(u)))]
    BY <1>2, <1>6 DEF Edit, roomVars
  <2>2. \A v \in Users : unsent'[v] \subseteq doc'[v]
    BY <1>1, <1>2, <2>1
  <2>3. link[u] # None => Update({d}, Me(u)) \in Mine(u)'
    BY <1>2, <1>4, <2>1 DEF Update
  <2>4. \A v \in Users : up'[v] \in Seq(Mine(v)')
    BY <1>1, <1>5, <2>1, <2>3
  <2>5. QED
    BY <1>1, <1>3, <2>1, <2>2, <2>4
<1>7. ASSUME NEW u \in Users, RecvInit(u)
      PROVE  AuthorsOK'
  <2>1. UNCHANGED <<unsent, bcast, fan>> /\ link[u] # None
    BY <1>2, <1>7 DEF RecvInit, Receiving, roomVars, IInv, DownOK
  <2>2. PICK s \in Seq(Drained(u)) : up' = [up EXCEPT ![u] = up[u] \o s]
    BY <1>2, <1>7, DrainSends DEF RecvInit
  <2>3. Drained(u) \subseteq Mine(u)'
    <3>1. ASSUME NEW d \in SUBSET unsent[u]
          PROVE  Update(d, Me(u)) \in Mine(u)'
      <4>1. d \in SUBSET Deltas /\ d \subseteq doc'[u]
        BY <1>1, <1>2
      <4>2. QED
        BY <1>4, <2>1, <4>1 DEF Update
    <3>2. QED
      BY <3>1 DEF Drained
  <2>4. up[u] \o s \in Seq(Mine(u)')
    BY <1>1, <2>3, ConcatIn
  <2>5. \A v \in Users : up'[v] \in Seq(Mine(v)')
    BY <1>1, <1>2, <2>2, <2>4
  <2>6. QED
    BY <1>1, <1>3, <2>1, <2>5
<1>8. ASSUME NEW u \in Users, RecvAck(u)
      PROVE  AuthorsOK'
  <2>1. unsent' = [unsent EXCEPT ![u] = unsent[u] \ Head(down[u]).data]
        /\ UNCHANGED <<up, bcast, fan>>
    BY <1>2, <1>8 DEF RecvAck, Receiving, roomVars
  <2>2. \A v \in Users : unsent'[v] \subseteq doc'[v]
    BY <1>1, <1>2, <2>1
  <2>3. QED
    BY <1>1, <1>3, <2>1, <2>2
<1>9. ASSUME NEW u \in Users, SendSnapshot(u)
      PROVE  AuthorsOK'
  <2>1. /\ UNCHANGED <<unsent, bcast, fan>> /\ link[u] # None
        /\ up' = [up EXCEPT ![u] = Append(up[u], [type |-> "snapshot", data |-> doc[u],
                                                  from |-> Me(u)])]
    BY <1>2, <1>9 DEF SendSnapshot, browserVars, roomVars
  <2>2. [type |-> "snapshot", data |-> doc[u], from |-> Me(u)] \in Mine(u)'
    BY <1>1, <1>2, <1>4, <2>1
  <2>3. QED
    BY <1>1, <1>3, <1>5, <2>1, <2>2
<1>10. ASSUME NEW u \in Users, SocketGone(u), UNCHANGED <<unsent, bcast, fan>>
       PROVE  AuthorsOK'
  <2>1. up' = [up EXCEPT ![u] = <<>>]
    BY <1>10 DEF SocketGone
  <2>2. \A v \in Users : up'[v] \in Seq(Mine(v)')
    BY <1>1, <1>2, <2>1
  <2>3. QED
    BY <1>1, <1>3, <1>10, <2>2
<1>11. ASSUME NEW u \in Users, Drop(u) \/ Evicted(u)
       PROVE  AuthorsOK'
  BY <1>10, <1>11 DEF Drop, Evicted, roomVars
<1>12. ASSUME NEW j \in jobs, CloseFailed(j)
       PROVE  AuthorsOK'
  <2>1. j.conn[1] \in Users
    BY ConnFacts DEF IInv, RoomsOK, JobGood
  <2>2. UNCHANGED <<unsent, bcast, fan>> /\ (SocketGone(j.conn[1]) \/ UNCHANGED up)
    BY <1>12 DEF CloseFailed, wireVars
  <2>3. QED
    BY <1>1, <1>3, <1>10, <2>1, <2>2
<1>13. ASSUME NEW u \in Users, Read(u) \/ Limited(u)
       PROVE  AuthorsOK'
  <2>1. up[u] # <<>> /\ up' = [up EXCEPT ![u] = Tail(up[u])] /\ UNCHANGED <<unsent, fan>>
        /\ link[u] \in Replicas
        /\ \/ bcast' = [bcast EXCEPT ![link[u]] = Append(bcast[link[u]], Head(up[u]))]
           \/ UNCHANGED bcast
    BY <1>2, <1>13 DEF Read, Limited, browserVars, roomVars
  <2>2. Tail(up[u]) \in Seq(Mine(u)') /\ Head(up[u]) \in Mine(u)
    BY <1>1, <2>1, HeadTailProperties
  <2>3. \A v \in Users : up'[v] \in Seq(Mine(v)')
    BY <1>1, <1>2, <2>1, <2>2
  <2>4. Head(up[u]) \in Honest'
    BY <1>1, <2>2
  <2>5. \A r \in Replicas : bcast'[r] \in Seq(Honest')
    <3>1. Append(bcast[link[u]], Head(up[u])) \in Seq(Honest')
      BY <1>1, <2>1, <2>4, AppendProperties
    <3>2. QED
      BY <1>1, <1>2, <2>1, <3>1
  <2>6. QED
    BY <1>1, <1>3, <2>1, <2>3, <2>5
<1>14. ASSUME NEW r \in Replicas, Refuse(r) \/ Enqueue(r) \/ TakeRemote(r) \/ TakeSnapshot(r)
       PROVE  AuthorsOK'
  <2>1. bcast[r] # <<>> /\ bcast' = [bcast EXCEPT ![r] = Tail(bcast[r])]
        /\ UNCHANGED <<unsent, up>>
        /\ (UNCHANGED fan \/ fan' = [fan EXCEPT ![r] = <<Head(bcast[r])>>])
    BY <1>14 DEF Refuse, Enqueue, TakeRemote, TakeSnapshot, Msg, browserVars, wireVars
  <2>2. Tail(bcast[r]) \in Seq(Honest') /\ Head(bcast[r]) \in Honest'
    BY <1>1, <2>1, HeadTailProperties
  <2>3. <<Head(bcast[r])>> \in Seq(Honest')
    BY <2>2
  <2>4. \A q \in Replicas : bcast'[q] \in Seq(Honest') /\ fan'[q] \in Seq(Honest')
    BY <1>1, <1>2, <2>1, <2>2, <2>3
  <2>5. QED
    BY <1>1, <1>3, <2>1, <2>4
<1>15. ASSUME NEW r \in Replicas, FanOut(r)
       PROVE  AuthorsOK'
  <2>1. fan' = [fan EXCEPT ![r] = <<>>] /\ UNCHANGED <<unsent, up, bcast>>
    BY <1>15 DEF FanOut, browserVars
  <2>2. \A q \in Replicas : fan'[q] \in Seq(Honest')
    BY <1>1, <1>2, <2>1
  <2>3. QED
    BY <1>1, <1>3, <2>1, <2>2
<1>16. ASSUME NEW r \in Replicas, Publish(r)
       PROVE  AuthorsOK'
  <2>1. UNCHANGED <<unsent, up, fan>> /\ pubQ[r] # <<>>
    BY <1>16 DEF Publish, browserVars, wireVars
  <2>2. Head(pubQ[r]) \in SUBSET Deltas
    <3>1. Head(pubQ[r]) \in SUBSET accepted
      BY <2>1, HeadTailProperties DEF IInv, RoomsOK
    <3>2. QED
      BY <1>2, <3>1
  <2>3. Update(Head(pubQ[r]), NoConn) \in Honest'
    BY <2>2 DEF Update, Honest, UpMessage
  <2>4. \A q \in Replicas : bcast'[q] \in Seq(Honest')
    <3>1. ASSUME NEW q \in Replicas
          PROVE  /\ bcast[q] \in Seq(Honest')
                 /\ Append(bcast[q], Update(Head(pubQ[r]), NoConn)) \in Seq(Honest')
      BY <1>1, <2>3, AppendProperties
    <3>2. QED
      BY <1>16, <3>1 DEF Publish
  <2>5. QED
    BY <1>1, <1>3, <2>1, <2>4
<1>17. ASSUME \/ \E u \in Users :
                   \/ \E r \in Replicas : Connect(u, r)
                   \/ ConnectEffect(u) \/ RecvSync(u) \/ RecvUpdate(u) \/ RecvFailed(u)
              \/ \E r \in Replicas :
                   \/ \E c \in joining[r] : Register(r, c)
                   \/ \E c \in members[r] : Unregister(r, c)
                   \/ XAdd(r) \/ Commit(r)
              \/ \E j \in jobs : GetPending(j) \/ XRange(j) \/ XRangeFails(j) \/ SendInit(j)
              \/ \E s \in snaps : SnapAdd(s) \/ SnapTrim(s) \/ SnapFails(s)
       PROVE  UNCHANGED <<unsent, up, bcast, fan>>
  BY <1>17 DEF Connect, ConnectEffect, RecvSync, RecvUpdate, RecvFailed, Receiving, Register,
     Unregister, XAdd, Commit, GetPending, XRange, XRangeFails, SendInit, SnapAdd, SnapTrim,
     SnapFails, browserVars, wireVars, roomVars
<1>18. QED
  BY <1>1, <1>3, <1>6, <1>7, <1>8, <1>9, <1>11, <1>12, <1>13, <1>14, <1>15, <1>16, <1>17
     DEF Step, Recv, RunStep, JobStep

-----------------------------------------------------------------------------
(* The room, its connections and their join goroutines *)

\* A join goroutine is started by Register and keeps its connection.
LEMMA JobMoves ==
  ASSUME RoomsOK, Step
  PROVE  \/ jobs' \subseteq jobs
         \/ \E r \in Replicas : \E c \in joining[r] :
              /\ Register(r, c)
              /\ jobs' = jobs \cup {[conn |-> c, at |-> r, pc |-> "pending", got |-> {}]}
         \/ \E k \in jobs : \E n :
              /\ jobs' = (jobs \ {k}) \cup {n}
              /\ n.conn = k.conn /\ n.at = k.at
<1>1. \A k \in jobs : k = [conn |-> k.conn, at |-> k.at, pc |-> k.pc, got |-> k.got]
  BY DEF RoomsOK, JobGood
<1>2. ASSUME NEW k \in jobs, GetPending(k) \/ XRange(k) \/ XRangeFails(k)
      PROVE  \E n : /\ jobs' = (jobs \ {k}) \cup {n}
                                 /\ n.conn = k.conn /\ n.at = k.at
  <2>1. PICK pc, got : jobs' = Moved(k, pc, got)
    BY <1>2 DEF GetPending, XRange, XRangeFails
  <2> DEFINE n == [k EXCEPT !.pc = pc, !.got = got]
  <2>2. jobs' = (jobs \ {k}) \cup {n}
    BY <2>1 DEF Moved
  <2>3. n.conn = k.conn /\ n.at = k.at
    BY <1>1
  <2>4. QED
    BY <2>2, <2>3
<1>3. ASSUME NEW k \in jobs, CloseFailed(k) \/ SendInit(k)
      PROVE  jobs' \subseteq jobs
  BY <1>3 DEF CloseFailed, SendInit
<1>4. ASSUME NEW r \in Replicas, NEW c \in joining[r], Register(r, c)
      PROVE  jobs' = jobs \cup {[conn |-> c, at |-> r, pc |-> "pending", got |-> {}]}
  BY <1>4 DEF Register
<1>5. ASSUME \/ \E u \in Users :
                   \/ \E d \in Deltas : Edit(u, d)
                   \/ \E r \in Replicas : Connect(u, r)
                   \/ Drop(u) \/ Evicted(u) \/ ConnectEffect(u) \/ SendSnapshot(u)
                   \/ Recv(u) \/ Read(u) \/ Limited(u)
             \/ \E r \in Replicas :
                   \/ \E c \in members[r] : Unregister(r, c)
                   \/ Refuse(r) \/ Enqueue(r) \/ TakeRemote(r) \/ TakeSnapshot(r)
                   \/ FanOut(r) \/ Publish(r) \/ XAdd(r) \/ Commit(r)
             \/ \E s \in snaps : SnapAdd(s) \/ SnapTrim(s) \/ SnapFails(s)
      PROVE  UNCHANGED jobs
  BY <1>5 DEF Edit, Connect, Drop, Evicted, ConnectEffect, SendSnapshot, Recv, RecvSync,
     RecvInit, RecvUpdate, RecvAck, RecvFailed, Receiving, Read, Limited, Unregister, Refuse,
     Enqueue, TakeRemote, TakeSnapshot, FanOut, Publish, XAdd, Commit, SnapAdd, SnapTrim,
     SnapFails, roomVars
<1>6. QED
  BY <1>2, <1>3, <1>4, <1>5 DEF Step, RunStep, JobStep

\* Who enters and who leaves the room at Home.
LEMMA RoomMoves ==
  ASSUME RoomsOK, Alone, HomeOnly, Step
  PROVE  \/ joining' = joining /\ \A r \in Replicas : members'[r] \subseteq members[r]
         \/ \E u \in Users : /\ Connect(u, Home) /\ members' = members
                             /\ joining' = [joining EXCEPT ![Home] = joining[Home] \cup {<<u, conn[u] + 1>>}]
         \/ \E c \in joining[Home] :
              /\ Register(Home, c)
              /\ joining' = [joining EXCEPT ![Home] = joining[Home] \ {c}]
              /\ members' = [members EXCEPT ![Home] = {m \in members[Home] : m[1] # c[1]} \cup {c}]
<1>1. /\ joining \in [Replicas -> SUBSET Conns] /\ members \in [Replicas -> SUBSET Conns]
      /\ Home \in Replicas
      /\ \A r \in Replicas : joining[r] # {} => r = Home
  BY ConnFacts DEF RoomsOK, HomeOnly
<1>2. ASSUME NEW u \in Users, NEW r \in Replicas, Connect(u, r)
      PROVE  /\ Connect(u, Home) /\ members' = members
             /\ joining' = [joining EXCEPT ![Home] = joining[Home] \cup {<<u, conn[u] + 1>>}]
  <2>1. r = Home
    BY <1>2 DEF Connect, Serving, Alone
  <2>2. QED
    BY <1>1, <1>2, <2>1 DEF Connect
<1>3. ASSUME NEW r \in Replicas, NEW c \in joining[r], Register(r, c)
      PROVE  /\ r = Home /\ c \in joining[Home] /\ Register(Home, c)
             /\ joining' = [joining EXCEPT ![Home] = joining[Home] \ {c}]
             /\ members' = [members EXCEPT ![Home] = {m \in members[Home] : m[1] # c[1]} \cup {c}]
  <2>1. r = Home
    BY <1>1
  <2>2. QED
    BY <1>1, <1>3, <2>1 DEF Register
<1>4. ASSUME NEW r \in Replicas,
             (\E c \in members[r] : Unregister(r, c)) \/ FanOut(r)
      PROVE  joining' = joining /\ \A q \in Replicas : members'[q] \subseteq members[q]
  <2>1. PICK M : members' = [members EXCEPT ![r] = members[r] \ M]
    BY <1>4 DEF Unregister, FanOut
  <2>2. QED
    BY <1>1, <1>4, <2>1 DEF Unregister, FanOut
<1>5. ASSUME NEW j \in jobs, SendInit(j)
      PROVE  joining' = joining /\ \A q \in Replicas : members'[q] \subseteq members[q]
  BY <1>1, <1>5 DEF SendInit
<1>6. ASSUME \/ \E u \in Users :
                   \/ \E d \in Deltas : Edit(u, d)
                   \/ Drop(u) \/ Evicted(u) \/ ConnectEffect(u) \/ SendSnapshot(u)
                   \/ Recv(u) \/ Read(u) \/ Limited(u)
             \/ \E r \in Replicas :
                   \/ Refuse(r) \/ Enqueue(r) \/ TakeRemote(r) \/ TakeSnapshot(r)
                   \/ Publish(r) \/ XAdd(r) \/ Commit(r)
             \/ \E j \in jobs : GetPending(j) \/ XRange(j) \/ XRangeFails(j) \/ CloseFailed(j)
             \/ \E s \in snaps : SnapAdd(s) \/ SnapTrim(s) \/ SnapFails(s)
      PROVE  joining' = joining /\ members' = members
  BY <1>6 DEF Edit, Drop, Evicted, ConnectEffect, SendSnapshot, Recv, RecvSync, RecvInit,
     RecvUpdate, RecvAck, RecvFailed, Receiving, Read, Limited, Refuse, Enqueue, TakeRemote,
     TakeSnapshot, Publish, XAdd, Commit, GetPending, XRange, XRangeFails, CloseFailed, SnapAdd,
     SnapTrim, SnapFails, roomVars
<1>7. QED
  BY <1>2, <1>3, <1>4, <1>5, <1>6 DEF Step, RunStep, JobStep

\* What becomes of a socket.
LEMMA LinkMoves ==
  ASSUME IInv, Step, NEW u \in Users
  PROVE  \/ \E r \in Replicas : Connect(u, r)
         \/ /\ conn'[u] = conn[u] /\ link'[u] \in {link[u], None}
            /\ overflowed'[u] \in {overflowed[u], TRUE}
<1>1. /\ link \in [Users -> Replicas \cup {None}] /\ conn \in [Users -> 0..MaxConns]
      /\ overflowed \in [Users -> BOOLEAN]
  BY DEF IInv, SocksOK
<1>2. ASSUME NEW v \in Users, NEW r \in Replicas, Connect(v, r)
      PROVE  Connect(u, r) \/ UNCHANGED <<conn[u], link[u], overflowed[u]>>
  BY <1>1, <1>2 DEF Connect
<1>3. ASSUME NEW v \in Users, SocketGone(v), UNCHANGED <<conn, overflowed>>
      PROVE  conn'[u] = conn[u] /\ link'[u] \in {link[u], None} /\ overflowed'[u] = overflowed[u]
  BY <1>1, <1>3 DEF SocketGone
<1>4. ASSUME NEW v \in Users, Drop(v) \/ Evicted(v)
      PROVE  conn'[u] = conn[u] /\ link'[u] \in {link[u], None} /\ overflowed'[u] = overflowed[u]
  BY <1>3, <1>4 DEF Drop, Evicted, histVars
<1>5. ASSUME NEW j \in jobs, CloseFailed(j)
      PROVE  conn'[u] = conn[u] /\ link'[u] \in {link[u], None} /\ overflowed'[u] = overflowed[u]
  <2>1. j.conn[1] \in Users
    BY ConnFacts DEF IInv, RoomsOK, JobGood
  <2>2. UNCHANGED <<conn, overflowed>> /\ (SocketGone(j.conn[1]) \/ UNCHANGED link)
    BY <1>5 DEF CloseFailed, histVars
  <2>3. QED
    BY <1>3, <2>1, <2>2
<1>6. ASSUME NEW v \in Users, Recv(v)
      PROVE  UNCHANGED <<conn, link>> /\ overflowed'[u] \in {overflowed[u], TRUE}
  BY <1>1, <1>6 DEF Recv, RecvSync, RecvInit, RecvUpdate, RecvAck, RecvFailed, Receiving
<1>7. ASSUME \/ \E v \in Users :
                   \/ \E d \in Deltas : Edit(v, d)
                   \/ ConnectEffect(v) \/ SendSnapshot(v) \/ Read(v) \/ Limited(v)
             \/ \E r \in Replicas : RunStep(r) \/ Publish(r) \/ XAdd(r) \/ Commit(r)
             \/ \E j \in jobs : GetPending(j) \/ XRange(j) \/ XRangeFails(j) \/ SendInit(j)
             \/ \E s \in snaps : SnapAdd(s) \/ SnapTrim(s) \/ SnapFails(s)
      PROVE  UNCHANGED <<conn, link, overflowed>>
  BY <1>7 DEF Edit, ConnectEffect, SendSnapshot, Read, Limited, RunStep, Register, Unregister,
     Refuse, Enqueue, TakeRemote, TakeSnapshot, FanOut, Publish, XAdd, Commit, GetPending,
     XRange, XRangeFails, SendInit, SnapAdd, SnapTrim, SnapFails, browserVars, histVars
<1>8. QED
  BY <1>2, <1>4, <1>5, <1>6, <1>7 DEF Step, JobStep

LEMMA HomeStep ==
  ASSUME IInv, Alone, HomeOnly, Step, env' = env
  PROVE  HomeOnly'
<1>1. /\ \A u \in Users : link[u] \in {Home, None}
      /\ \A r \in Replicas : bcast[r] # <<>> \/ fan[r] # <<>> \/ pend[r] # <<>> => r = Home
      /\ \A r \in Replicas : pubQ[r] = <<>>
      /\ \A j \in jobs : j.at = Home
      /\ Serving = {Home} /\ Home \in Replicas /\ None \notin Replicas
  BY ConnFacts DEF HomeOnly, Alone, Serving
<1>2. /\ bcast \in [Replicas -> Seq(UpGood \cup Remote)] /\ fan \in [Replicas -> Seq(FanGood)]
      /\ pend \in [Replicas -> Seq(SUBSET Deltas)]
      /\ \A r \in Replicas : xadded[r] => pend[r] # <<>>
      /\ joining \in [Replicas -> SUBSET Conns] /\ members \in [Replicas -> SUBSET Conns]
  BY DEF IInv, RoomsOK, LogOK
<1>3. \A u \in Users : link'[u] \in {Home, None}
  <2>1. ASSUME NEW u \in Users, NEW r \in Replicas, Connect(u, r)
        PROVE  link'[u] = Home
    BY <1>1, <2>1 DEF Connect, IInv, SocksOK
  <2>2. QED
    BY <1>1, <2>1, LinkMoves
<1>4. \A r \in Replicas \ {Home} : joining'[r] = {} /\ members'[r] = {}
  <2>1. \A r \in Replicas \ {Home} : joining[r] = {} /\ members[r] = {}
    BY DEF HomeOnly
  <2>2. RoomsOK
    BY DEF IInv
  <2>3. QED
    BY <1>2, <2>1, <2>2, RoomMoves
<1>5. \A j \in jobs' : j.at = Home
  <2>1. ASSUME NEW r \in Replicas, NEW c \in joining[r]
        PROVE  r = Home
    BY <2>1 DEF HomeOnly
  <2>2. RoomsOK
    BY DEF IInv
  <2>3. QED
    BY <1>1, <2>1, <2>2, JobMoves
<1>6. /\ \A r \in Replicas \ {Home} : bcast'[r] = <<>> /\ fan'[r] = <<>> /\ pend'[r] = <<>>
      /\ \A r \in Replicas : pubQ'[r] = <<>>
  <2>1. \A r \in Replicas \ {Home} : bcast[r] = <<>> /\ fan[r] = <<>> /\ pend[r] = <<>>
    BY <1>1
  <2>2. ASSUME NEW u \in Users, Read(u)
        PROVE  /\ \A r \in Replicas \ {Home} : bcast'[r] = bcast[r]
               /\ UNCHANGED <<fan, pend, pubQ>>
    <3>1. link[u] = Home
      BY <1>1, <2>2 DEF Read
    <3>2. QED
      BY <1>2, <2>2, <3>1 DEF Read, queueVars
  <2>3. ASSUME NEW r \in Replicas, Refuse(r) \/ Enqueue(r) \/ TakeRemote(r) \/ TakeSnapshot(r)
        PROVE  /\ \A q \in Replicas \ {Home} :
                    bcast'[q] = bcast[q] /\ fan'[q] = fan[q] /\ pend'[q] = pend[q]
               /\ UNCHANGED pubQ
    <3>1. r = Home
      BY <1>1, <2>3 DEF Refuse, Enqueue, TakeRemote, TakeSnapshot
    <3>2. QED
      BY <1>2, <2>3, <3>1 DEF Refuse, Enqueue, TakeRemote, TakeSnapshot, queueVars
  <2>4. ASSUME NEW r \in Replicas, FanOut(r)
        PROVE  /\ \A q \in Replicas \ {Home} : fan'[q] = fan[q]
               /\ UNCHANGED <<bcast, pend, pubQ>>
    <3>1. r = Home
      BY <1>1, <2>4 DEF FanOut
    <3>2. QED
      BY <1>1, <1>2, <2>4, <3>1 DEF FanOut, queueVars
  <2>5. ASSUME NEW r \in Replicas, XAdd(r) \/ Commit(r)
        PROVE  /\ \A q \in Replicas \ {Home} : pend'[q] = pend[q]
               /\ UNCHANGED <<bcast, fan, pubQ>>
    <3>1. r = Home
      BY <1>1, <1>2, <2>5 DEF XAdd, Commit
    <3>2. QED
      BY <1>2, <2>5, <3>1 DEF XAdd, Commit, roomVars
  <2>6. ASSUME NEW r \in Replicas, Publish(r)
        PROVE  FALSE
    BY <1>1, <2>6 DEF Publish
  <2>7. ASSUME \/ \E u \in Users :
                     \/ \E d \in Deltas : Edit(u, d)
                     \/ \E r \in Replicas : Connect(u, r)
                     \/ Drop(u) \/ Evicted(u) \/ ConnectEffect(u) \/ SendSnapshot(u)
                     \/ Recv(u) \/ Limited(u)
               \/ \E r \in Replicas :
                     \/ \E c \in joining[r] : Register(r, c)
                     \/ \E c \in members[r] : Unregister(r, c)
               \/ \E j \in jobs : JobStep(j)
               \/ \E s \in snaps : SnapAdd(s) \/ SnapTrim(s) \/ SnapFails(s)
        PROVE  UNCHANGED <<bcast, fan, pend, pubQ>>
    BY <2>7 DEF Edit, Connect, Drop, Evicted, ConnectEffect, SendSnapshot, Recv, RecvSync,
       RecvInit, RecvUpdate, RecvAck, RecvFailed, Receiving, Limited, Register, Unregister,
       JobStep, GetPending, XRange, XRangeFails, CloseFailed, SendInit, SnapAdd, SnapTrim,
       SnapFails, roomVars, queueVars
  <2>8. QED
    BY <1>1, <2>1, <2>2, <2>3, <2>4, <2>5, <2>6, <2>7 DEF Step, RunStep
<1>7. QED
  BY <1>3, <1>4, <1>5, <1>6 DEF HomeOnly

LEMMA NumberedStep ==
  ASSUME IInv, Alone, HomeOnly, Numbered, Step
  PROVE  Numbered'
<1>1. /\ conn \in [Users -> 0..MaxConns] /\ MaxConns \in Nat /\ Home \in Replicas
      /\ joining \in [Replicas -> SUBSET Conns] /\ members \in [Replicas -> SUBSET Conns]
      /\ \A j \in jobs : j.conn \in Conns
      /\ \A c \in Conns : c[1] \in Users /\ c[2] \in Nat
  BY RoomAssumption, ConnFacts DEF IInv, SocksOK, RoomsOK, JobGood, RoomAssumption, Conns
<1>2. ASSUME NEW u \in Users
      PROVE  conn'[u] \in Int /\ conn[u] \in Int /\ conn[u] <= conn'[u]
  <2>1. conn[u] \in 0..MaxConns
    BY <1>1
  <2>2. conn[u] \in Nat
    BY <1>1, <2>1
  <2>3. ASSUME NEW r \in Replicas, Connect(u, r)
        PROVE  conn'[u] = conn[u] + 1
    <3>1. conn' = [conn EXCEPT ![u] = conn[u] + 1]
      BY <1>1, <2>3 DEF Connect
    <3>2. QED
      BY <1>1, <3>1
  <2>4. conn'[u] \in {conn[u], conn[u] + 1}
    BY <2>3, LinkMoves
  <2>5. QED
    BY <2>2, <2>4
<1>3. ASSUME NEW c \in Conns, c[2] <= conn[c[1]]
      PROVE  c[2] <= conn'[c[1]]
  BY <1>1, <1>2, <1>3
<1>4. RoomsOK
  BY DEF IInv
<1>5. ASSUME NEW c \in joining'[Home] \cup members'[Home]
      PROVE  c[2] <= conn'[c[1]]
  <2>1. CASE c \in joining[Home] \cup members[Home]
    BY <1>1, <1>3, <2>1 DEF Numbered
  <2>2. ASSUME NEW u \in Users, Connect(u, Home), c = <<u, conn[u] + 1>>
        PROVE  c[2] <= conn'[c[1]]
    <3>1. conn'[u] = conn[u] + 1
      <4>1. conn' = [conn EXCEPT ![u] = conn[u] + 1]
        BY <1>1, <2>2 DEF Connect
      <4>2. QED
        BY <1>1, <4>1
    <3>2. c[1] = u /\ c[2] = conn[u] + 1
      BY <2>2
    <3>3. QED
      BY <1>2, <3>1, <3>2
  <2>3. \/ c \in joining[Home] \cup members[Home]
        \/ \E u \in Users : Connect(u, Home) /\ c = <<u, conn[u] + 1>>
    BY <1>1, <1>4, <1>5, RoomMoves
  <2>4. QED
    BY <2>1, <2>2, <2>3
<1>6. ASSUME NEW j \in jobs'
      PROVE  j.conn[2] <= conn'[j.conn[1]]
  <2>1. \/ \E k \in jobs : j.conn = k.conn
        \/ \E r \in Replicas : j.conn \in joining[r]
    BY <1>4, <1>6, JobMoves
  <2>2. j.conn \in Conns /\ j.conn[2] <= conn[j.conn[1]]
    BY <1>1, <2>1 DEF Numbered, HomeOnly
  <2>3. QED
    BY <1>3, <2>2
<1>7. QED
  BY <1>5, <1>6 DEF Numbered

-----------------------------------------------------------------------------
(* What a browser is sent, and by which step *)

\* Client.Send reaches the connection if its socket is open and not full.
LEMMA Sent ==
  ASSUME DownOK, NEW c \in Conns, NEW r \in Replicas, NEW m, NEW u \in Users
  PROVE  SendTo(c, r, m)[u] = IF Me(u) = c /\ link[u] = r /\ ~Full(u)
                              THEN Append(down[u], m) ELSE down[u]
<1>1. c[1] \in Users /\ c = <<c[1], c[2]>> /\ down \in [Users -> Seq(DownGood)]
  BY ConnFacts DEF DownOK
<1>2. (Me(u) = c) <=> (u = c[1] /\ conn[u] = c[2])
  BY <1>1 DEF Me
<1>3. QED
  BY <1>1, <1>2 DEF SendTo, Live

\* The steps that send message m to u.
Sends(u, m) ==
  \/ Register(Home, Me(u)) /\ Me(u) \in joining[Home] /\ m.type = "sync"
  \/ \E j \in jobs : /\ j.conn = Me(u)
                     /\ \/ SendInit(j) /\ m = Down("init", j.got)
                        \/ XRangeFails(j) /\ m.type = "failed"
  \/ Refuse(Home) /\ Me(u) \in members[Home] /\ m.type = "failed"
  \/ FanOut(Home) /\ Me(u) \in members[Home] /\ m = Reply(Head(fan[Home]), Me(u))

LEMMA DownMoves ==
  ASSUME IInv, Alone, HomeOnly, Step, NEW u \in Users
  PROVE  \/ down'[u] = down[u]
         \/ link'[u] = None /\ down'[u] = <<>>
         \/ Recv(u) /\ down[u] # <<>> /\ down'[u] = Tail(down[u])
         \/ \E m \in DownGood :
              down'[u] = Append(down[u], m) /\ ~Full(u) /\ link[u] = Home /\ Sends(u, m)
<1>1. /\ down \in [Users -> Seq(DownGood)] /\ link \in [Users -> Replicas \cup {None}]
      /\ Home \in Replicas /\ DownOK /\ RoomsOK
      /\ joining \in [Replicas -> SUBSET Conns] /\ members \in [Replicas -> SUBSET Conns]
      /\ \A r \in Replicas : joining[r] # {} \/ bcast[r] # <<>> \/ fan[r] # <<>> => r = Home
      /\ \A j \in jobs : j.conn \in Conns /\ j.at = Home /\ j.got \in SUBSET Shared
  BY ConnFacts DEF IInv, DownOK, SocksOK, RoomsOK, JobGood, HomeOnly
<1>2. /\ Down("sync", {}) \in DownGood /\ Down("failed", {}) \in DownGood
      /\ \A d \in SUBSET Shared : Down("init", d) \in DownGood /\ Down("update", d) \in DownGood
      /\ \A d \in SUBSET accepted : Down("ack", d) \in DownGood
      /\ Down("sync", {}).type = "sync" /\ Down("failed", {}).type = "failed"
  BY DEF Down, DownGood
<1>3. ASSUME NEW c \in Conns, NEW m \in DownGood, down' = SendTo(c, Home, m),
             c = Me(u) => Sends(u, m)
      PROVE  \/ down'[u] = down[u]
             \/ down'[u] = Append(down[u], m) /\ ~Full(u) /\ link[u] = Home /\ Sends(u, m)
  <2>1. SendTo(c, Home, m)[u] = IF Me(u) = c /\ link[u] = Home /\ ~Full(u)
                                THEN Append(down[u], m) ELSE down[u]
    BY <1>1, Sent
  <2>2. QED
    BY <1>3, <2>1
<1>4. ASSUME NEW v \in Users, SocketGone(v)
      PROVE  down'[u] = down[u] \/ (link'[u] = None /\ down'[u] = <<>>)
  BY <1>1, <1>4 DEF SocketGone
<1>5. ASSUME NEW v \in Users, Drop(v) \/ Evicted(v)
      PROVE  down'[u] = down[u] \/ (link'[u] = None /\ down'[u] = <<>>)
  BY <1>4, <1>5 DEF Drop, Evicted
<1>6. ASSUME NEW j \in jobs, CloseFailed(j)
      PROVE  down'[u] = down[u] \/ (link'[u] = None /\ down'[u] = <<>>)
  <2>1. j.conn[1] \in Users
    BY <1>1, ConnFacts
  <2>2. SocketGone(j.conn[1]) \/ UNCHANGED down
    BY <1>6 DEF CloseFailed, wireVars
  <2>3. QED
    BY <1>4, <2>1, <2>2
<1>7. ASSUME NEW v \in Users, Recv(v)
      PROVE  \/ down'[u] = down[u]
             \/ Recv(u) /\ down[u] # <<>> /\ down'[u] = Tail(down[u])
  <2>1. down[v] # <<>> /\ down' = [down EXCEPT ![v] = Tail(down[v])]
    BY <1>1, <1>7 DEF Recv, RecvSync, RecvInit, RecvUpdate, RecvAck, RecvFailed, Receiving
  <2>2. QED
    BY <1>1, <1>7, <2>1
<1>8. ASSUME NEW r \in Replicas, NEW c \in joining[r], Register(r, c)
      PROVE  \/ down'[u] = down[u]
             \/ \E m \in DownGood :
                  down'[u] = Append(down[u], m) /\ ~Full(u) /\ link[u] = Home /\ Sends(u, m)
  <2>1. r = Home /\ c \in Conns
    BY <1>1
  <2>2. down' = SendTo(c, Home, Down("sync", {}))
    BY <1>8, <2>1 DEF Register
  <2>3. c = Me(u) => Sends(u, Down("sync", {}))
    BY <1>2, <1>8, <2>1 DEF Sends
  <2>4. QED
    BY <1>2, <1>3, <2>1, <2>2, <2>3
<1>9. ASSUME NEW j \in jobs, SendInit(j)
      PROVE  \/ down'[u] = down[u]
             \/ \E m \in DownGood :
                  down'[u] = Append(down[u], m) /\ ~Full(u) /\ link[u] = Home /\ Sends(u, m)
  <2>1. down' = SendTo(j.conn, Home, Down("init", j.got)) /\ Down("init", j.got) \in DownGood
    BY <1>1, <1>2, <1>9 DEF SendInit
  <2>2. j.conn = Me(u) => Sends(u, Down("init", j.got))
    BY <1>9 DEF Sends
  <2>3. QED
    BY <1>1, <1>3, <2>1, <2>2
<1>10. ASSUME NEW j \in jobs, XRangeFails(j)
       PROVE  \/ down'[u] = down[u]
              \/ \E m \in DownGood :
                   down'[u] = Append(down[u], m) /\ ~Full(u) /\ link[u] = Home /\ Sends(u, m)
  <2>1. down' = SendTo(j.conn, Home, Down("failed", {}))
    BY <1>1, <1>10 DEF XRangeFails
  <2>2. j.conn = Me(u) => Sends(u, Down("failed", {}))
    BY <1>2, <1>10 DEF Sends
  <2>3. QED
    BY <1>1, <1>2, <1>3, <2>1, <2>2
<1>11. ASSUME NEW r \in Replicas, Refuse(r)
       PROVE  \/ down'[u] = down[u]
              \/ \E m \in DownGood :
                   down'[u] = Append(down[u], m) /\ ~Full(u) /\ link[u] = Home /\ Sends(u, m)
  <2>1. r = Home
    BY <1>1, <1>11 DEF Refuse
  <2>2. CASE Msg(r).from \in members[r]
    <3>1. Msg(r).from \in Conns /\ down' = SendTo(Msg(r).from, Home, Down("failed", {}))
      BY <1>1, <1>11, <2>1, <2>2 DEF Refuse
    <3>2. Msg(r).from = Me(u) => Sends(u, Down("failed", {}))
      BY <1>2, <1>11, <2>1, <2>2 DEF Sends
    <3>3. QED
      BY <1>2, <1>3, <3>1, <3>2
  <2>3. QED
    BY <1>11, <2>2 DEF Refuse
<1>12. ASSUME NEW r \in Replicas, FanOut(r)
       PROVE  \/ down'[u] = down[u]
              \/ \E m \in DownGood :
                   down'[u] = Append(down[u], m) /\ ~Full(u) /\ link[u] = Home /\ Sends(u, m)
  <2>1. r = Home
    BY <1>1, <1>12 DEF FanOut
  <2>2. \/ down'[u] = down[u]
        \/ /\ Me(u) \in members[Home] /\ Live(Me(u), Home) /\ ~Full(u)
           /\ down'[u] = Append(down[u], Reply(Head(fan[Home]), Me(u)))
    BY <1>12, <2>1 DEF FanOut
  <2>3. Live(Me(u), Home) => link[u] = Home
    BY DEF Live, Me
  <2>4. Head(fan[Home]) \in FanGood
    BY <1>1, <1>12, <2>1, HeadTailProperties DEF FanOut, RoomsOK
  <2>5. Head(fan[Home]).data \in SUBSET accepted /\ Head(fan[Home]).data \in SUBSET Shared
    BY <2>4 DEF FanGood, Shared
  <2>6. Reply(Head(fan[Home]), Me(u)) \in DownGood
    BY <1>2, <2>5 DEF Reply
  <2>7. QED
    BY <1>12, <2>1, <2>2, <2>3, <2>6 DEF Sends
<1>13. ASSUME \/ \E v \in Users :
                   \/ \E d \in Deltas : Edit(v, d)
                   \/ \E r \in Replicas : Connect(v, r)
                   \/ ConnectEffect(v) \/ SendSnapshot(v) \/ Read(v) \/ Limited(v)
              \/ \E r \in Replicas :
                   \/ \E c \in members[r] : Unregister(r, c)
                   \/ Enqueue(r) \/ TakeRemote(r) \/ TakeSnapshot(r)
                   \/ Publish(r) \/ XAdd(r) \/ Commit(r)
              \/ \E j \in jobs : GetPending(j) \/ XRange(j)
              \/ \E s \in snaps : SnapAdd(s) \/ SnapTrim(s) \/ SnapFails(s)
       PROVE  UNCHANGED down
  BY <1>13 DEF Edit, Connect, ConnectEffect, SendSnapshot, Read, Limited, Unregister, Enqueue,
     TakeRemote, TakeSnapshot, Publish, XAdd, Commit, GetPending, XRange, SnapAdd, SnapTrim,
     SnapFails, wireVars
<1>14. QED
  <2>1. CASE \E v \in Users : Drop(v) \/ Evicted(v) \/ Recv(v)
    BY <1>5, <1>7, <2>1
  <2>2. CASE \E r \in Replicas : (\E c \in joining[r] : Register(r, c)) \/ Refuse(r) \/ FanOut(r)
    BY <1>8, <1>11, <1>12, <2>2
  <2>3. CASE \E j \in jobs : XRangeFails(j) \/ CloseFailed(j) \/ SendInit(j)
    BY <1>6, <1>9, <1>10, <2>3
  <2>4. QED
    BY <1>13, <2>1, <2>2, <2>3 DEF Step, RunStep, JobStep

-----------------------------------------------------------------------------
(* Registration and the wait for yjs.init *)

\* The number of a new socket is new.
LEMMA Fresh ==
  ASSUME IInv, Numbered, NEW u \in Users
  PROVE  /\ <<u, conn[u] + 1>> \notin members[Home]
         /\ \A j \in jobs : j.conn # <<u, conn[u] + 1>>
<1>1. conn[u] \in Nat
  BY RoomAssumption DEF IInv, SocksOK, RoomAssumption
<1>2. <<u, conn[u] + 1>>[2] > conn[<<u, conn[u] + 1>>[1]]
  BY <1>1
<1>3. ~(<<u, conn[u] + 1>>[2] <= conn[<<u, conn[u] + 1>>[1]])
  BY <1>1
<1>4. QED
  BY <1>3 DEF Numbered

LEMMA OneJobStep ==
  ASSUME IInv, Alone, HomeOnly, Numbered, OneJob, Step
  PROVE  OneJob'
<1>1. /\ joining \in [Replicas -> SUBSET Conns] /\ members \in [Replicas -> SUBSET Conns]
      /\ Home \in Replicas /\ RoomsOK
      /\ \A r \in Replicas : joining[r] # {} => r = Home
      /\ joining[Home] \cap members[Home] = {}
      /\ \A j \in jobs : j.conn \notin joining[Home]
      /\ \A j, k \in jobs : j.conn = k.conn => j = k
      /\ \A u \in Users : Me(u) \in joining[Home] => down[u] = <<>>
  BY ConnFacts DEF IInv, RoomsOK, HomeOnly, OneJob
<1>2. joining'[Home] \cap members'[Home] = {}
  <2>1. CASE joining' = joining /\ \A r \in Replicas : members'[r] \subseteq members[r]
    BY <1>1, <2>1
  <2>2. ASSUME NEW u \in Users, members' = members,
               joining' = [joining EXCEPT ![Home] = joining[Home] \cup {<<u, conn[u] + 1>>}]
        PROVE  joining'[Home] \cap members'[Home] = {}
    BY <1>1, <2>2, Fresh
  <2>3. ASSUME NEW c \in joining[Home],
               joining' = [joining EXCEPT ![Home] = joining[Home] \ {c}],
               members' = [members EXCEPT ![Home] = {m \in members[Home] : m[1] # c[1]} \cup {c}]
        PROVE  joining'[Home] \cap members'[Home] = {}
    BY <1>1, <2>3
  <2>4. QED
    BY <1>1, <2>1, <2>2, <2>3, RoomMoves
<1>3. \A k \in jobs : k.conn \notin joining'[Home]
  BY <1>1, Fresh, RoomMoves
<1>4. ASSUME NEW r \in Replicas, NEW c \in joining[r], Register(r, c)
      PROVE  c \notin joining'[Home]
  BY <1>1, <1>4 DEF Register
<1>5. \A j \in jobs' : j.conn \notin joining'[Home]
  BY <1>1, <1>3, <1>4, JobMoves
<1>6. \A j, k \in jobs' : j.conn = k.conn => j = k
  <2>1. CASE jobs' \subseteq jobs
    BY <1>1, <2>1
  <2>2. ASSUME NEW c \in joining[Home], NEW n, jobs' = jobs \cup {n}, n.conn = c
        PROVE  \A j, k \in jobs' : j.conn = k.conn => j = k
    BY <1>1, <2>2
  <2>3. ASSUME NEW i \in jobs, NEW n, jobs' = (jobs \ {i}) \cup {n}, n.conn = i.conn
        PROVE  \A j, k \in jobs' : j.conn = k.conn => j = k
    BY <1>1, <2>3
  <2>4. \/ jobs' \subseteq jobs
        \/ \E c \in joining[Home] : \E n : jobs' = jobs \cup {n} /\ n.conn = c
        \/ \E i \in jobs : \E n : jobs' = (jobs \ {i}) \cup {n} /\ n.conn = i.conn
    <3>1. \A c, r : [conn |-> c, at |-> r, pc |-> "pending", got |-> {}].conn = c
      OBVIOUS
    <3>2. QED
      BY <1>1, <3>1, JobMoves
  <2>5. QED
    BY <2>1, <2>2, <2>3, <2>4
<1>7. ASSUME NEW u \in Users, Me(u)' \in joining'[Home]
      PROVE  down'[u] = <<>>
  <2>1. ASSUME NEW r \in Replicas, Connect(u, r)
        PROVE  down'[u] = <<>>
    <3>1. link[u] = None /\ UNCHANGED down
      BY <2>1 DEF Connect, wireVars
    <3>2. QED
      BY <3>1 DEF IInv, DownOK
  <2>2. CASE conn'[u] = conn[u] /\ ~\E r \in Replicas : Connect(u, r)
    <3>1. Me(u)' = Me(u)
      BY <2>2 DEF Me
    <3>2. ASSUME NEW v \in Users, Connect(v, Home)
          PROVE  <<v, conn[v] + 1>> # Me(u)
      BY <1>1, <2>2, <3>2 DEF Me
    <3>3. Me(u) \in joining[Home]
      BY <1>1, <1>7, <3>1, <3>2, RoomMoves
    <3>4. down[u] = <<>>
      BY <1>1, <3>3
    <3>5. ~Register(Home, Me(u))
      BY <1>1, <1>7, <3>1, <3>3 DEF Register
    <3>6. ASSUME NEW m, Sends(u, m)
          PROVE  FALSE
      BY <1>1, <3>3, <3>5, <3>6 DEF Sends
    <3>7. QED
      BY <1>1, <3>4, <3>6, DownMoves
  <2>3. QED
    BY <2>1, <2>2, LinkMoves
<1>8. QED
  BY <1>2, <1>5, <1>6, <1>7 DEF OneJob

\* Only yjs.init makes a browser synced.
LEMMA StatusMoves ==
  ASSUME IInv, Step, NEW u \in Users, status'[u] = "SYNCED"
  PROVE  status[u] = "SYNCED" \/ RecvInit(u)
<1>1. status \in [Users -> {"DISCONNECTED", "INITIALIZING", "SYNCED", "ERROR"}]
  BY DEF IInv, SocksOK
<1>2. ASSUME NEW v \in Users, NEW d \in Deltas, Edit(v, d)
      PROVE  status[u] = "SYNCED"
  BY <1>1, <1>2 DEF Edit
<1>3. ASSUME NEW v \in Users, Evicted(v) \/ ConnectEffect(v)
      PROVE  status[u] = "SYNCED"
  BY <1>1, <1>3 DEF Evicted, ConnectEffect
<1>4. ASSUME NEW v \in Users, RecvSync(v) \/ RecvUpdate(v) \/ RecvAck(v) \/ RecvFailed(v)
      PROVE  status[u] = "SYNCED"
  BY <1>1, <1>4 DEF RecvSync, RecvUpdate, RecvAck, RecvFailed
<1>5. ASSUME NEW v \in Users, RecvInit(v)
      PROVE  status[u] = "SYNCED" \/ RecvInit(u)
  BY <1>1, <1>5 DEF RecvInit
<1>6. ASSUME \/ \E v \in Users :
                   \/ \E r \in Replicas : Connect(v, r)
                   \/ Drop(v) \/ SendSnapshot(v) \/ Read(v) \/ Limited(v)
             \/ \E r \in Replicas : RunStep(r) \/ Publish(r) \/ XAdd(r) \/ Commit(r)
             \/ \E j \in jobs : JobStep(j)
             \/ \E s \in snaps : SnapAdd(s) \/ SnapTrim(s) \/ SnapFails(s)
      PROVE  UNCHANGED status
  BY <1>6 DEF Connect, Drop, SendSnapshot, Read, Limited, RunStep, Register, Unregister, Refuse,
     Enqueue, TakeRemote, TakeSnapshot, FanOut, Publish, XAdd, Commit, JobStep, GetPending,
     XRange, XRangeFails, CloseFailed, SendInit, SnapAdd, SnapTrim, SnapFails, browserVars
<1>7. QED
  BY <1>2, <1>3, <1>4, <1>5, <1>6 DEF Step, Recv

LEMMA WaitingStep ==
  ASSUME IInv, Alone, HomeOnly, Numbered, OneJob, Waiting, Step, NEW u \in Users,
         NEW j \in jobs', j.conn = Me(u)', link'[u] # None
  PROVE  ~Has(u, "init")' /\ (Has(u, "sync")' \/ status'[u] # "SYNCED")
<1>1. /\ RoomsOK /\ DownOK /\ SocksOK /\ Home \in Replicas
      /\ \A r \in Replicas : joining[r] # {} => r = Home
      /\ down \in [Users -> Seq(DownGood)] /\ down[u] \in Seq(DownGood)
      /\ status \in [Users -> {"DISCONNECTED", "INITIALIZING", "SYNCED", "ERROR"}]
      /\ conn \in [Users -> 0..MaxConns] /\ link[u] \in {Home, None}
  BY ConnFacts DEF IInv, HomeOnly, DownOK, SocksOK
<1>2. ASSUME NEW r \in Replicas, Connect(u, r)
      PROVE  FALSE
  <2>1. UNCHANGED jobs /\ conn'[u] = conn[u] + 1
    BY <1>1, <1>2 DEF Connect
  <2>2. Me(u)' = <<u, conn[u] + 1>>
    BY <2>1 DEF Me
  <2>3. QED
    BY <2>1, <2>2, Fresh
<1>3. Me(u)' = Me(u) /\ link[u] = Home /\ link'[u] = Home
  BY <1>1, <1>2, LinkMoves DEF Me
<1>4. ASSUME Register(Home, Me(u)), Me(u) \in joining[Home]
      PROVE  ~Has(u, "init")' /\ Has(u, "sync")'
  <2>1. down[u] = <<>> /\ Me(u) \in Conns
    BY <1>1, <1>3, <1>4, MeIsConn, ConnFacts DEF OneJob
  <2>2. ~Full(u)
    BY <2>1, RoomAssumption DEF Full, RoomAssumption
  <2>3. SendTo(Me(u), Home, Down("sync", {}))[u] = Append(down[u], Down("sync", {}))
    BY <1>1, <1>3, <2>1, <2>2, Sent
  <2>4. down' = SendTo(Me(u), Home, Down("sync", {}))
    BY <1>4 DEF Register
  <2>5. down'[u] = Append(down[u], Down("sync", {}))
    BY <2>3, <2>4
  <2>6. Down("sync", {}) \in DownGood /\ Down("sync", {}).type = "sync"
    BY DEF Down, DownGood
  <2>7. Range(Append(down[u], Down("sync", {}))) = Range(down[u]) \cup {Down("sync", {})}
    BY <1>1, <2>6, RangeAppend
  <2>8. Range(down'[u]) = {Down("sync", {})}
    BY <2>1, <2>5, <2>7, RangeEmpty
  <2>9. QED
    BY <2>6, <2>8 DEF Has
<1>5. ASSUME NEW k \in jobs, k.conn = Me(u)
      PROVE  ~Has(u, "init")' /\ (Has(u, "sync")' \/ status'[u] # "SYNCED")
  <2>1. ~Has(u, "init") /\ (Has(u, "sync") \/ status[u] # "SYNCED")
    BY <1>1, <1>3, <1>5, ConnFacts DEF Waiting
  <2>2. ASSUME down[u] # <<>>
        PROVE  Range(down[u]) = Range(Tail(down[u])) \cup {Head(down[u])}
    BY <1>1, <2>2, RangeTail
  <2>3. ~RecvInit(u)
    BY <2>1, <2>2 DEF RecvInit, Receiving, Has
  <2>4. status[u] # "SYNCED" => status'[u] # "SYNCED"
    BY <2>3, StatusMoves
  <2>5. CASE down'[u] = down[u]
    BY <2>1, <2>4, <2>5 DEF Has
  <2>6. CASE Recv(u) /\ down[u] # <<>> /\ down'[u] = Tail(down[u])
    <3>1. Range(down[u]) = Range(down'[u]) \cup {Head(down[u])}
      BY <2>2, <2>6
    <3>2. ~Has(u, "init")'
      BY <2>1, <3>1 DEF Has
    <3>3. CASE Head(down[u]).type = "sync"
      <4>1. RecvSync(u)
        BY <2>3, <2>6, <3>3 DEF Recv, RecvUpdate, RecvAck, RecvFailed, Receiving
      <4>2. status'[u] = "INITIALIZING"
        BY <1>1, <4>1 DEF RecvSync
      <4>3. QED
        BY <3>2, <4>2
    <3>4. CASE Head(down[u]).type # "sync"
      <4>1. Has(u, "sync") => Has(u, "sync")'
        BY <3>1, <3>4 DEF Has
      <4>2. QED
        BY <2>1, <2>4, <3>2, <4>1
    <3>5. QED
      BY <3>3, <3>4
  <2>7. ASSUME NEW m \in DownGood, down'[u] = Append(down[u], m), Sends(u, m)
        PROVE  ~Has(u, "init")' /\ (Has(u, "sync")' \/ status'[u] # "SYNCED")
    <3>1. Range(Append(down[u], m)) = Range(down[u]) \cup {m}
      BY <1>1, RangeAppend
    <3>2. Range(down'[u]) = Range(down[u]) \cup {m}
      BY <2>7, <3>1
    <3>3. ASSUME NEW i \in jobs, i.conn = Me(u), SendInit(i)
          PROVE  FALSE
      <4>1. jobs' = jobs \ {i}
        BY <3>3 DEF SendInit
      <4>2. j \in jobs /\ j.conn = i.conn /\ j # i
        BY <1>3, <3>3, <4>1
      <4>3. QED
        BY <4>2 DEF OneJob
    <3>4. m.type # "init"
      BY <2>7, <3>3 DEF Sends, Reply, Down
    <3>5. QED
      BY <2>1, <2>4, <3>2, <3>4 DEF Has
  <2>8. QED
    BY <1>3, <2>5, <2>6, <2>7, DownMoves, ConnFacts
<1>6. \/ \E k \in jobs : k.conn = Me(u)
      \/ Register(Home, Me(u)) /\ Me(u) \in joining[Home]
  <2>1. \A c, r : [conn |-> c, at |-> r, pc |-> "pending", got |-> {}].conn = c
    OBVIOUS
  <2>2. \/ \E k \in jobs : k.conn = j.conn
        \/ \E r \in Replicas : \E c \in joining[r] : Register(r, c) /\ c = j.conn
    BY <1>1, <2>1, JobMoves
  <2>3. QED
    BY <1>1, <1>3, <2>2
<1>7. QED
  BY <1>4, <1>5, <1>6

\* Whoever is in the room after a step was there before it, or has just
\* registered.
LEMMA InsideMoves ==
  ASSUME IInv, Alone, HomeOnly, Numbered, Step, NEW u \in Users, Inside(u)'
  PROVE  /\ Me(u)' = Me(u) /\ link[u] = Home /\ link'[u] = Home
         /\ \/ Inside(u)
            \/ Register(Home, Me(u)) /\ Me(u) \in joining[Home]
<1>1. /\ RoomsOK /\ Home \in Replicas
      /\ joining \in [Replicas -> SUBSET Conns] /\ members \in [Replicas -> SUBSET Conns]
      /\ conn \in [Users -> 0..MaxConns] /\ link[u] \in {Home, None}
      /\ overflowed \in [Users -> BOOLEAN]
      /\ link'[u] # None /\ Me(u)' \in members'[Home] /\ ~overflowed'[u]
  BY ConnFacts DEF IInv, RoomsOK, HomeOnly, SocksOK, Inside
<1>2. ASSUME NEW r \in Replicas, Connect(u, r)
      PROVE  FALSE
  <2>1. UNCHANGED members /\ conn'[u] = conn[u] + 1
    BY <1>1, <1>2 DEF Connect
  <2>2. Me(u)' = <<u, conn[u] + 1>>
    BY <2>1 DEF Me
  <2>3. QED
    BY <1>1, <2>1, <2>2, Fresh
<1>3. Me(u)' = Me(u) /\ link[u] = Home /\ link'[u] = Home /\ ~overflowed[u]
  BY <1>1, <1>2, LinkMoves DEF Me
<1>4. \/ Me(u) \in members[Home]
      \/ Register(Home, Me(u)) /\ Me(u) \in joining[Home]
  BY <1>1, <1>3, RoomMoves
<1>5. QED
  BY <1>3, <1>4, ConnFacts DEF Inside

-----------------------------------------------------------------------------
(* What a browser in the room holds, it keeps *)

\* The live queue is applied, grows, or is lost with the socket or by overflow.
LEMMA LiveMoves ==
  ASSUME IInv, Step, NEW u \in Users
  PROVE  \/ live'[u] = live[u]
         \/ link'[u] = None \/ overflowed'[u]
         \/ Union(live[u]) \subseteq doc'[u]
         \/ live'[u] = Append(live[u], Head(down[u]).data) /\ RecvUpdate(u)
<1>1. /\ live \in [Users -> Seq(SUBSET Shared)] /\ link \in [Users -> Replicas \cup {None}]
      /\ doc \in [Users -> SUBSET Deltas] /\ overflowed \in [Users -> BOOLEAN]
  BY DEF IInv, DocsOK, SocksOK
<1>2. ASSUME NEW v \in Users, Evicted(v)
      PROVE  live'[u] = live[u] \/ link'[u] = None
  BY <1>1, <1>2 DEF Evicted, SocketGone
<1>3. ASSUME NEW v \in Users, RecvInit(v)
      PROVE  live'[u] = live[u] \/ Union(live[u]) \subseteq doc'[u]
  <2>1. /\ doc' = [doc EXCEPT ![v] = doc[v] \cup Head(down[v]).data \cup Union(live[v])]
        /\ live' = [live EXCEPT ![v] = <<>>]
    BY <1>1, <1>3 DEF RecvInit
  <2>2. QED
    BY <1>1, <2>1
<1>4. ASSUME NEW v \in Users, RecvUpdate(v)
      PROVE  \/ live'[u] = live[u] \/ overflowed'[u]
             \/ live'[u] = Append(live[u], Head(down[u]).data) /\ RecvUpdate(u)
  <2>1. \/ UNCHANGED live
        \/ /\ live' = [live EXCEPT ![v] = <<>>]
           /\ overflowed' = [overflowed EXCEPT ![v] = TRUE]
        \/ live' = [live EXCEPT ![v] = Append(live[v], Head(down[v]).data)]
    BY <1>1, <1>4 DEF RecvUpdate
  <2>2. QED
    BY <1>1, <1>4, <2>1
<1>5. ASSUME \/ \E v \in Users :
                   \/ \E d \in Deltas : Edit(v, d)
                   \/ \E r \in Replicas : Connect(v, r)
                   \/ Drop(v) \/ ConnectEffect(v) \/ SendSnapshot(v) \/ RecvSync(v)
                   \/ RecvAck(v) \/ RecvFailed(v) \/ Read(v) \/ Limited(v)
             \/ \E r \in Replicas : RunStep(r) \/ Publish(r) \/ XAdd(r) \/ Commit(r)
             \/ \E j \in jobs : JobStep(j)
             \/ \E s \in snaps : SnapAdd(s) \/ SnapTrim(s) \/ SnapFails(s)
      PROVE  UNCHANGED live
  BY <1>5 DEF Edit, Connect, Drop, ConnectEffect, SendSnapshot, RecvSync, RecvAck, RecvFailed,
     Read, Limited, RunStep, Register, Unregister, Refuse, Enqueue, TakeRemote, TakeSnapshot,
     FanOut, Publish, XAdd, Commit, JobStep, GetPending, XRange, XRangeFails, CloseFailed,
     SendInit, SnapAdd, SnapTrim, SnapFails, browserVars
<1>6. QED
  BY <1>2, <1>3, <1>4, <1>5 DEF Step, Recv

\* A history or an update that is received is applied, or queued.
LEMMA Taken ==
  ASSUME IInv, Step, NEW u \in Users, Recv(u), ~overflowed'[u], down[u] # <<>>,
         Head(down[u]).type \in {"init", "update"}, NEW x \in Head(down[u]).data
  PROVE  x \in doc'[u] \/ x \in Union(live'[u])
<1>1. /\ live \in [Users -> Seq(SUBSET Shared)] /\ doc \in [Users -> SUBSET Deltas]
      /\ overflowed \in [Users -> BOOLEAN] /\ Head(down[u]).data \in SUBSET Shared
  BY Received DEF IInv, DocsOK, SocksOK
<1>2. Union(Append(live[u], Head(down[u]).data)) = Union(live[u]) \cup Head(down[u]).data
  <2> DEFINE d == Head(down[u]).data
             S == Shared
  <2>1. live[u] \in Seq(SUBSET S) /\ d \in SUBSET S
    BY <1>1
  <2> HIDE DEF d, S
  <2>2. Union(Append(live[u], d)) = Union(live[u]) \cup d
    BY <2>1, UnionAppend
  <2>3. QED
    BY <2>2 DEF d
<1>3. CASE RecvInit(u)
  BY <1>1, <1>3 DEF RecvInit
<1>4. CASE RecvUpdate(u)
  <2>1. \/ doc' = [doc EXCEPT ![u] = doc[u] \cup Head(down[u]).data]
        \/ overflowed' = [overflowed EXCEPT ![u] = TRUE]
        \/ live' = [live EXCEPT ![u] = Append(live[u], Head(down[u]).data)]
    BY <1>1, <1>4 DEF RecvUpdate
  <2>2. QED
    BY <1>1, <1>2, <2>1
<1>5. QED
  BY <1>3, <1>4 DEF Recv, RecvSync, RecvAck, RecvFailed, Receiving

\* Run fans an update out before it takes the next one.
LEMMA FanMoves ==
  ASSUME IInv, Step, fan[Home] # <<>>
  PROVE  fan'[Home] = fan[Home] \/ FanOut(Home)
<1>1. fan \in [Replicas -> Seq(FanGood)] /\ Home \in Replicas
  BY ConnFacts DEF IInv, RoomsOK
<1>2. ASSUME NEW r \in Replicas, Enqueue(r) \/ TakeRemote(r) \/ FanOut(r)
      PROVE  fan'[Home] = fan[Home] \/ FanOut(Home)
  <2>1. r # Home \/ FanOut(r)
    BY <1>2 DEF Enqueue, TakeRemote
  <2>2. r # Home => fan'[Home] = fan[Home]
    BY <1>1, <1>2 DEF Enqueue, TakeRemote, FanOut
  <2>3. QED
    BY <2>1, <2>2
<1>3. ASSUME \/ \E v \in Users :
                   \/ \E d \in Deltas : Edit(v, d)
                   \/ \E r \in Replicas : Connect(v, r)
                   \/ Drop(v) \/ Evicted(v) \/ ConnectEffect(v) \/ SendSnapshot(v)
                   \/ Recv(v) \/ Read(v) \/ Limited(v)
             \/ \E r \in Replicas :
                   \/ \E c \in joining[r] : Register(r, c)
                   \/ \E c \in members[r] : Unregister(r, c)
                   \/ Refuse(r) \/ TakeSnapshot(r) \/ Publish(r) \/ XAdd(r) \/ Commit(r)
             \/ \E j \in jobs : JobStep(j)
             \/ \E s \in snaps : SnapAdd(s) \/ SnapTrim(s) \/ SnapFails(s)
      PROVE  UNCHANGED fan
  <2>1. ASSUME NEW v \in Users, Recv(v)
        PROVE  UNCHANGED fan
    BY <2>1 DEF Recv, RecvSync, RecvInit, RecvUpdate, RecvAck, RecvFailed, Receiving, roomVars
  <2>2. QED
    BY <1>3, <2>1 DEF Edit, Connect, Drop, Evicted, ConnectEffect, SendSnapshot, Read, Limited,
       Register, Unregister, Refuse, TakeSnapshot, Publish, XAdd, Commit, JobStep, GetPending,
       XRange, XRangeFails, CloseFailed, SendInit, SnapAdd, SnapTrim, SnapFails, roomVars
<1>4. QED
  BY <1>2, <1>3 DEF Step, RunStep

LEMMA InHandStep ==
  ASSUME IInv, AuthorsOK, Alone, HomeOnly, Step, NEW u \in Users, Inside(u), Inside(u)',
         Me(u)' = Me(u), link[u] = Home, NEW x, InHand(u, x)
  PROVE  InHand(u, x)'
<1>1. /\ live[u] \in Seq(SUBSET Shared) /\ down[u] \in Seq(DownGood) /\ Home \in Replicas
      /\ link'[u] # None /\ ~overflowed'[u] /\ Me(u) \in members[Home]
      /\ Me(u) \in members'[Home] /\ doc[u] \subseteq doc'[u]
      /\ members \in [Replicas -> SUBSET Conns] /\ down \in [Users -> Seq(DownGood)]
  BY ConnFacts, DocGrows DEF IInv, DocsOK, DownOK, RoomsOK, Inside
<1>2. CASE x \in doc[u]
  BY <1>1, <1>2 DEF InHand
<1>3. CASE x \in Union(live[u])
  <2>1. CASE live'[u] = Append(live[u], Head(down[u]).data) /\ RecvUpdate(u)
    <3>1. Head(down[u]).data \in SUBSET Shared
      BY <2>1, Received DEF IInv, RecvUpdate, Receiving
    <3>2. Union(Append(live[u], Head(down[u]).data)) = Union(live[u]) \cup Head(down[u]).data
      <4> DEFINE d == Head(down[u]).data
                 S == Shared
      <4>1. live[u] \in Seq(SUBSET S) /\ d \in SUBSET S
        BY <1>1, <3>1
      <4> HIDE DEF d, S
      <4>2. Union(Append(live[u], d)) = Union(live[u]) \cup d
        BY <4>1, UnionAppend
      <4>3. QED
        BY <4>2 DEF d
    <3>3. x \in Union(live'[u])
      BY <1>3, <2>1, <3>2
    <3>4. QED
      BY <3>3 DEF InHand
  <2>2. CASE live'[u] = live[u]
    BY <1>3, <2>2 DEF InHand
  <2>3. CASE Union(live[u]) \subseteq doc'[u]
    BY <1>3, <2>3 DEF InHand
  <2>4. QED
    BY <1>1, <2>1, <2>2, <2>3, LiveMoves
<1>4. ASSUME NEW m \in Range(down[u]), m.type \in {"init", "update"}, x \in m.data
      PROVE  InHand(u, x)'
  <2>1. CASE down'[u] = down[u]
    BY <1>4, <2>1 DEF InHand
  <2>2. CASE Recv(u) /\ down[u] # <<>> /\ down'[u] = Tail(down[u])
    <3>1. Range(down[u]) = Range(Tail(down[u])) \cup {Head(down[u])}
      BY <1>1, <2>2, RangeTail
    <3>2. CASE m = Head(down[u])
      BY <1>1, <1>4, <2>2, <3>2, Taken DEF InHand
    <3>3. CASE m \in Range(down'[u])
      BY <1>4, <3>3 DEF InHand
    <3>4. QED
      BY <1>4, <2>2, <3>1, <3>2, <3>3
  <2>3. ASSUME NEW n \in DownGood, down'[u] = Append(down[u], n)
        PROVE  InHand(u, x)'
    <3>1. Range(Append(down[u], n)) = Range(down[u]) \cup {n}
      BY <1>1, RangeAppend
    <3>2. m \in Range(down'[u])
      BY <1>4, <2>3, <3>1
    <3>3. QED
      BY <1>4, <3>2 DEF InHand
  <2>4. QED
    BY <1>1, <2>1, <2>2, <2>3, DownMoves
<1>5. CASE fan[Home] # <<>> /\ x \in Head(fan[Home]).data
  <2>1. CASE fan'[Home] = fan[Home]
    BY <1>5, <2>1 DEF InHand
  <2>2. CASE FanOut(Home)
    <3> DEFINE m == Head(fan[Home])
    <3>1. m \in Honest /\ m \in FanGood
      BY <1>1, <1>5, HeadTailProperties DEF AuthorsOK, IInv, RoomsOK
    <3>2. Live(Me(u), Home)
      BY DEF Live, Me
    <3>3. ~Full(u)
      BY <1>1, <2>2, <3>2 DEF FanOut
    <3>4. down'[u] = Append(down[u], Reply(m, Me(u)))
      BY <1>1, <2>2, <3>2, <3>3 DEF FanOut
    <3>5. CASE Me(u) = m.from
      <4>1. Me(u) # NoConn /\ Me(u)[1] = u
        BY <1>1, ConnFacts DEF Me
      <4>2. x \in doc[u]
        BY <1>5, <3>1, <3>5, <4>1 DEF Honest
      <4>3. QED
        BY <1>1, <4>2 DEF InHand
    <3>6. CASE Me(u) # m.from
      <4>1. Reply(m, Me(u)) = Down("update", m.data)
        BY <3>6 DEF Reply
      <4>2. m.data \in SUBSET Shared
        BY <3>1 DEF FanGood, Shared
      <4>3. Down("update", m.data) \in DownGood
        BY <4>2 DEF Down, DownGood
      <4>4. Range(Append(down[u], Down("update", m.data))) = Range(down[u]) \cup {Down("update", m.data)}
        BY <1>1, <4>3, RangeAppend
      <4>5. Down("update", m.data) \in Range(down'[u])
        BY <3>4, <4>1, <4>4
      <4>6. Down("update", m.data).type = "update" /\ x \in Down("update", m.data).data
        BY <1>5 DEF Down
      <4>7. QED
        BY <4>5, <4>6 DEF InHand
    <3>7. QED
      BY <3>5, <3>6
  <2>3. QED
    BY <1>5, <2>1, <2>2, FanMoves
<1>6. QED
  BY <1>2, <1>3, <1>4, <1>5 DEF InHand

-----------------------------------------------------------------------------
(* What the join goroutine brings *)

LEMMA StoredStays ==
  ASSUME IInv, "compaction" \notin env, Step, env' = env
  PROVE  Stored \subseteq Stored'
<1>1. /\ stream \in Seq(SUBSET Deltas) /\ Len(stream) \in Nat
      /\ first = 1 /\ first' = 1
  BY SnapsStep, LenProperties DEF IInv, SnapsOK, LogOK
<1>2. ASSUME NEW d \in SUBSET Deltas, stream' = Append(stream, d)
      PROVE  Stored \subseteq Stored'
  <2>1. /\ Len(stream') = Len(stream) + 1
        /\ \A i \in 1..Len(stream) : stream'[i] = stream[i]
    BY <1>1, <1>2, AppendProperties
  <2>2. \A i \in 1..Len(stream) : i \in 1..Len(stream')
    BY <1>1, <2>1
  <2>3. QED
    BY <1>1, <2>1, <2>2 DEF Stored
<1>3. ASSUME NEW r \in Replicas, XAdd(r)
      PROVE  Stored \subseteq Stored'
  <2>1. Head(pend[r]) \in SUBSET Deltas
    BY <1>3, HeadTailProperties DEF XAdd, IInv, LogOK
  <2>2. QED
    BY <1>2, <1>3, <2>1 DEF XAdd
<1>4. ASSUME NEW r \in Replicas, Enqueue(r) \/ Commit(r)
      PROVE  UNCHANGED stream
  BY <1>4 DEF Enqueue, Commit, redisVars
<1>5. snaps = {}
  BY DEF IInv, SnapsOK
<1>6. UNCHANGED stream => Stored \subseteq Stored'
  BY <1>1 DEF Stored
<1>7. QED
  BY <1>3, <1>4, <1>5, <1>6, LogWriters

\* A join goroutine that is not at work stays as it is.
LEMMA JobRests ==
  ASSUME Step, NEW k \in jobs, ~JobStep(k)
  PROVE  k \in jobs'
<1>1. ASSUME NEW i \in jobs, JobStep(i)
      PROVE  k \in jobs'
  <2>1. jobs \ {i} \subseteq jobs'
    BY <1>1 DEF JobStep, GetPending, XRange, XRangeFails, CloseFailed, SendInit, Moved
  <2>2. QED
    BY <1>1, <2>1
<1>2. ASSUME \/ \E u \in Users :
                   \/ \E d \in Deltas : Edit(u, d)
                   \/ \E r \in Replicas : Connect(u, r)
                   \/ Drop(u) \/ Evicted(u) \/ ConnectEffect(u) \/ SendSnapshot(u)
                   \/ Recv(u) \/ Read(u) \/ Limited(u)
             \/ \E r \in Replicas : RunStep(r) \/ Publish(r) \/ XAdd(r) \/ Commit(r)
             \/ \E s \in snaps : SnapAdd(s) \/ SnapTrim(s) \/ SnapFails(s)
      PROVE  jobs \subseteq jobs'
  <2>1. ASSUME NEW u \in Users, Recv(u)
        PROVE  jobs \subseteq jobs'
    BY <2>1 DEF Recv, RecvSync, RecvInit, RecvUpdate, RecvAck, RecvFailed, Receiving, roomVars
  <2>2. QED
    BY <1>2, <2>1 DEF Edit, Connect, Drop, Evicted, ConnectEffect, SendSnapshot, Read, Limited,
       RunStep, Register, Unregister, Refuse, Enqueue, TakeRemote, TakeSnapshot, FanOut,
       Publish, XAdd, Commit, SnapAdd, SnapTrim, SnapFails, roomVars
<1>3. QED
  BY <1>1, <1>2 DEF Step

LEMMA JobKeeps ==
  ASSUME IInv, Alone, HomeOnly, Step, env' = env, NEW k \in jobs, NEW x \in accepted,
         Covers(k, x), ~SendInit(k), ~CloseFailed(k)
  PROVE  \E n \in jobs' : n.conn = k.conn /\ Covers(n, x)'
<1>1. /\ "compaction" \notin env /\ Stored \subseteq Stored' /\ Stored = Union(stream)
      /\ k = [conn |-> k.conn, at |-> k.at, pc |-> k.pc, got |-> k.got] /\ k.at = Home
      /\ accepted \subseteq Union(stream) \cup UNION {Union(pend[r]) : r \in Replicas}
      /\ \A r \in Replicas \ {Home} : pend[r] = <<>>
  BY StoredStays, StoredIs DEF Alone, IInv, SnapsOK, RoomsOK, JobGood, HomeOnly, LogOK
<1>2. CASE ~JobStep(k)
  <2>1. k \in jobs'
    BY <1>2, JobRests
  <2>2. Covers(k, x)'
    BY <1>1 DEF Covers
  <2>3. QED
    BY <2>1, <2>2
<1>3. ASSUME NEW pc, NEW got, jobs' = Moved(k, pc, got),
             \/ pc = "close"
             \/ pc = "xrange" /\ x \in got \cup Stored
             \/ pc = "send" /\ x \in got
      PROVE  \E n \in jobs' : n.conn = k.conn /\ Covers(n, x)'
  <2> DEFINE n == [k EXCEPT !.pc = pc, !.got = got]
  <2>1. n \in jobs' /\ n.conn = k.conn /\ n.pc = pc /\ n.got = got
    BY <1>1, <1>3 DEF Moved
  <2> HIDE DEF n
  <2>2. Covers(n, x)'
    BY <1>1, <1>3, <2>1 DEF Covers
  <2>3. QED
    BY <2>1, <2>2
<1>4. CASE GetPending(k)
  <2>1. jobs' = Moved(k, "xrange", Union(pend[Home]))
    BY <1>1, <1>4 DEF GetPending
  <2>2. x \in Union(pend[Home]) \cup Stored
    BY <1>1, UnionEmpty
  <2>3. QED
    BY <1>3, <2>1, <2>2
<1>5. CASE XRange(k)
  <2>1. jobs' = Moved(k, "send", k.got \cup Stored) /\ k.pc = "xrange"
    BY <1>5 DEF XRange
  <2>2. x \in k.got \cup Stored
    BY <2>1 DEF Covers
  <2>3. QED
    BY <1>3, <2>1, <2>2
<1>6. CASE XRangeFails(k)
  BY <1>3, <1>6 DEF XRangeFails
<1>7. QED
  BY <1>2, <1>4, <1>5, <1>6 DEF JobStep

LEMMA ToldStep ==
  ASSUME IInv, AuthorsOK, Alone, HomeOnly, Numbered, OneJob, Told, Step, env' = env,
         NEW u \in Users, Inside(u)', NEW x \in accepted'
  PROVE  InHand(u, x)' \/ \E j \in jobs' : j.conn = Me(u)' /\ Covers(j, x)'
<1>1. /\ Me(u)' = Me(u) /\ link[u] = Home /\ link'[u] = Home
      /\ \/ Inside(u)
         \/ Register(Home, Me(u)) /\ Me(u) \in joining[Home]
  BY InsideMoves
<1>2. /\ Home \in Replicas /\ Home # None /\ Me(u) \in Conns /\ DownOK
      /\ members \in [Replicas -> SUBSET Conns] /\ down[u] \in Seq(DownGood)
      /\ fan \in [Replicas -> Seq(FanGood)] /\ Me(u) \in members'[Home]
      /\ link \in [Users -> Replicas \cup {None}]
  BY <1>1, ConnFacts, MeIsConn DEF IInv, RoomsOK, DownOK, SocksOK, Inside
<1>3. CASE x \notin accepted
  <2>1. PICK r \in Replicas : Enqueue(r)
    BY <1>3, LogWriters DEF XAdd, Commit, SnapAdd, histVars
  <2>2. r = Home
    BY <2>1 DEF Enqueue, HomeOnly
  <2>3. x \in Msg(Home).data /\ fan'[Home] = <<Msg(Home)>>
    BY <1>2, <1>3, <2>1, <2>2 DEF Enqueue
  <2>4. fan'[Home] # <<>> /\ Head(fan'[Home]) = Msg(Home)
    BY <2>3
  <2>5. QED
    BY <2>3, <2>4 DEF InHand
<1>4. CASE Register(Home, Me(u)) /\ Me(u) \in joining[Home]
  <2>1. PICK n \in jobs' : n.conn = Me(u) /\ n.pc = "pending"
    <3> DEFINE new == [conn |-> Me(u), at |-> Home, pc |-> "pending", got |-> {}]
    <3>1. new \in jobs'
      BY <1>4 DEF Register
    <3>2. new.conn = Me(u) /\ new.pc = "pending"
      OBVIOUS
    <3> HIDE DEF new
    <3>3. QED
      BY <3>1, <3>2
  <2>2. Covers(n, x)'
    BY <2>1 DEF Covers
  <2>3. QED
    BY <1>1, <2>1, <2>2
<1>5. CASE x \in accepted /\ Inside(u) /\ InHand(u, x)
  BY <1>1, <1>5, InHandStep
<1>6. ASSUME NEW j \in jobs, j.conn = Me(u), Covers(j, x), x \in accepted
      PROVE  InHand(u, x)' \/ \E n \in jobs' : n.conn = Me(u)' /\ Covers(n, x)'
  <2>1. j.at = Home /\ Live(Me(u), Home) /\ j.got \in SUBSET Shared
    BY <1>1 DEF HomeOnly, Live, Me, IInv, RoomsOK, JobGood
  <2>2. ~CloseFailed(j)
    <3>1. ASSUME CloseFailed(j)
          PROVE  link'[u] = None
      <4>1. SocketGone(j.conn[1]) /\ j.conn[1] = u
        BY <1>6, <2>1, <3>1 DEF CloseFailed, Me
      <4>2. QED
        BY <1>2, <4>1 DEF SocketGone
    <3>2. QED
      BY <1>1, <1>2, <3>1
  <2>3. CASE SendInit(j)
    <3>1. j.conn[1] = u
      BY <1>6 DEF Me
    <3>2. ~Full(u)
      BY <1>2, <1>6, <2>1, <2>3, <3>1 DEF SendInit
    <3>3. down'[u] = Append(down[u], Down("init", j.got))
      <4>1. down' = SendTo(Me(u), Home, Down("init", j.got))
        BY <1>6, <2>1, <2>3 DEF SendInit
      <4>2. SendTo(Me(u), Home, Down("init", j.got))[u] = Append(down[u], Down("init", j.got))
        BY <1>1, <1>2, <3>2, Sent
      <4>3. QED
        BY <4>1, <4>2
    <3>4. Down("init", j.got) \in DownGood
      BY <2>1 DEF Down, DownGood
    <3>5. Range(Append(down[u], Down("init", j.got))) = Range(down[u]) \cup {Down("init", j.got)}
      BY <1>2, <3>4, RangeAppend
    <3>6. Down("init", j.got) \in Range(down'[u])
      BY <3>3, <3>5
    <3>7. x \in Down("init", j.got).data /\ Down("init", j.got).type = "init"
      BY <1>6, <2>3 DEF SendInit, Covers, Down
    <3>8. QED
      BY <3>6, <3>7 DEF InHand
  <2>4. CASE ~SendInit(j)
    BY <1>1, <1>6, <2>2, <2>4, JobKeeps
  <2>5. QED
    BY <2>3, <2>4
<1>7. QED
  <2>1. CASE x \in accepted /\ Inside(u)
    <3>1. InHand(u, x) \/ \E j \in jobs : j.conn = Me(u) /\ Covers(j, x)
      BY <2>1 DEF Told
    <3>2. QED
      BY <1>5, <1>6, <2>1, <3>1
  <2>2. QED
    BY <1>1, <1>3, <1>4, <2>1

-----------------------------------------------------------------------------
LEMMA GapInit == ASSUME Init PROVE GapInv
<1>1. \A S : <<>> \in Seq(S)
  OBVIOUS
<1>2. AuthorsOK
  BY <1>1 DEF Init, AuthorsOK
<1>3. HomeOnly /\ Numbered /\ OneJob
  BY ConnFacts DEF Init, HomeOnly, Numbered, OneJob
<1>4. Waiting /\ Told
  BY DEF Init, Waiting, Told
<1>5. QED
  BY <1>2, <1>3, <1>4 DEF GapInv

LEMMA GapStutter == ASSUME GapInv, UNCHANGED <<vars, env>> PROVE GapInv'
<1>1. /\ UNCHANGED <<link, conn, status, doc, live, unsent, up, down, overflowed, env>>
      /\ UNCHANGED <<joining, members, bcast, fan, pubQ, jobs, pend, stream, first, accepted>>
  BY DEF vars, browserVars, wireVars, roomVars, queueVars, redisVars, histVars
<1>2. Honest' = Honest /\ \A u \in Users : Mine(u)' = Mine(u)
  BY <1>1 DEF Honest, Mine
<1>3. AuthorsOK => AuthorsOK'
  BY <1>1, <1>2 DEF AuthorsOK
<1>4. Alone' = Alone
  BY <1>1 DEF Alone
<1>5. HomeOnly => HomeOnly'
  BY <1>1 DEF HomeOnly
<1>6. Numbered => Numbered'
  BY <1>1 DEF Numbered
<1>7. OneJob => OneJob'
  BY <1>1 DEF OneJob, Me
<1>8. Waiting => Waiting'
  BY <1>1 DEF Waiting, Has, Me
<1>9. /\ Stored' = Stored
      /\ \A u \in Users : Inside(u)' = Inside(u) /\ Me(u)' = Me(u)
  BY <1>1 DEF Stored, Inside, Me
<1>10. \A u \in Users : \A x : InHand(u, x) => InHand(u, x)'
  BY <1>1 DEF InHand
<1>11. \A j \in jobs : \A x : Covers(j, x) => Covers(j, x)'
  BY <1>9 DEF Covers
<1>12. Told => Told'
  BY <1>1, <1>9, <1>10, <1>11 DEF Told
<1>13. QED
  BY <1>3, <1>4, <1>5, <1>6, <1>7, <1>8, <1>12 DEF GapInv

\* On one replica, and without a compaction, what was taken is in the hands of
\* every browser in the room, or of the join goroutine of its connection, and a
\* browser whose join goroutine runs is not synced.
THEOREM GapInvariance == Spec => []GapInv
<1>1. Init => GapInv
  BY GapInit
<1>2. ASSUME IInv, GapInv, Next
      PROVE  GapInv'
  <2>1. Step /\ env' = env
    BY <1>2 DEF Next
  <2>2. AuthorsOK'
    BY <1>2, <2>1, AuthorsStep DEF GapInv
  <2>3. ASSUME Alone
        PROVE  (HomeOnly /\ Numbered /\ OneJob /\ Waiting /\ Told)'
    <3>1. AuthorsOK /\ HomeOnly /\ Numbered /\ OneJob /\ Waiting /\ Told
      BY <1>2, <2>3 DEF GapInv
    <3>2. HomeOnly' /\ Numbered' /\ OneJob'
      BY <1>2, <2>1, <2>3, <3>1, HomeStep, NumberedStep, OneJobStep
    <3>3. Waiting'
      BY <1>2, <2>1, <2>3, <3>1, WaitingStep DEF Waiting
    <3>4. Told'
      BY <1>2, <2>1, <2>3, <3>1, ToldStep DEF Told
    <3>5. QED
      BY <3>2, <3>3, <3>4
  <2>4. Alone' = Alone
    BY <2>1 DEF Alone
  <2>5. QED
    BY <2>2, <2>3, <2>4 DEF GapInv
<1>3. IInv /\ GapInv /\ [Next]_<<vars, env>> => GapInv'
  BY <1>2, GapStutter
<1>4. QED
  BY <1>1, <1>3, Invariance, PTL DEF Spec

\* Nothing falls between the history of yjs.init and the live updates of a
\* synced browser: sendYjsInit, handleBroadcast and RealtimeYjsProvider.
THEOREM NothingBetween == Spec => []NoGap
<1>1. ASSUME IInv, GapInv
      PROVE  NoGap
  <2>1. SUFFICES ASSUME Alone, NEW u \in Users, Synced(u), ~overflowed[u], NEW x \in accepted
                 PROVE  x \in doc[u] \cup OnTheWay(u, link[u])
    BY DEF NoGap, Complete, Alone
  <2>2. HomeOnly /\ Waiting /\ Told
    BY <1>1, <2>1 DEF GapInv
  <2>3. link[u] = Home /\ Inside(u) /\ status[u] = "SYNCED" /\ ~Has(u, "sync")
    BY <2>1, <2>2 DEF Synced, HomeOnly, Inside, Has
  <2>4. \A j \in jobs : j.conn # Me(u)
    BY <2>2, <2>3, ConnFacts DEF Waiting
  <2>5. InHand(u, x)
    BY <2>2, <2>3, <2>4 DEF Told
  <2>6. fan[Home] # <<>> => Head(fan[Home]) \in Range(fan[Home])
    <3>1. fan[Home] \in Seq(FanGood)
      BY <1>1, ConnFacts DEF IInv, RoomsOK
    <3>2. QED
      BY <3>1, RangeTail
  <2>7. CASE x \in doc[u] \/ x \in Union(live[u])
    BY <2>7 DEF OnTheWay
  <2>8. ASSUME NEW m \in Range(down[u]), m.type \in {"init", "update"}, x \in m.data
        PROVE  x \in OnTheWay(u, link[u])
    <3>1. x \in Data({n \in Range(down[u]) : n.type \in {"init", "update"}})
      BY <2>8 DEF Data
    <3>2. QED
      BY <3>1 DEF OnTheWay
  <2>9. CASE fan[Home] # <<>> /\ x \in Head(fan[Home]).data
    <3>1. x \in Data(Range(fan[link[u]]))
      BY <2>3, <2>6, <2>9 DEF Data
    <3>2. QED
      BY <3>1 DEF OnTheWay
  <2>10. QED
    BY <2>5, <2>7, <2>8, <2>9 DEF InHand
<1>2. IInv /\ GapInv => NoGap
  BY <1>1
<1>3. QED
  BY <1>2, Invariance, GapInvariance, PTL
=============================================================================
