------------------------------ MODULE SaveQueue ------------------------------
(***************************************************************************)
(* The in-memory queue of Yjs deltas of one room and its flusher           *)
(* (apps/realtime/internal/ws/save_queue.go), with the Redis streams it    *)
(* writes and the two ways the room that owns it stops: the idle reaper    *)
(* (room.go) and the shutdown of the process (hub.go, main.go).            *)
(*                                                                         *)
(* Two goroutines share the queue: Room.Run enqueues, YjsSaveQueue.Start   *)
(* flushes.  Every critical section under q.mu and every Redis call is a   *)
(* step of its own.  `accepted' is a history variable: what Enqueue has    *)
(* returned nil for, which is what the author is acknowledged.             *)
(***************************************************************************)
EXTENDS Naturals, Sequences, FiniteSets, Functions

CONSTANTS TaskKeys,          \* task keys "<taskId>:<lang>" used in the session
          Updates,           \* PendingUpdate objects, each enqueued at most once
          MaxSaveQueueSize,  \* 10000 in the code
          MaxBatchSize,      \* 100 in the code
          MaxStreamLen       \* bound: no reply is lost once a stream is this long

ASSUME QueueAssumption ==
  /\ TaskKeys # {} /\ IsFiniteSet(TaskKeys)
  /\ MaxSaveQueueSize \in Nat \ {0}
  /\ MaxBatchSize \in Nat \ {0}

VARIABLES pending,       \* q.pending; an absent key is an empty sequence
          totalPending,  \* q.totalPending
          notify,        \* a token is waiting in notifyC (capacity 1)
          doneC,         \* q.doneC is closed
          ctxDone,       \* the context of the room loop (hub.ctx) is cancelled
          room,          \* the Run goroutine of the room: "running" or "exited"
          flusher,       \* the Start goroutine and the FlushSync it is in
          stream,        \* the Redis streams, oldest entry first
          redis,         \* "open" or "closed" (RedisStore.Close)
          faults,        \* a Redis call has failed or timed out while it was open
          accepted       \* history: the deltas Enqueue took, in order

queueVars == <<pending, totalPending, notify>>
lifeVars  == <<doneC, ctxDone, room, redis>>
vars == <<pending, totalPending, notify, doneC, ctxDone, room, flusher,
          stream, redis, faults, accepted>>

\* The locals of Start, finalFlush and FlushSync.  pc says what runs next:
\* select (the loop of Start), keys (the range over PendingKeys), xadd (the
\* loop over the batch), commit (CommitBatch), final (the loop condition of
\* finalFlush), progress (its comparison with `before'), stopped.
FlusherState ==
  [pc     : {"select", "keys", "xadd", "commit", "final", "progress", "stopped"},
   final  : BOOLEAN,                 \* the flush was called by finalFlush
   keys   : SUBSET TaskKeys,         \* keys of PendingKeys still to visit
   key    : TaskKeys,
   batch  : Seq(Updates),
   done   : Nat,                     \* committedCount
   before : Nat]

TypeOK ==
  /\ pending \in [TaskKeys -> Seq(Updates)]
  /\ totalPending \in Nat
  /\ notify \in BOOLEAN
  /\ doneC \in BOOLEAN
  /\ ctxDone \in BOOLEAN
  /\ room \in {"running", "exited"}
  /\ flusher \in FlusherState
  /\ stream \in [TaskKeys -> Seq(Updates)]
  /\ redis \in {"open", "closed"}
  /\ faults \in BOOLEAN
  /\ accepted \in [TaskKeys -> Seq(Updates)]

Init ==
  /\ pending = [k \in TaskKeys |-> <<>>]
  /\ totalPending = 0
  /\ notify = FALSE
  /\ doneC = FALSE
  /\ ctxDone = FALSE
  /\ room = "running"
  /\ flusher = [pc |-> "select", final |-> FALSE, keys |-> {},
                key |-> CHOOSE k \in TaskKeys : TRUE,
                batch |-> <<>>, done |-> 0, before |-> 0]
  /\ stream = [k \in TaskKeys |-> <<>>]
  /\ redis = "open"
  /\ faults = FALSE
  /\ accepted = [k \in TaskKeys |-> <<>>]

-----------------------------------------------------------------------------
(* Room.Run handles a local yjs.update.  Its select takes a ready broadcast
   as readily as the closed done channel, so deltas are accepted until the
   goroutine has returned, after Close as well as before it. *)

\* Mutant of Enqueue: the capacity test is off by one.
Enqueue_OffByOne(k, u) ==
  /\ room = "running"
  /\ \A j \in TaskKeys : u \notin Range(accepted[j])
  /\ totalPending <= MaxSaveQueueSize
  /\ pending' = [pending EXCEPT ![k] = Append(@, u)]
  /\ totalPending' = totalPending + 1
  /\ notify' = TRUE
  /\ accepted' = [accepted EXCEPT ![k] = Append(@, u)]
  /\ UNCHANGED <<lifeVars, flusher, stream, faults>>

Enqueue(k, u) ==
  /\ room = "running"
  /\ \A j \in TaskKeys : u \notin Range(accepted[j])
  /\ totalPending < MaxSaveQueueSize
  /\ pending' = [pending EXCEPT ![k] = Append(@, u)]
  /\ totalPending' = totalPending + 1
  /\ notify' = TRUE
  /\ accepted' = [accepted EXCEPT ![k] = Append(@, u)]
  /\ UNCHANGED <<lifeVars, flusher, stream, faults>>

\* The idle timer fires with no client left: onEmpty and Close close the queue
\* and Run returns.
IdleReap ==
  /\ room = "running"
  /\ ~doneC
  /\ doneC' = TRUE
  /\ room' = "exited"
  /\ UNCHANGED <<queueVars, ctxDone, redis, flusher, stream, faults, accepted>>

\* Hub.Close: cancel the context, Close every room, then wait for Run.
Shutdown ==
  /\ room = "running"
  /\ ~ctxDone
  /\ ctxDone' = TRUE
  /\ doneC' = TRUE
  /\ UNCHANGED <<queueVars, room, redis, flusher, stream, faults, accepted>>

RunReturns ==
  /\ room = "running"
  /\ ctxDone
  /\ room' = "exited"
  /\ UNCHANGED <<queueVars, doneC, ctxDone, redis, flusher, stream, faults,
                 accepted>>

\* main closes the Redis client as soon as hub.Close has returned: the wait
\* group of the hub counts the Run goroutines only, not the flushers.
RedisClose ==
  /\ ctxDone
  /\ room = "exited"
  /\ redis = "open"
  /\ redis' = "closed"
  /\ UNCHANGED <<queueVars, doneC, ctxDone, room, flusher, stream, faults,
                 accepted>>

-----------------------------------------------------------------------------
(* YjsSaveQueue.Start and FlushSync *)

PendingKeys == {k \in TaskKeys : pending[k] # <<>>}

\* FlushSync entered from the loop of Start: by the ticker, or by a token.
Tick ==
  /\ flusher.pc = "select"
  /\ flusher' = [flusher EXCEPT !.pc = "keys", !.keys = PendingKeys]
  /\ \/ UNCHANGED notify
     \/ notify /\ notify' = FALSE
  /\ UNCHANGED <<pending, totalPending, lifeVars, stream, faults, accepted>>

\* ctx.Done or doneC chosen by the select of Start.
StartFinal ==
  /\ flusher.pc = "select"
  /\ ctxDone \/ doneC
  /\ flusher' = [flusher EXCEPT !.pc = "final", !.final = TRUE]
  /\ UNCHANGED <<queueVars, lifeVars, stream, faults, accepted>>

\* Mutant of GetBatch: the newest deltas are taken first.
GetBatch_Newest(k) ==
  /\ flusher.pc = "keys"
  /\ k \in flusher.keys
  /\ LET n == IF Len(pending[k]) < MaxBatchSize THEN 1
                                                ELSE Len(pending[k]) - MaxBatchSize + 1
     IN  flusher' = [flusher EXCEPT !.pc = "xadd", !.keys = @ \ {k}, !.key = k,
                                    !.batch = SubSeq(pending[k], n, Len(pending[k])),
                                    !.done = 0]
  /\ UNCHANGED <<queueVars, lifeVars, stream, faults, accepted>>

\* getBatch for the next key; no other goroutine shortens a queue, so the
\* batch of a key of PendingKeys is never empty.
GetBatch(k) ==
  /\ flusher.pc = "keys"
  /\ k \in flusher.keys
  /\ LET n == IF Len(pending[k]) < MaxBatchSize THEN Len(pending[k])
                                                ELSE MaxBatchSize
     IN  flusher' = [flusher EXCEPT !.pc = "xadd", !.keys = @ \ {k}, !.key = k,
                                    !.batch = SubSeq(pending[k], 1, n), !.done = 0]
  /\ UNCHANGED <<queueVars, lifeVars, stream, faults, accepted>>

\* Outside finalFlush the calls carry the context of the room loop.
RedisUp == redis = "open" /\ (flusher.final \/ ~ctxDone)

\* AppendTaskUpdate succeeds for the next delta of the batch.
XAdd ==
  /\ flusher.pc = "xadd"
  /\ RedisUp
  /\ flusher.done < Len(flusher.batch)
  /\ stream' = [stream EXCEPT ![flusher.key] =
                  Append(@, flusher.batch[flusher.done + 1])]
  /\ flusher' = [flusher EXCEPT !.done = @ + 1]
  /\ UNCHANGED <<queueVars, lifeVars, faults, accepted>>

\* It returns an error: the loop over the batch breaks.  A call that reached
\* Redis may have written the entry before the reply was lost.
XAddFails ==
  /\ flusher.pc = "xadd"
  /\ flusher.done < Len(flusher.batch)
  /\ \/ UNCHANGED stream
     \/ /\ redis = "open"
        /\ Len(stream[flusher.key]) < MaxStreamLen
        /\ stream' = [stream EXCEPT ![flusher.key] =
                        Append(@, flusher.batch[flusher.done + 1])]
  /\ faults' = (faults \/ RedisUp)
  /\ flusher' = [flusher EXCEPT !.pc = "commit"]
  /\ UNCHANGED <<queueVars, lifeVars, accepted>>

BatchDone ==
  /\ flusher.pc = "xadd"
  /\ flusher.done = Len(flusher.batch)
  /\ flusher' = [flusher EXCEPT !.pc = "commit"]
  /\ UNCHANGED <<queueVars, lifeVars, stream, faults, accepted>>

\* CommitBatch(key, n): the first n deltas leave the queue, all of them when
\* n covers the slice.
CommitBatch(k, n) ==
  LET items == pending[k] IN
  IF n >= Len(items)
  THEN /\ pending' = [pending EXCEPT ![k] = <<>>]
       /\ totalPending' = totalPending - Len(items)
  ELSE /\ pending' = [pending EXCEPT ![k] = SubSeq(items, n + 1, Len(items))]
       /\ totalPending' = totalPending - n

\* Mutant of Commit: the whole batch is dropped after a failed XADD.
Commit_WholeBatch ==
  /\ flusher.pc = "commit"
  /\ IF flusher.done > 0
     THEN CommitBatch(flusher.key, Len(flusher.batch))
     ELSE UNCHANGED <<pending, totalPending>>
  /\ flusher' = [flusher EXCEPT !.pc = "keys", !.batch = <<>>, !.done = 0]
  /\ UNCHANGED <<notify, lifeVars, stream, faults, accepted>>

\* Mutant of Commit: the goroutine ends at a batch that wrote nothing.
Commit_EndsOnError ==
  /\ flusher.pc = "commit"
  /\ IF flusher.done > 0
     THEN CommitBatch(flusher.key, flusher.done)
     ELSE UNCHANGED <<pending, totalPending>>
  /\ flusher' = [flusher EXCEPT !.pc = IF flusher.done > 0 THEN "keys" ELSE "stopped",
                                !.batch = <<>>, !.done = 0]
  /\ UNCHANGED <<notify, lifeVars, stream, faults, accepted>>

\* The batch is committed up to the first failure, after its XADDs.
Commit ==
  /\ flusher.pc = "commit"
  /\ IF flusher.done > 0
     THEN CommitBatch(flusher.key, flusher.done)
     ELSE UNCHANGED <<pending, totalPending>>
  /\ flusher' = [flusher EXCEPT !.pc = "keys", !.batch = <<>>, !.done = 0]
  /\ UNCHANGED <<notify, lifeVars, stream, faults, accepted>>

FlushReturns ==
  /\ flusher.pc = "keys"
  /\ flusher.keys = {}
  /\ flusher' = [flusher EXCEPT !.pc = IF flusher.final THEN "progress" ELSE "select"]
  /\ UNCHANGED <<queueVars, lifeVars, stream, faults, accepted>>

\* The head of finalFlush's loop: go on while something is pending.
FinalLoop ==
  /\ flusher.pc = "final"
  /\ flusher' = IF totalPending > 0
                THEN [flusher EXCEPT !.pc = "keys", !.keys = PendingKeys,
                                     !.before = totalPending]
                ELSE [flusher EXCEPT !.pc = "stopped"]
  /\ UNCHANGED <<queueVars, lifeVars, stream, faults, accepted>>

\* The three seconds of flushCtx have passed.
FinalTimeout ==
  /\ flusher.pc = "final"
  /\ totalPending > 0
  /\ faults' = TRUE
  /\ flusher' = [flusher EXCEPT !.pc = "stopped"]
  /\ UNCHANGED <<queueVars, lifeVars, stream, accepted>>

\* Mutant of Progress: the final flush makes a single pass.
Progress_Once ==
  /\ flusher.pc = "progress"
  /\ flusher' = [flusher EXCEPT !.pc = "stopped"]
  /\ UNCHANGED <<queueVars, lifeVars, stream, faults, accepted>>

\* An iteration that did not shrink the queue ends the final flush.
Progress ==
  /\ flusher.pc = "progress"
  /\ flusher' = [flusher EXCEPT !.pc = IF totalPending >= flusher.before
                                       THEN "stopped" ELSE "final"]
  /\ UNCHANGED <<queueVars, lifeVars, stream, faults, accepted>>

Done ==
  /\ flusher.pc = "stopped"
  /\ room = "exited"
  /\ UNCHANGED vars

-----------------------------------------------------------------------------
FlusherStep ==
  \/ Tick \/ StartFinal
  \/ \E k \in TaskKeys : GetBatch(k)
  \/ XAdd \/ XAddFails \/ BatchDone \/ Commit \/ FlushReturns
  \/ FinalLoop \/ FinalTimeout \/ Progress

Next ==
  \/ \E k \in TaskKeys, u \in Updates : Enqueue(k, u)
  \/ IdleReap \/ Shutdown \/ RunReturns \/ RedisClose
  \/ FlusherStep
  \/ Done

Spec == Init /\ [][Next]_vars

\* Fairness.  The loop of Start keeps running: its ticker fires every 50 ms and
\* no Redis call blocks for ever.  A key that is tried again and again is
\* written once, when Redis is back: SF on its XADD.
XAddOf(k) == XAdd /\ flusher.key = k

Fairness ==
  /\ WF_vars(FlusherStep)
  /\ \A k \in TaskKeys : SF_vars(XAddOf(k))

FairSpec == Spec /\ Fairness

-----------------------------------------------------------------------------
(* What the queue promises *)

\* No acknowledged delta leaves memory before Redis has it, whatever fails and
\* in whatever order Enqueue and the flusher run (FlushSync, save_queue.go:205).
AcceptedKept ==
  \A k \in TaskKeys :
    Range(accepted[k]) \subseteq Range(pending[k]) \cup Range(stream[k])

\* totalPending, kept apart from the slices it counts, always equals the number
\* of queued deltas and stays within the capacity (save_queue.go:82-87, 126-132).
Slots == UNION {{k} \X (1..Len(pending[k])) : k \in TaskKeys}
CountsPending ==
  /\ totalPending = Cardinality(Slots)
  /\ totalPending <= MaxSaveQueueSize

\* A room closed by the idle reaper has saved every delta once its flusher has
\* stopped, if Redis answered throughout (finalFlush, save_queue.go:240-252).
IdleReapSavesAll ==
  (flusher.pc = "stopped" /\ ~ctxDone /\ ~faults) => \A k \in TaskKeys : pending[k] = <<>>

\* Again and again every acknowledged delta of an open room is in the stream
\* of its task, however often Redis fails on the way.
Flushed ==
  []<>(doneC \/ \A k \in TaskKeys : Range(accepted[k]) \subseteq Range(stream[k]))

\* What is still to be written: the queue without the part of the batch that
\* Redis has confirmed and CommitBatch has not removed yet.
Unwritten(k) ==
  IF k = flusher.key THEN SubSeq(pending[k], flusher.done + 1, Len(pending[k]))
                     ELSE pending[k]

\* The flusher implements an at-least-once log in acceptance order per task.
Log == INSTANCE DurableLog WITH
         Keys <- TaskKeys, Items <- Updates,
         queue <- [k \in TaskKeys |-> Unwritten(k)], log <- stream
LogSpec == Log!Spec
=============================================================================
