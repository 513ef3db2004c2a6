---------------------------- MODULE Streams_proofs ----------------------------
(***************************************************************************)
(* Proofs about the two parts of realtime that write and read Redis        *)
(* streams.  They share no state.                                          *)
(*                                                                         *)
(* SaveQueue, for every set of task keys, every capacity and every batch   *)
(* size: the counter of the queue equals the number of queued deltas, no   *)
(* acknowledged delta leaves memory before Redis has it, a room closed by  *)
(* the idle reaper is saved completely, and the flusher implements the     *)
(* at-least-once log of DurableLog.                                        *)
(*                                                                         *)
(* The argument.  AcceptedKept is not inductive alone: CommitBatch(k, n)   *)
(* cuts the first n deltas of the slice, and only the flusher's own state  *)
(* says that those are the ones it has written.  BatchOK records it: the   *)
(* batch is a prefix of the slice, although Enqueue may have lengthened    *)
(* the slice since, and the first `done' deltas of the batch are in Redis. *)
(* The same fact makes the next XADD write the oldest unwritten delta, the *)
(* step the refinement of DurableLog turns on.  The final flush ends with  *)
(* an empty queue because each of its iterations commits something unless  *)
(* a call failed (FinalOK), and the counter tells whether anything is left.*)
(*                                                                         *)
(* SseHub, for every set of nodes and tabs, every limit, buffer and page   *)
(* size and any number of events, connections and failures: registries,    *)
(* readers and the shared counter agree, a tab gets its events in order    *)
(* and none twice, and what it misses is known.                            *)
(*                                                                         *)
(* The argument.  An event can reach a tab by replay and by its live       *)
(* buffer, which fills up while the replay runs.  OrderOK says where the   *)
(* two meet: what a buffer holds is older than the reader of the node, and *)
(* is either among what the replay has passed (skip) or newer than what    *)
(* the tab has seen.  LossOK says that nothing falls between them: up to   *)
(* where the reader is, every event is received, known to be lost or still *)
(* in the buffer.                                                          *)
(***************************************************************************)
EXTENDS SaveQueue, SseHub, Functions, FiniteSetTheorems, SequenceTheorems, TLAPS

(* SaveQueue *)

InBatch == flusher.pc \in {"xadd", "commit"}

BatchOK ==
  /\ flusher.done <= Len(flusher.batch)
  /\ ~InBatch => flusher.done = 0
  /\ InBatch =>
       /\ Len(flusher.batch) <= Len(pending[flusher.key])
       /\ \A i \in 1..Len(flusher.batch) :
            flusher.batch[i] = pending[flusher.key][i]
       /\ \A i \in 1..flusher.done :
            flusher.batch[i] \in Range(stream[flusher.key])

IInv == TypeOK /\ BatchOK /\ CountsPending /\ AcceptedKept

-----------------------------------------------------------------------------
(* Lemmas about sequences and slots *)

\* The range of a sequence, by its indices.
LEMMA RangeByIndex ==
  ASSUME NEW S, NEW s \in Seq(S)
  PROVE  \A x : x \in Range(s) <=> \E i \in 1..Len(s) : s[i] = x
BY RangeEquality

\* Appending adds one element to the range.
LEMMA RangeOfAppend ==
  ASSUME NEW S, NEW s \in Seq(S), NEW e \in S
  PROVE  Range(Append(s, e)) = Range(s) \cup {e}
<1>1. Append(s, e) \in Seq(S)
  BY AppendProperties
<1>2. ASSUME NEW x PROVE x \in Range(Append(s, e)) <=> x \in Range(s) \cup {e}
  <2>1. x \in Range(Append(s, e)) <=> \E i \in 1..Len(s)+1 : Append(s, e)[i] = x
    <3>1. Len(Append(s, e)) = Len(s) + 1
      BY AppendProperties
    <3>2. x \in Range(Append(s, e)) <=>
            \E i \in 1..Len(Append(s, e)) : Append(s, e)[i] = x
      BY <1>1, RangeByIndex
    <3>3. QED
      BY <3>1, <3>2
  <2>2. x \in Range(s) <=> \E i \in 1..Len(s) : s[i] = x
    BY RangeByIndex
  <2>3. Len(s) \in Nat
    BY LenProperties
  <2>4. ASSUME x \in Range(Append(s, e)) PROVE x \in Range(s) \cup {e}
    <3>1. PICK i \in 1..Len(s)+1 : Append(s, e)[i] = x
      BY <2>1, <2>4
    <3>2. CASE i = Len(s) + 1
      BY <3>1, <3>2, AppendProperties
    <3>3. CASE i \in 1..Len(s)
      BY <3>1, <3>3, <2>2, AppendProperties
    <3>4. QED
      BY <3>1, <3>2, <3>3, <2>3
  <2>5. ASSUME x \in Range(s) \cup {e} PROVE x \in Range(Append(s, e))
    <3>1. CASE x = e
      BY <3>1, <2>1, <2>3, AppendProperties
    <3>2. CASE x \in Range(s)
      <4>1. PICK i \in 1..Len(s) : s[i] = x
        BY <2>2, <3>2
      <4>2. i \in 1..Len(s)+1 /\ Append(s, e)[i] = x
        BY <4>1, <2>3, AppendProperties
      <4>3. QED
        BY <4>2, <2>1
    <3>3. QED
      BY <3>1, <3>2, <2>5
  <2>6. QED
    BY <2>4, <2>5
<1>3. QED
  BY <1>2

\* What CommitBatch leaves of a slice: its suffix.
LEMMA SuffixProperties ==
  ASSUME NEW S, NEW s \in Seq(S), NEW n \in Nat, n <= Len(s)
  PROVE  /\ SubSeq(s, n + 1, Len(s)) \in Seq(S)
         /\ Len(SubSeq(s, n + 1, Len(s))) = Len(s) - n
         /\ \A i \in 1..(Len(s) - n) : SubSeq(s, n + 1, Len(s))[i] = s[n + i]
<1>1. Len(s) \in Nat
  BY LenProperties
<1>2. \A i \in (n + 1)..Len(s) : s[i] \in S
  BY <1>1, ElementOfSeq
<1>3. n + 1 \in Int /\ Len(s) \in Int
  BY <1>1
<1>4. /\ SubSeq(s, n + 1, Len(s)) \in Seq(S)
      /\ Len(SubSeq(s, n + 1, Len(s))) =
           IF n + 1 <= Len(s) THEN Len(s) - (n + 1) + 1 ELSE 0
      /\ \A i \in 1..(Len(s) - (n + 1) + 1) :
           SubSeq(s, n + 1, Len(s))[i] = s[n + 1 + i - 1]
  BY <1>2, <1>3, SubSeqProperties
<1>5. QED
  BY <1>1, <1>4

SlotsOf(q) == UNION {{k} \X (1..Len(q[k])) : k \in TaskKeys}

LEMMA SlotsMember ==
  ASSUME NEW q
  PROVE  \A p : p \in SlotsOf(q) <=>
                \E k \in TaskKeys : \E i \in 1..Len(q[k]) : p = <<k, i>>
BY DEF SlotsOf

\* Finitely many deltas are queued.
LEMMA SlotsFinite ==
  ASSUME NEW q \in [TaskKeys -> Seq(Updates)]
  PROVE  IsFiniteSet(SlotsOf(q))
<1> DEFINE Row(k) == {k} \X (1..Len(q[k]))
           Rows == {Row(k) : k \in TaskKeys}
<1>1. IsFiniteSet(Rows)
  <2> DEFINE row == [k \in TaskKeys |-> Row(k)]
  <2>1. row \in Surjection(TaskKeys, Rows)
    BY DEF Surjection
  <2>2. IsFiniteSet(TaskKeys)
    BY QueueAssumption
  <2>3. QED
    BY <2>1, <2>2, FS_Surjection
<1>2. ASSUME NEW k \in TaskKeys PROVE IsFiniteSet(Row(k))
  <2>1. Len(q[k]) \in Int
    BY LenProperties
  <2>2. IsFiniteSet(1..Len(q[k])) /\ IsFiniteSet({k})
    <3>1. 1 \in Int
      OBVIOUS
    <3>2. IsFiniteSet(1..Len(q[k]))
      BY <2>1, <3>1, FS_Interval
    <3>3. QED
      BY <3>2, FS_Singleton
  <2>3. QED
    BY <2>2, FS_Product
<1>3. IsFiniteSet(UNION Rows)
  BY <1>1, <1>2, FS_UNION
<1>4. QED
  BY <1>3 DEF SlotsOf

\* A delta appended to one slice adds one slot.
LEMMA SlotsAppend ==
  ASSUME NEW q \in [TaskKeys -> Seq(Updates)], NEW k \in TaskKeys, NEW u \in Updates
  PROVE  Cardinality(SlotsOf([q EXCEPT ![k] = Append(@, u)]))
           = Cardinality(SlotsOf(q)) + 1
<1> DEFINE r == [q EXCEPT ![k] = Append(@, u)]
           new == <<k, Len(q[k]) + 1>>
<1>1. \A j \in TaskKeys : Len(q[j]) \in Nat
  BY LenProperties
<1>2. \A j \in TaskKeys : Len(r[j]) = IF j = k THEN Len(q[k]) + 1 ELSE Len(q[j])
  BY AppendProperties
<1>3. SlotsOf(r) = SlotsOf(q) \cup {new}
  <2>1. ASSUME NEW p, p \in SlotsOf(r) PROVE p \in SlotsOf(q) \cup {new}
    <3> HIDE DEF r
    <3>1. PICK j, i : j \in TaskKeys /\ i \in 1..Len(r[j]) /\ p = <<j, i>>
      BY <2>1, SlotsMember
    <3> USE DEF r
    <3>2. CASE j = k /\ i = Len(q[k]) + 1
      BY <3>1, <3>2
    <3>3. CASE ~(j = k /\ i = Len(q[k]) + 1)
      <4>1. i \in 1..Len(q[j])
        BY <3>1, <3>3, <1>1, <1>2
      <4>2. QED
        BY <4>1, <3>1, SlotsMember
    <3>4. QED
      BY <3>2, <3>3
  <2>2. ASSUME NEW p, p \in SlotsOf(q) PROVE p \in SlotsOf(r)
    <3>1. PICK j, i : j \in TaskKeys /\ i \in 1..Len(q[j]) /\ p = <<j, i>>
      BY <2>2, SlotsMember
    <3>2. i \in 1..Len(r[j])
      BY <3>1, <1>1, <1>2
    <3>3. QED
      BY <3>1, <3>2, SlotsMember
  <2>3. new \in SlotsOf(r)
    <3>1. Len(q[k]) + 1 \in 1..Len(r[k])
      BY <1>1, <1>2
    <3>2. QED
      BY <3>1, SlotsMember
  <2>4. QED
    BY <2>1, <2>2, <2>3
<1>4. new \notin SlotsOf(q)
  <2>1. SUFFICES ASSUME NEW j \in TaskKeys, NEW i \in 1..Len(q[j]), new = <<j, i>>
                 PROVE  FALSE
    BY SlotsMember
  <2>2. QED
    BY <2>1, <1>1
<1>5. QED
  BY <1>3, <1>4, SlotsFinite, FS_AddElement

\* Removing the first n deltas of one slice removes n slots.
LEMMA SlotsDrop ==
  ASSUME NEW q \in [TaskKeys -> Seq(Updates)], NEW k \in TaskKeys,
         NEW n \in Nat, n <= Len(q[k])
  PROVE  LET r == [q EXCEPT ![k] = SubSeq(q[k], n + 1, Len(q[k]))]
         IN  /\ Cardinality(SlotsOf(r)) = Cardinality(SlotsOf(q)) - n
             /\ Cardinality(SlotsOf(q)) - n \in Nat
<1> DEFINE r == [q EXCEPT ![k] = SubSeq(q[k], n + 1, Len(q[k]))]
           L == Len(q[k])
           taken == {k} \X ((L - n + 1)..L)
<1>1. \A j \in TaskKeys : Len(q[j]) \in Nat
  BY LenProperties
<1>2. /\ r \in [TaskKeys -> Seq(Updates)]
      /\ \A j \in TaskKeys : Len(r[j]) = IF j = k THEN L - n ELSE Len(q[j])
  BY SuffixProperties
<1>3. SlotsOf(r) = SlotsOf(q) \ taken
  <2>1. ASSUME NEW p, p \in SlotsOf(r) PROVE p \in SlotsOf(q) \ taken
    <3> HIDE DEF r
    <3>1. PICK j, i : j \in TaskKeys /\ i \in 1..Len(r[j]) /\ p = <<j, i>>
      BY <2>1, SlotsMember
    <3> USE DEF r
    <3>2. i \in 1..Len(q[j])
      BY <3>1, <1>1, <1>2
    <3>3. p \notin taken
      BY <3>1, <1>1, <1>2
    <3>4. QED
      BY <3>1, <3>2, <3>3, SlotsMember
  <2>2. ASSUME NEW p, p \in SlotsOf(q) \ taken PROVE p \in SlotsOf(r)
    <3>1. PICK j, i : j \in TaskKeys /\ i \in 1..Len(q[j]) /\ p = <<j, i>>
      BY <2>2, SlotsMember
    <3>2. i \in 1..Len(r[j])
      BY <2>2, <3>1, <1>1, <1>2
    <3>3. QED
      BY <3>1, <3>2, SlotsMember
  <2>3. QED
    BY <2>1, <2>2
<1>4. SlotsOf(q) \cap taken = taken
  <2>1. ASSUME NEW i \in (L - n + 1)..L PROVE <<k, i>> \in SlotsOf(q)
    <3>1. i \in 1..L
      BY <1>1
    <3>2. QED
      BY <3>1, SlotsMember
  <2>2. QED
    BY <2>1
<1>5. IsFiniteSet(taken) /\ Cardinality(taken) = n
  <2>1. L - n + 1 \in Int /\ L \in Int
    BY <1>1
  <2>2. /\ IsFiniteSet((L - n + 1)..L)
        /\ Cardinality((L - n + 1)..L) = IF L - n + 1 > L THEN 0 ELSE L - (L - n + 1) + 1
    BY <2>1, FS_Interval
  <2>3. Cardinality((L - n + 1)..L) = n
    BY <2>2, <1>1
  <2>4. IsFiniteSet({k}) /\ Cardinality({k}) = 1
    BY FS_Singleton
  <2>5. IsFiniteSet(taken) /\ Cardinality(taken) = 1 * Cardinality((L - n + 1)..L)
    BY <2>2, <2>4, FS_Product
  <2>6. QED
    BY <2>3, <2>5
<1>6. IsFiniteSet(SlotsOf(q)) /\ IsFiniteSet(SlotsOf(r))
  BY <1>2, SlotsFinite
<1>7. Cardinality(SlotsOf(r)) = Cardinality(SlotsOf(q)) - n
  <2> HIDE DEF r, taken
  <2>1. QED
    BY <1>3, <1>4, <1>5, <1>6, FS_Difference
<1>8. Cardinality(SlotsOf(r)) \in Nat
  BY <1>6, FS_CardinalityType
<1>9. QED
  BY <1>7, <1>8

-----------------------------------------------------------------------------
(* The initial state *)

LEMMA InitIInv == Init => IInv
<1> SUFFICES ASSUME Init PROVE IInv
  OBVIOUS
<1>1. \A k \in TaskKeys : pending[k] = <<>> /\ accepted[k] = <<>>
  BY DEF Init
<1>2. <<>> \in Seq(Updates)
  OBVIOUS
<1>3. (CHOOSE k \in TaskKeys : TRUE) \in TaskKeys
  BY QueueAssumption
<1>4. TypeOK
  BY <1>2, <1>3 DEF Init, TypeOK, FlusherState
<1>5. BatchOK
  BY DEF Init, BatchOK, InBatch
<1>6. CountsPending
  <2>1. Slots = {}
    BY <1>1 DEF Slots
  <2>2. QED
    BY <2>1, FS_EmptySet, QueueAssumption DEF Init, CountsPending
<1>7. AcceptedKept
  BY <1>1 DEF AcceptedKept, Range
<1>8. QED
  BY <1>4, <1>5, <1>6, <1>7 DEF IInv

-----------------------------------------------------------------------------
(* Each action keeps the invariant *)

\* Enqueue appends one delta: one slot, one more element of `pending'.
LEMMA EnqueueIInv ==
  ASSUME IInv, NEW k \in TaskKeys, NEW u \in Updates, Enqueue(k, u)
  PROVE  IInv'
<1>0. TypeOK /\ BatchOK /\ CountsPending /\ AcceptedKept
  BY DEF IInv
<1>1. \A j \in TaskKeys : pending[j] \in Seq(Updates) /\ accepted[j] \in Seq(Updates)
  BY <1>0 DEF TypeOK
<1>2. /\ pending' = [pending EXCEPT ![k] = Append(@, u)]
      /\ accepted' = [accepted EXCEPT ![k] = Append(@, u)]
      /\ totalPending' = totalPending + 1
      /\ totalPending < MaxSaveQueueSize
      /\ UNCHANGED <<flusher, stream>>
  BY DEF Enqueue
<1>3. Append(pending[k], u) \in Seq(Updates) /\ Append(accepted[k], u) \in Seq(Updates)
  BY <1>1, AppendProperties
<1>4. TypeOK'
  BY <1>0, <1>1, <1>2, <1>3 DEF TypeOK, Enqueue, lifeVars
<1>5. BatchOK'
  <2>1. \A j \in TaskKeys : /\ Len(pending[j]) \in Nat
                            /\ Len(pending'[j]) \in Nat
                            /\ Len(pending[j]) <= Len(pending'[j])
                            /\ \A i \in 1..Len(pending[j]) : pending'[j][i] = pending[j][i]
    <3>1. TAKE j \in TaskKeys
    <3>2. Len(pending[j]) \in Nat
      BY <1>1, LenProperties
    <3>3. CASE j = k
      <4>1. pending'[j] = Append(pending[k], u)
        BY <1>0, <1>2, <3>3 DEF TypeOK
      <4>2. QED
        BY <3>2, <3>3, <4>1, <1>1, AppendProperties
    <3>4. CASE j # k
      BY <1>0, <1>2, <3>2, <3>4 DEF TypeOK
    <3>5. QED
      BY <3>3, <3>4
  <2>2. flusher.key \in TaskKeys /\ Len(flusher.batch) \in Nat
    BY <1>0 DEF TypeOK, FlusherState
  <2>3. QED
    BY <1>0, <1>2, <2>1, <2>2 DEF BatchOK, InBatch
<1>6. CountsPending'
  <2>1. Slots = SlotsOf(pending) /\ Slots' = SlotsOf(pending')
    BY DEF Slots, SlotsOf
  <2>2. Cardinality(SlotsOf(pending')) = Cardinality(SlotsOf(pending)) + 1
    BY <1>0, <1>2, SlotsAppend DEF TypeOK
  <2>3. QED
    BY <1>0, <1>2, <2>1, <2>2, QueueAssumption DEF CountsPending, TypeOK
<1>7. AcceptedKept'
  <2>1. \A j \in TaskKeys : /\ Range(pending'[j]) = Range(pending[j]) \cup (IF j = k THEN {u} ELSE {})
                            /\ Range(accepted'[j]) = Range(accepted[j]) \cup (IF j = k THEN {u} ELSE {})
    BY <1>0, <1>1, <1>2, RangeOfAppend DEF TypeOK
  <2>2. QED
    BY <1>0, <1>2, <2>1 DEF AcceptedKept
<1>8. QED
  BY <1>4, <1>5, <1>6, <1>7 DEF IInv

\* GetBatch copies a prefix of the slice.
LEMMA GetBatchIInv ==
  ASSUME IInv, NEW k \in TaskKeys, GetBatch(k)
  PROVE  IInv'
<1>0. TypeOK /\ BatchOK /\ CountsPending /\ AcceptedKept
  BY DEF IInv
<1> DEFINE n == IF Len(pending[k]) < MaxBatchSize THEN Len(pending[k]) ELSE MaxBatchSize
           b == SubSeq(pending[k], 1, n)
<1>1. /\ flusher' = [flusher EXCEPT !.pc = "xadd", !.keys = @ \ {k}, !.key = k,
                                    !.batch = b, !.done = 0]
      /\ UNCHANGED <<pending, totalPending, stream, accepted>>
  BY DEF GetBatch, queueVars
<1>2. pending[k] \in Seq(Updates) /\ Len(pending[k]) \in Nat /\ n \in Nat /\ n <= Len(pending[k])
  <2>1. pending[k] \in Seq(Updates)
    BY <1>0 DEF TypeOK
  <2>2. QED
    BY <2>1, LenProperties, QueueAssumption
<1>3. b \in Seq(Updates) /\ Len(b) = n /\ \A i \in 1..n : b[i] = pending[k][i]
  <2>1. \A i \in 1..n : pending[k][i] \in Updates
    BY <1>2, ElementOfSeq
  <2> HIDE DEF n
  <2>2. 1 \in Int /\ n \in Int
    BY <1>2
  <2>3. /\ b \in Seq(Updates)
        /\ Len(b) = IF 1 <= n THEN n - 1 + 1 ELSE 0
        /\ \A i \in 1..(n - 1 + 1) : b[i] = pending[k][1 + i - 1]
    BY <2>1, <2>2, SubSeqProperties
  <2>4. QED
    BY <1>2, <2>3
<1> HIDE DEF n, b
<1>4. TypeOK'
  <2>1. flusher' \in FlusherState
    BY <1>0, <1>1, <1>3 DEF TypeOK, FlusherState
  <2>2. QED
    BY <1>0, <2>1 DEF TypeOK, GetBatch, queueVars, lifeVars
<1>5. BatchOK'
  BY <1>0, <1>1, <1>2, <1>3 DEF BatchOK, InBatch, TypeOK, FlusherState
<1>6. CountsPending'
  BY <1>0, <1>1 DEF CountsPending, Slots
<1>7. AcceptedKept'
  BY <1>0, <1>1 DEF AcceptedKept
<1>8. QED
  BY <1>4, <1>5, <1>6, <1>7 DEF IInv

\* The stream only grows, and it grows by the delta the flusher counts.
LEMMA AppendToStream ==
  ASSUME TypeOK, InBatch, flusher.done < Len(flusher.batch), AcceptedKept,
         stream' = [stream EXCEPT ![flusher.key] =
                      Append(@, flusher.batch[flusher.done + 1])],
         UNCHANGED <<pending, accepted>>
  PROVE  /\ stream' \in [TaskKeys -> Seq(Updates)]
         /\ \A k \in TaskKeys : Range(stream[k]) \subseteq Range(stream'[k])
         /\ flusher.batch[flusher.done + 1] \in Range(stream'[flusher.key])
         /\ AcceptedKept'
<1> DEFINE u == flusher.batch[flusher.done + 1]
<1>1. /\ flusher.key \in TaskKeys
      /\ flusher.batch \in Seq(Updates)
      /\ flusher.done + 1 \in 1..Len(flusher.batch)
  BY LenProperties DEF TypeOK, FlusherState
<1>2. u \in Updates
  BY <1>1, ElementOfSeq
<1> HIDE DEF u
<1>3. stream' = [stream EXCEPT ![flusher.key] = Append(@, u)]
  BY DEF u
<1>4. \A k \in TaskKeys : stream[k] \in Seq(Updates)
  BY DEF TypeOK
<1>5. Append(stream[flusher.key], u) \in Seq(Updates)
  BY <1>1, <1>2, <1>4, AppendProperties
<1>6. \A k \in TaskKeys : Range(stream'[k]) =
        Range(stream[k]) \cup (IF k = flusher.key THEN {u} ELSE {})
  BY <1>1, <1>2, <1>3, <1>4, RangeOfAppend DEF TypeOK
<1>7. AcceptedKept'
  BY <1>6 DEF AcceptedKept
<1>8. QED
  BY <1>1, <1>3, <1>5, <1>6, <1>7 DEF TypeOK, u

LEMMA XAddIInv ==
  ASSUME IInv, XAdd
  PROVE  IInv'
<1>0. TypeOK /\ BatchOK /\ CountsPending /\ AcceptedKept
  BY DEF IInv
<1>1. /\ flusher.pc = "xadd" /\ flusher.done < Len(flusher.batch)
      /\ flusher' = [flusher EXCEPT !.done = @ + 1]
      /\ UNCHANGED <<queueVars, lifeVars, faults, accepted>>
  BY DEF XAdd
<1>2. /\ stream' \in [TaskKeys -> Seq(Updates)]
      /\ \A k \in TaskKeys : Range(stream[k]) \subseteq Range(stream'[k])
      /\ flusher.batch[flusher.done + 1] \in Range(stream'[flusher.key])
      /\ AcceptedKept'
  BY <1>0, <1>1, AppendToStream DEF XAdd, queueVars, InBatch
<1>3. TypeOK'
  <2>1. flusher' \in FlusherState
    <3>1. flusher \in FlusherState /\ flusher.done + 1 \in Nat
      BY <1>0 DEF TypeOK, FlusherState
    <3>2. QED
      BY <3>1, <1>1 DEF FlusherState
  <2>2. QED
    BY <1>0, <1>1, <1>2, <2>1 DEF TypeOK, queueVars, lifeVars
<1>4. BatchOK'
  <2>1. /\ flusher.key \in TaskKeys /\ flusher.done \in Nat
        /\ Len(flusher.batch) \in Nat
        /\ flusher'.done = flusher.done + 1
        /\ flusher'.batch = flusher.batch /\ flusher'.key = flusher.key
        /\ flusher'.pc = flusher.pc
    BY <1>0, <1>1 DEF TypeOK, FlusherState
  <2>2. \A i \in 1..flusher'.done : flusher.batch[i] \in Range(stream'[flusher.key])
    <3>1. TAKE i \in 1..flusher'.done
    <3>2. CASE i = flusher.done + 1
      BY <3>2, <1>2
    <3>3. CASE i \in 1..flusher.done
      BY <3>3, <1>0, <1>1, <1>2, <2>1 DEF BatchOK, InBatch
    <3>4. QED
      BY <3>2, <3>3, <2>1
  <2>3. QED
    BY <1>0, <1>1, <2>1, <2>2 DEF BatchOK, InBatch, queueVars
<1>5. CountsPending'
  BY <1>0, <1>1 DEF CountsPending, Slots, queueVars
<1>6. QED
  BY <1>2, <1>3, <1>4, <1>5 DEF IInv

\* A failed XADD may have reached the stream; it is not counted.
LEMMA XAddFailsIInv ==
  ASSUME IInv, XAddFails
  PROVE  IInv'
<1>0. TypeOK /\ BatchOK /\ CountsPending /\ AcceptedKept
  BY DEF IInv
<1>1. /\ flusher.pc = "xadd" /\ flusher.done < Len(flusher.batch)
      /\ flusher' = [flusher EXCEPT !.pc = "commit"]
      /\ faults' \in BOOLEAN
      /\ UNCHANGED <<queueVars, lifeVars, accepted>>
  BY <1>0 DEF XAddFails, RedisUp, TypeOK, FlusherState
<1>2. /\ stream' \in [TaskKeys -> Seq(Updates)]
      /\ \A k \in TaskKeys : Range(stream[k]) \subseteq Range(stream'[k])
      /\ AcceptedKept'
  <2>1. CASE UNCHANGED stream
    BY <2>1, <1>0, <1>1 DEF TypeOK, AcceptedKept, queueVars
  <2>2. CASE ~UNCHANGED stream
    BY <2>2, <1>0, <1>1, AppendToStream DEF XAddFails, queueVars, InBatch
  <2>3. QED
    BY <2>1, <2>2
<1>3. TypeOK'
  <2>1. flusher' \in FlusherState
    BY <1>0, <1>1 DEF TypeOK, FlusherState
  <2>2. QED
    BY <1>0, <1>1, <1>2, <2>1 DEF TypeOK, queueVars, lifeVars
<1>4. BatchOK'
  <2>1. /\ flusher.key \in TaskKeys
        /\ flusher'.done = flusher.done
        /\ flusher'.batch = flusher.batch /\ flusher'.key = flusher.key
        /\ flusher'.pc = "commit"
    BY <1>0, <1>1 DEF TypeOK, FlusherState
  <2>2. QED
    BY <1>0, <1>1, <1>2, <2>1 DEF BatchOK, InBatch, queueVars
<1>5. CountsPending'
  BY <1>0, <1>1 DEF CountsPending, Slots, queueVars
<1>6. QED
  BY <1>2, <1>3, <1>4, <1>5 DEF IInv

\* CommitBatch removes the first n deltas of the slice, whichever branch it takes.
LEMMA CommitBatchCuts ==
  ASSUME TypeOK, NEW k \in TaskKeys, NEW n \in Nat, n <= Len(pending[k]),
         CommitBatch(k, n)
  PROVE  /\ pending' = [pending EXCEPT ![k] = SubSeq(pending[k], n + 1, Len(pending[k]))]
         /\ totalPending' = totalPending - n
<1>1. pending[k] \in Seq(Updates) /\ Len(pending[k]) \in Nat
  BY LenProperties DEF TypeOK
<1>2. CASE n >= Len(pending[k])
  <2>1. n = Len(pending[k])
    BY <1>1, <1>2
  <2>2. SubSeq(pending[k], n + 1, Len(pending[k])) = <<>>
    BY <1>1, <2>1, SubSeqEmpty
  <2>3. QED
    BY <1>2, <2>1, <2>2 DEF CommitBatch
<1>3. CASE ~(n >= Len(pending[k]))
  BY <1>3 DEF CommitBatch
<1>4. QED
  BY <1>2, <1>3

\* What Commit cuts is what BatchOK says is in Redis.
LEMMA CommitIInv ==
  ASSUME IInv, Commit
  PROVE  IInv'
<1>0. TypeOK /\ BatchOK /\ CountsPending /\ AcceptedKept
  BY DEF IInv
<1> DEFINE k == flusher.key
           n == flusher.done
<1>1. /\ flusher.pc = "commit"
      /\ flusher' = [flusher EXCEPT !.pc = "keys", !.batch = <<>>, !.done = 0]
      /\ UNCHANGED <<notify, lifeVars, stream, faults, accepted>>
  BY DEF Commit
<1>2. /\ k \in TaskKeys /\ n \in Nat
      /\ flusher.batch \in Seq(Updates) /\ Len(flusher.batch) \in Nat
      /\ pending[k] \in Seq(Updates) /\ Len(pending[k]) \in Nat
      /\ n <= Len(flusher.batch) /\ Len(flusher.batch) <= Len(pending[k])
  BY <1>0, <1>1, LenProperties DEF TypeOK, FlusherState, BatchOK, InBatch
<1>3. n <= Len(pending[k])
  BY <1>2
<1>4. \A i \in 1..n : pending[k][i] \in Range(stream[k])
  BY <1>0, <1>1, <1>2 DEF BatchOK, InBatch
<1>5. /\ pending' = [pending EXCEPT ![k] = SubSeq(pending[k], n + 1, Len(pending[k]))]
      /\ totalPending' = totalPending - n
  <2>1. CASE n > 0
    BY <2>1, <1>0, <1>2, <1>3, CommitBatchCuts DEF Commit
  <2>2. CASE ~(n > 0)
    <3>1. n = 0
      BY <2>2, <1>2
    <3>2. SubSeq(pending[k], n + 1, Len(pending[k])) = pending[k]
      BY <3>1, <1>2, SubSeqFull
    <3>3. UNCHANGED <<pending, totalPending>>
      BY <2>2 DEF Commit
    <3>4. QED
      BY <3>1, <3>2, <3>3, <1>0 DEF TypeOK
  <2>3. QED
    BY <2>1, <2>2
<1> HIDE DEF k, n
<1>6. /\ SubSeq(pending[k], n + 1, Len(pending[k])) \in Seq(Updates)
      /\ \A i \in 1..(Len(pending[k]) - n) :
           SubSeq(pending[k], n + 1, Len(pending[k]))[i] = pending[k][n + i]
      /\ Len(SubSeq(pending[k], n + 1, Len(pending[k]))) = Len(pending[k]) - n
  BY <1>2, <1>3, SuffixProperties
<1>7. CountsPending' /\ totalPending' \in Nat
  <2>1. Slots = SlotsOf(pending) /\ Slots' = SlotsOf(pending')
    BY DEF Slots, SlotsOf
  <2>2. /\ Cardinality(SlotsOf(pending')) = Cardinality(SlotsOf(pending)) - n
        /\ Cardinality(SlotsOf(pending)) - n \in Nat
    BY <1>0, <1>2, <1>3, <1>5, SlotsDrop DEF TypeOK
  <2>3. QED
    BY <1>0, <1>2, <1>5, <2>1, <2>2, QueueAssumption DEF CountsPending, TypeOK
<1>8. TypeOK'
  <2>1. flusher' \in FlusherState
    <3>1. <<>> \in Seq(Updates) /\ 0 \in Nat
      OBVIOUS
    <3>2. QED
      BY <3>1, <1>0, <1>1 DEF TypeOK, FlusherState
  <2>2. pending' \in [TaskKeys -> Seq(Updates)]
    BY <1>0, <1>5, <1>6 DEF TypeOK
  <2>3. QED
    BY <1>0, <1>1, <1>7, <2>1, <2>2 DEF TypeOK, lifeVars
<1>9. BatchOK'
  <2>1. flusher'.pc = "keys" /\ flusher'.done = 0 /\ flusher'.batch = <<>>
    BY <1>0, <1>1 DEF TypeOK, FlusherState
  <2>2. QED
    BY <2>1 DEF BatchOK, InBatch
<1>10. AcceptedKept'
  <2>1. SUFFICES ASSUME NEW j \in TaskKeys, NEW x \in Range(accepted[j])
                 PROVE  x \in Range(pending'[j]) \cup Range(stream[j])
    BY <1>1 DEF AcceptedKept
  <2>2. x \in Range(pending[j]) \cup Range(stream[j])
    BY <1>0 DEF AcceptedKept
  <2>3. CASE j # k
    BY <2>2, <2>3, <1>0, <1>5 DEF TypeOK
  <2>4. CASE j = k /\ x \in Range(pending[k])
    <3>1. PICK i \in 1..Len(pending[k]) : pending[k][i] = x
      BY <2>4, <1>2, RangeByIndex
    <3>2. CASE i \in 1..n
      BY <3>1, <3>2, <2>4, <1>4
    <3>3. CASE i \notin 1..n
      <4>1. i - n \in 1..(Len(pending[k]) - n) /\ n + (i - n) = i
        BY <3>3, <1>2, <1>3
      <4>2. pending'[k] = SubSeq(pending[k], n + 1, Len(pending[k]))
        BY <1>0, <1>2, <1>5 DEF TypeOK
      <4>3. pending'[k][i - n] = x /\ i - n \in 1..Len(pending'[k])
        BY <3>1, <4>1, <4>2, <1>6
      <4>4. pending'[k] \in Seq(Updates)
        BY <4>2, <1>6
      <4>5. x \in Range(pending'[k])
        BY <4>3, <4>4, RangeByIndex
      <4>6. QED
        BY <4>5, <2>4
    <3>4. QED
      BY <3>2, <3>3
  <2>5. QED
    BY <2>2, <2>3, <2>4
<1>11. QED
  BY <1>7, <1>8, <1>9, <1>10 DEF IInv

\* The steps that only move the flusher between its loops.
LEMMA FlusherMovesIInv ==
  ASSUME IInv,
         \/ Tick \/ StartFinal \/ BatchDone \/ FlushReturns
         \/ FinalLoop \/ FinalTimeout \/ Progress
  PROVE  IInv'
<1>0. TypeOK /\ BatchOK /\ CountsPending /\ AcceptedKept
  BY DEF IInv
<1>1. /\ UNCHANGED <<pending, totalPending, lifeVars, stream, accepted>>
      /\ notify' \in BOOLEAN /\ faults' \in BOOLEAN
  BY <1>0 DEF TypeOK, Tick, StartFinal, BatchDone, FlushReturns, FinalLoop,
              FinalTimeout, Progress, queueVars
<1>2. PendingKeys \subseteq TaskKeys
  BY DEF PendingKeys
<1>3. flusher' \in FlusherState
  BY <1>0, <1>2 DEF TypeOK, FlusherState, Tick, StartFinal, BatchDone,
                    FlushReturns, FinalLoop, FinalTimeout, Progress
<1>4. /\ flusher'.done = flusher.done
      /\ flusher'.batch = flusher.batch /\ flusher'.key = flusher.key
      /\ InBatch' <=> InBatch
  BY <1>0 DEF TypeOK, FlusherState, InBatch, Tick, StartFinal, BatchDone,
              FlushReturns, FinalLoop, FinalTimeout, Progress
<1>5. TypeOK'
  BY <1>0, <1>1, <1>3 DEF TypeOK, lifeVars
<1>6. BatchOK'
  BY <1>0, <1>1, <1>4 DEF BatchOK
<1>7. CountsPending'
  BY <1>0, <1>1 DEF CountsPending, Slots
<1>8. AcceptedKept'
  BY <1>0, <1>1 DEF AcceptedKept
<1>9. QED
  BY <1>5, <1>6, <1>7, <1>8 DEF IInv

\* The room stops, Redis closes, or nothing happens.
LEMMA LifeIInv ==
  ASSUME IInv,
         IdleReap \/ Shutdown \/ RunReturns \/ RedisClose \/ UNCHANGED vars
  PROVE  IInv'
<1>0. TypeOK /\ BatchOK /\ CountsPending /\ AcceptedKept
  BY DEF IInv
<1>1. UNCHANGED <<queueVars, flusher, stream, faults, accepted>>
  BY DEF IdleReap, Shutdown, RunReturns, RedisClose, vars, queueVars
<1>2. /\ doneC' \in BOOLEAN /\ ctxDone' \in BOOLEAN
      /\ room' \in {"running", "exited"} /\ redis' \in {"open", "closed"}
  BY <1>0 DEF TypeOK, IdleReap, Shutdown, RunReturns, RedisClose, vars
<1>3. TypeOK'
  BY <1>0, <1>1, <1>2 DEF TypeOK, queueVars
<1>4. BatchOK'
  BY <1>0, <1>1 DEF BatchOK, InBatch, queueVars
<1>5. CountsPending'
  BY <1>0, <1>1 DEF CountsPending, Slots, queueVars
<1>6. AcceptedKept'
  BY <1>0, <1>1 DEF AcceptedKept, queueVars
<1>7. QED
  BY <1>3, <1>4, <1>5, <1>6 DEF IInv

LEMMA NextIInv == IInv /\ [Next]_vars => IInv'
<1> SUFFICES ASSUME IInv, [Next]_vars PROVE IInv'
  OBVIOUS
<1>1. ASSUME NEW k \in TaskKeys, NEW u \in Updates, Enqueue(k, u) PROVE IInv'
  BY <1>1, EnqueueIInv
<1>2. CASE IdleReap \/ Shutdown \/ RunReturns \/ RedisClose
  BY <1>2, LifeIInv
<1>3. CASE FlusherStep
  <2>1. ASSUME NEW k \in TaskKeys, GetBatch(k) PROVE IInv'
    BY <2>1, GetBatchIInv
  <2>2. CASE XAdd
    BY <2>2, XAddIInv
  <2>3. CASE XAddFails
    BY <2>3, XAddFailsIInv
  <2>4. CASE Commit
    BY <2>4, CommitIInv
  <2>5. CASE \/ Tick \/ StartFinal \/ BatchDone \/ FlushReturns
             \/ FinalLoop \/ FinalTimeout \/ Progress
    BY <2>5, FlusherMovesIInv
  <2>6. QED
    BY <1>3, <2>1, <2>2, <2>3, <2>4, <2>5 DEF FlusherStep
<1>4. CASE Done \/ UNCHANGED vars
  BY <1>4, LifeIInv DEF Done
<1>5. QED
  BY <1>1, <1>2, <1>3, <1>4 DEF Next

-----------------------------------------------------------------------------
(* The theorems *)

\* The inductive invariant holds in every behaviour of the queue.
THEOREM Invariance == Spec => []IInv
<1>1. Init => IInv
  BY InitIInv
<1>2. IInv /\ [Next]_vars => IInv'
  BY NextIInv
<1>3. QED
  BY <1>1, <1>2, PTL DEF Spec

\* The state of the queue and its flusher is well typed; in particular the
\* counter, which CommitBatch lowers, never goes below zero (save_queue.go:126).
THEOREM TypeCorrect == Spec => []TypeOK
<1>1. IInv => TypeOK
  BY DEF IInv
<1>2. QED
  BY <1>1, Invariance, PTL

\* For every capacity and batch size, and however Enqueue and the flusher
\* interleave, a delta the author was acknowledged for is in the queue or in
\* the stream (FlushSync commits only what it has written).
THEOREM NothingAcceptedIsDropped == Spec => []AcceptedKept
<1>1. IInv => AcceptedKept
  BY DEF IInv
<1>2. QED
  BY <1>1, Invariance, PTL

\* totalPending is the number of queued deltas and never passes the capacity.
THEOREM CounterAgrees == Spec => []CountsPending
<1>1. IInv => CountsPending
  BY DEF IInv
<1>2. QED
  BY <1>1, Invariance, PTL

-----------------------------------------------------------------------------
(* The final flush of a room the idle reaper has closed *)

\* The final flush of a room that is closed, and not by a shutdown, while Redis
\* has answered throughout.
Undisturbed == flusher.final /\ ~ctxDone /\ ~faults

\* Such a room takes no delta any more, and each iteration of finalFlush has a
\* key to visit until it has written and committed one delta at least.
FinalOK ==
  /\ redis = "closed" => ctxDone
  /\ doneC /\ ~ctxDone => room = "exited"
  /\ flusher.final => doneC \/ ctxDone
  /\ flusher.pc \in {"final", "progress", "stopped"} => flusher.final
  /\ flusher.pc = "select" => ~flusher.final
  /\ \A k \in flusher.keys : pending[k] # <<>>
  /\ InBatch => flusher.key \notin flusher.keys /\ Len(flusher.batch) > 0
  /\ Undisturbed =>
       /\ flusher.pc = "keys" \/ InBatch => totalPending <= flusher.before
       /\ flusher.pc = "keys" => flusher.keys # {} \/ totalPending < flusher.before
       /\ flusher.pc = "commit" => flusher.done > 0
       /\ flusher.pc = "progress" => totalPending < flusher.before
       /\ flusher.pc = "stopped" => \A k \in TaskKeys : pending[k] = <<>>

\* The counter tells whether anything is queued.
LEMMA CountedOut ==
  ASSUME IInv
  PROVE  /\ totalPending = 0 => \A k \in TaskKeys : pending[k] = <<>>
         /\ totalPending > 0 => PendingKeys # {}
<1>1. /\ pending \in [TaskKeys -> Seq(Updates)]
      /\ totalPending = Cardinality(Slots) /\ Slots = SlotsOf(pending)
  BY DEF IInv, TypeOK, CountsPending, Slots, SlotsOf
<1>2. IsFiniteSet(Slots)
  BY <1>1, SlotsFinite
<1>3. \A k \in TaskKeys : Len(pending[k]) \in Nat /\ (pending[k] # <<>> => Len(pending[k]) > 0)
  BY <1>1, LenProperties, EmptySeq
<1>4. ASSUME NEW k \in TaskKeys, pending[k] # <<>>
      PROVE  Slots # {}
  <2>1. <<k, 1>> \in SlotsOf(pending)
    <3>1. 1 \in 1..Len(pending[k])
      BY <1>3, <1>4
    <3>2. QED
      BY <3>1, SlotsMember
  <2>2. QED
    BY <1>1, <2>1
<1>5. totalPending = 0 => \A k \in TaskKeys : pending[k] = <<>>
  <2>1. Cardinality(Slots) = 0 => Slots = {}
    BY <1>2, FS_EmptySet
  <2>2. QED
    BY <1>1, <1>4, <2>1
<1>6. totalPending > 0 => PendingKeys # {}
  <2>1. SUFFICES ASSUME PendingKeys = {} PROVE ~(totalPending > 0)
    OBVIOUS
  <2>2. \A k \in TaskKeys : pending[k] = <<>>
    BY <2>1 DEF PendingKeys
  <2>3. SlotsOf(pending) = {}
    <3>1. \A k \in TaskKeys : 1..Len(pending[k]) = {}
      BY <2>2
    <3>2. QED
      BY <3>1 DEF SlotsOf
  <2>4. QED
    BY <1>1, <2>3, FS_EmptySet
<1>7. QED
  BY <1>5, <1>6

LEMMA InitFinal == Init => FinalOK
BY DEF Init, FinalOK, InBatch, Undisturbed

\* A room that runs and takes deltas is in no undisturbed final flush.
LEMMA EnqueueFinal ==
  ASSUME IInv, FinalOK, NEW k \in TaskKeys, NEW u \in Updates, Enqueue(k, u)
  PROVE  FinalOK'
<1>1. ~Undisturbed
  BY DEF Enqueue, FinalOK, Undisturbed
<1>2. UNCHANGED <<lifeVars, flusher, faults>> /\ pending' = [pending EXCEPT ![k] = Append(@, u)]
  BY DEF Enqueue
<1>3. pending \in [TaskKeys -> Seq(Updates)]
  BY DEF IInv, TypeOK
<1>4. \A j \in TaskKeys : pending[j] # <<>> => pending'[j] # <<>>
  <2>1. Append(pending[k], u) # <<>>
    BY <1>3, AppendProperties
  <2>2. QED
    BY <1>2, <1>3, <2>1
<1>5. flusher.keys \subseteq TaskKeys
  BY DEF IInv, TypeOK, FlusherState
<1>6. QED
  BY <1>1, <1>2, <1>4, <1>5 DEF FinalOK, InBatch, Undisturbed, lifeVars

\* Closing the room, or Redis, or a step of the flusher alone.
LEMMA LifeFinal ==
  ASSUME IInv, FinalOK,
         IdleReap \/ Shutdown \/ RunReturns \/ RedisClose \/ UNCHANGED vars
  PROVE  FinalOK'
<1>1. UNCHANGED <<queueVars, flusher, faults>>
  BY DEF IdleReap, Shutdown, RunReturns, RedisClose, vars, queueVars
<1>2. ctxDone => ctxDone'
  BY DEF IdleReap, Shutdown, RunReturns, RedisClose, vars
<1>3. /\ redis' = "closed" => ctxDone'
      /\ doneC' /\ ~ctxDone' => room' = "exited"
      /\ doneC \/ ctxDone => doneC' \/ ctxDone'
  BY DEF FinalOK, IdleReap, Shutdown, RunReturns, RedisClose, vars
<1>4. QED
  BY <1>1, <1>2, <1>3 DEF FinalOK, InBatch, Undisturbed, queueVars

LEMMA MovesFinal ==
  ASSUME IInv, FinalOK,
         \/ Tick \/ StartFinal \/ XAdd \/ XAddFails \/ BatchDone \/ FlushReturns
         \/ FinalLoop \/ FinalTimeout \/ Progress
  PROVE  FinalOK'
<1>1. UNCHANGED <<pending, totalPending, lifeVars>>
  BY DEF Tick, StartFinal, XAdd, XAddFails, BatchDone, FlushReturns, FinalLoop,
         FinalTimeout, Progress, queueVars
<1>2. flusher \in FlusherState /\ totalPending \in Nat /\ faults \in BOOLEAN
  BY DEF IInv, TypeOK
<1>3. \A k \in PendingKeys : pending[k] # <<>>
  BY DEF PendingKeys
<1>4. CASE Tick \/ StartFinal
  BY <1>1, <1>2, <1>3, <1>4 DEF Tick, StartFinal, FinalOK, InBatch, Undisturbed, FlusherState,
     lifeVars
<1>5. CASE XAdd \/ BatchDone
  <2>1. Len(flusher.batch) \in Nat /\ flusher.done \in Nat
    BY <1>2, LenProperties DEF FlusherState
  <2>2. QED
    BY <1>1, <1>2, <1>5, <2>1 DEF XAdd, BatchDone, FinalOK, InBatch, Undisturbed, FlusherState,
       lifeVars
<1>6. CASE XAddFails
  <2>1. Undisturbed => faults'
    BY <1>6, <1>2 DEF XAddFails, RedisUp, Undisturbed, FinalOK, IInv, TypeOK
  <2>2. flusher' = [flusher EXCEPT !.pc = "commit"] /\ flusher.pc = "xadd" /\ (faults => faults')
    BY <1>6, <1>2 DEF XAddFails
  <2>3. QED
    BY <1>1, <1>2, <2>1, <2>2 DEF FinalOK, InBatch, Undisturbed, FlusherState, lifeVars
<1>7. CASE FlushReturns \/ Progress
  BY <1>1, <1>2, <1>7 DEF FlushReturns, Progress, FinalOK, InBatch, Undisturbed, FlusherState,
     lifeVars
<1>8. CASE FinalLoop
  BY <1>1, <1>2, <1>3, <1>8, CountedOut DEF FinalLoop, FinalOK, InBatch, Undisturbed,
     FlusherState, lifeVars
<1>9. CASE FinalTimeout
  BY <1>1, <1>2, <1>9 DEF FinalTimeout, FinalOK, InBatch, Undisturbed, FlusherState, lifeVars
<1>10. QED
  BY <1>4, <1>5, <1>6, <1>7, <1>8, <1>9

\* A key of PendingKeys still has something queued when its turn comes.
LEMMA GetBatchFinal ==
  ASSUME IInv, FinalOK, NEW k \in TaskKeys, GetBatch(k)
  PROVE  FinalOK'
<1> DEFINE n == IF Len(pending[k]) < MaxBatchSize THEN Len(pending[k]) ELSE MaxBatchSize
           b == SubSeq(pending[k], 1, n)
<1>1. /\ flusher' = [flusher EXCEPT !.pc = "xadd", !.keys = @ \ {k}, !.key = k,
                                    !.batch = b, !.done = 0]
      /\ UNCHANGED <<pending, totalPending, lifeVars, faults>>
      /\ flusher.pc = "keys" /\ k \in flusher.keys
  BY DEF GetBatch, queueVars
<1>2. flusher \in FlusherState
  BY DEF IInv, TypeOK
<1>3. Len(b) > 0
  <2>1. pending[k] \in Seq(Updates) /\ Len(pending[k]) \in Nat /\ pending[k] # <<>>
    BY <1>1, LenProperties DEF IInv, TypeOK, FinalOK
  <2>2. n \in Nat /\ n >= 1 /\ n <= Len(pending[k])
    BY <2>1, EmptySeq, QueueAssumption
  <2> HIDE DEF n
  <2>3. \A i \in 1..n : pending[k][i] \in Updates
    BY <2>1, <2>2, ElementOfSeq
  <2>4. Len(b) = IF 1 <= n THEN n - 1 + 1 ELSE 0
    BY <2>2, <2>3, SubSeqProperties
  <2>5. QED
    BY <2>2, <2>4
<1> HIDE DEF n, b
<1>4. QED
  BY <1>1, <1>2, <1>3 DEF FinalOK, InBatch, Undisturbed, FlusherState, lifeVars

\* A commit of an undisturbed flush removes one delta at least.
LEMMA CommitFinal ==
  ASSUME IInv, FinalOK, Commit
  PROVE  FinalOK'
<1> DEFINE k == flusher.key
           n == flusher.done
<1>1. /\ flusher.pc = "commit"
      /\ flusher' = [flusher EXCEPT !.pc = "keys", !.batch = <<>>, !.done = 0]
      /\ UNCHANGED <<lifeVars, faults>>
  BY DEF Commit
<1>2. /\ flusher \in FlusherState /\ k \in TaskKeys /\ n \in Nat
      /\ totalPending \in Nat /\ n <= Len(pending[k])
  BY <1>1, LenProperties DEF IInv, TypeOK, FlusherState, BatchOK, InBatch
<1>3. n > 0 => totalPending' = totalPending - n
  BY <1>2, CommitBatchCuts DEF Commit, IInv
<1>4. n = 0 => totalPending' = totalPending
  BY <1>2 DEF Commit
<1>5. \A j \in TaskKeys : j # k => pending'[j] = pending[j]
  BY DEF Commit, CommitBatch, IInv, TypeOK
<1>6. /\ k \notin flusher.keys /\ flusher.keys \subseteq TaskKeys
      /\ Undisturbed => n > 0 /\ totalPending <= flusher.before
  BY <1>1, <1>2 DEF FinalOK, InBatch, FlusherState
<1>7. flusher.before \in Nat
  BY <1>2 DEF FlusherState
<1>8. Undisturbed' => totalPending' < flusher'.before
  BY <1>1, <1>2, <1>3, <1>6, <1>7 DEF Undisturbed, FlusherState, lifeVars
<1>9. \A j \in flusher'.keys : pending'[j] # <<>>
  BY <1>1, <1>2, <1>5, <1>6 DEF FinalOK, FlusherState
<1>10. totalPending' \in Nat
  BY <1>2, CommitIInv DEF IInv, TypeOK
<1>11. QED
  BY <1>1, <1>2, <1>7, <1>8, <1>9, <1>10 DEF FinalOK, InBatch, Undisturbed, FlusherState,
     lifeVars

\* A room that closed for want of clients leaves nothing behind in memory when
\* its flusher ends, for any batches and any number of deltas, unless a call to
\* Redis failed: finalFlush goes on as long as it makes progress.
THEOREM ReapedRoomsAreSaved == Spec => []IdleReapSavesAll
<1>1. Init => FinalOK
  BY InitFinal
<1>2. IInv /\ FinalOK /\ [Next]_vars => FinalOK'
  <2> SUFFICES ASSUME IInv, FinalOK, [Next]_vars PROVE FinalOK'
    OBVIOUS
  <2>1. ASSUME NEW k \in TaskKeys, NEW u \in Updates, Enqueue(k, u) PROVE FinalOK'
    BY <2>1, EnqueueFinal
  <2>2. CASE IdleReap \/ Shutdown \/ RunReturns \/ RedisClose
    BY <2>2, LifeFinal
  <2>3. CASE FlusherStep
    <3>1. ASSUME NEW k \in TaskKeys, GetBatch(k) PROVE FinalOK'
      BY <3>1, GetBatchFinal
    <3>2. CASE Commit
      BY <3>2, CommitFinal
    <3>3. QED
      BY <2>3, <3>1, <3>2, MovesFinal DEF FlusherStep
  <2>4. CASE Done \/ UNCHANGED vars
    BY <2>4, LifeFinal DEF Done
  <2>5. QED
    BY <2>1, <2>2, <2>3, <2>4 DEF Next
<1>3. IInv /\ FinalOK => IdleReapSavesAll
  BY DEF FinalOK, IdleReapSavesAll, Undisturbed
<1>4. QED
  BY <1>1, <1>2, <1>3, Invariance, PTL DEF Spec

-----------------------------------------------------------------------------
(* The flusher implements the at-least-once log *)

\* A delta appended to a slice is appended to any suffix of it.
LEMMA SuffixOfAppend ==
  ASSUME NEW S, NEW s \in Seq(S), NEW u \in S, NEW n \in Nat, n <= Len(s)
  PROVE  SubSeq(Append(s, u), n + 1, Len(Append(s, u)))
           = Append(SubSeq(s, n + 1, Len(s)), u)
<1> DEFINE a == Append(s, u)
           x == SubSeq(a, n + 1, Len(a))
           t == SubSeq(s, n + 1, Len(s))
<1>1. /\ Len(s) \in Nat /\ a \in Seq(S) /\ Len(a) = Len(s) + 1
      /\ \A i \in 1..Len(s) : a[i] = s[i]
      /\ a[Len(s) + 1] = u
  BY LenProperties, AppendProperties
<1> HIDE DEF a
<1>2. /\ t \in Seq(S) /\ Len(t) = Len(s) - n
      /\ \A i \in 1..(Len(s) - n) : t[i] = s[n + i]
  BY SuffixProperties
<1>3. /\ x \in Seq(S) /\ Len(x) = Len(s) + 1 - n
      /\ \A i \in 1..(Len(s) + 1 - n) : x[i] = a[n + i]
  <2>1. n <= Len(a)
    BY <1>1
  <2>2. /\ x \in Seq(S) /\ Len(x) = Len(a) - n
        /\ \A i \in 1..(Len(a) - n) : x[i] = a[n + i]
    BY <1>1, <2>1, SuffixProperties
  <2>3. QED
    BY <1>1, <2>2
<1> HIDE DEF x, t
<1>4. /\ Append(t, u) \in Seq(S) /\ Len(Append(t, u)) = Len(t) + 1
      /\ \A i \in 1..Len(t) : Append(t, u)[i] = t[i]
      /\ Append(t, u)[Len(t) + 1] = u
  BY <1>2, AppendProperties
<1>5. \A i \in 1..Len(x) : x[i] = Append(t, u)[i]
  <2>1. TAKE i \in 1..Len(x)
  <2>2. x[i] = a[n + i]
    BY <1>3
  <2>3. CASE i = Len(s) - n + 1
    <3>1. n + i = Len(s) + 1 /\ i = Len(t) + 1
      BY <1>1, <1>2, <2>3
    <3>2. QED
      BY <2>2, <3>1, <1>1, <1>4
  <2>4. CASE i # Len(s) - n + 1
    <3>1. i \in 1..(Len(s) - n) /\ n + i \in 1..Len(s)
      <4>1. i \in 1..(Len(s) + 1 - n) /\ Len(s) \in Nat
        BY <1>1, <1>3
      <4>2. QED
        BY <4>1, <2>4
    <3>2. QED
      BY <2>2, <3>1, <1>1, <1>2, <1>4
  <2>5. QED
    BY <2>3, <2>4
<1>6. Len(x) = Len(Append(t, u))
  BY <1>1, <1>2, <1>3, <1>4
<1>7. x = Append(t, u)
  BY <1>3, <1>4, <1>5, <1>6, SeqEqual
<1>8. QED
  BY <1>7 DEF x, t, a

\* The oldest unwritten delta follows the confirmed ones in the slice.
LEMMA SuffixHead ==
  ASSUME NEW S, NEW s \in Seq(S), NEW n \in Nat, n < Len(s)
  PROVE  /\ SubSeq(s, n + 1, Len(s)) # <<>>
         /\ Head(SubSeq(s, n + 1, Len(s))) = s[n + 1]
         /\ Tail(SubSeq(s, n + 1, Len(s))) = SubSeq(s, n + 2, Len(s))
<1>1. Len(s) \in Nat
  BY LenProperties
<1>2. n + 1 \in 1..Len(s) /\ Len(s) \in (n + 1)..Len(s)
  BY <1>1
<1>3. Len(SubSeq(s, n + 1, Len(s))) = Len(s) - n
  BY <1>1, SuffixProperties
<1>4. SubSeq(s, n + 1, Len(s)) # <<>>
  <2> DEFINE t == SubSeq(s, n + 1, Len(s))
  <2>1. Len(t) > 0
    BY <1>1, <1>3
  <2> HIDE DEF t
  <2>2. t # <<>>
    BY <2>1
  <2>3. QED
    BY <2>2 DEF t
<1>5. /\ Head(SubSeq(s, n + 1, Len(s))) = s[n + 1]
      /\ Tail(SubSeq(s, n + 1, Len(s))) = SubSeq(s, n + 1 + 1, Len(s))
  BY <1>2, HeadTailOfSubSeq
<1>6. n + 1 + 1 = n + 2
  OBVIOUS
<1>7. QED
  BY <1>4, <1>5, <1>6

\* What the refinement mapping shows of the queue.
LogQueue == [k \in TaskKeys |-> Unwritten(k)]

\* Outside a batch nothing is confirmed: all of the queue is unwritten.
LEMMA WholeQueue ==
  ASSUME TypeOK, flusher.done = 0
  PROVE  LogQueue = pending
<1>1. \A k \in TaskKeys : Unwritten(k) = pending[k]
  <2>1. TAKE k \in TaskKeys
  <2>2. pending[k] \in Seq(Updates)
    BY DEF TypeOK
  <2>3. SubSeq(pending[k], 0 + 1, Len(pending[k])) = pending[k]
    BY <2>2, SubSeqFull
  <2>4. QED
    BY <2>3 DEF Unwritten
<1>2. QED
  BY <1>1 DEF LogQueue, TypeOK

\* Enqueue is the acceptance of the item.
LEMMA EnqueueLog ==
  ASSUME IInv, NEW k \in TaskKeys, NEW u \in Updates, Enqueue(k, u)
  PROVE  /\ LogQueue' = [LogQueue EXCEPT ![k] = Append(@, u)]
         /\ UNCHANGED stream
<1>1. /\ pending' = [pending EXCEPT ![k] = Append(@, u)]
      /\ UNCHANGED <<flusher, stream>>
  BY DEF Enqueue
<1>2. /\ pending \in [TaskKeys -> Seq(Updates)] /\ flusher \in FlusherState
      /\ BatchOK
  BY DEF IInv, TypeOK
<1>3. /\ flusher.key \in TaskKeys /\ flusher.done \in Nat
      /\ Len(pending[flusher.key]) \in Nat /\ Len(flusher.batch) \in Nat
  BY <1>2, LenProperties DEF FlusherState
<1>4. flusher.done <= Len(pending[flusher.key])
  BY <1>2, <1>3 DEF BatchOK
<1>5. \A j \in TaskKeys : Unwritten(j)' = IF j = k THEN Append(Unwritten(k), u)
                                                 ELSE Unwritten(j)
  <2>1. TAKE j \in TaskKeys
  <2>2. CASE j # k
    BY <1>1, <1>2, <2>2 DEF Unwritten
  <2>3. CASE j = k
    <3>1. pending'[k] = Append(pending[k], u)
      BY <1>1, <1>2
    <3>2. CASE k = flusher.key
      <4>1. SubSeq(Append(pending[k], u), flusher.done + 1, Len(Append(pending[k], u)))
              = Append(SubSeq(pending[k], flusher.done + 1, Len(pending[k])), u)
        <5>1. pending[k] \in Seq(Updates) /\ flusher.done <= Len(pending[k])
          BY <1>2, <1>4, <3>2
        <5>2. flusher.done \in Nat
          BY <1>3
        <5>3. QED
          BY <5>1, <5>2, SuffixOfAppend
      <4>2. QED
        BY <1>1, <2>3, <3>1, <3>2, <4>1 DEF Unwritten
    <3>3. CASE k # flusher.key
      BY <1>1, <2>3, <3>1, <3>3 DEF Unwritten
    <3>4. QED
      BY <3>2, <3>3
  <2>4. QED
    BY <2>2, <2>3
<1>6. QED
  BY <1>1, <1>5 DEF LogQueue

\* The delta of the next XADD is the oldest unwritten one, because the batch
\* is a prefix of the slice.
LEMMA NextToWrite ==
  ASSUME IInv, flusher.pc = "xadd", flusher.done < Len(flusher.batch)
  PROVE  LET k == flusher.key IN
         /\ k \in TaskKeys
         /\ Unwritten(k) # <<>>
         /\ Head(Unwritten(k)) = flusher.batch[flusher.done + 1]
         /\ Tail(Unwritten(k)) = SubSeq(pending[k], flusher.done + 2, Len(pending[k]))
<1>1. /\ pending \in [TaskKeys -> Seq(Updates)] /\ flusher \in FlusherState
      /\ BatchOK
  BY DEF IInv, TypeOK
<1>2. /\ flusher.key \in TaskKeys /\ flusher.done \in Nat
      /\ Len(pending[flusher.key]) \in Nat /\ Len(flusher.batch) \in Nat
      /\ pending[flusher.key] \in Seq(Updates)
  BY <1>1, LenProperties DEF FlusherState
<1>3. /\ Len(flusher.batch) <= Len(pending[flusher.key])
      /\ \A i \in 1..Len(flusher.batch) : flusher.batch[i] = pending[flusher.key][i]
  BY <1>1 DEF BatchOK, InBatch
<1>4. /\ flusher.done < Len(pending[flusher.key])
      /\ flusher.done + 1 \in 1..Len(flusher.batch)
  BY <1>2, <1>3
<1>5. QED
  BY <1>2, <1>3, <1>4, SuffixHead DEF Unwritten

\* XADD logs the oldest unwritten delta and confirms it.
LEMMA XAddLog ==
  ASSUME IInv, XAdd
  PROVE  LET k == flusher.key IN
         /\ k \in TaskKeys /\ LogQueue[k] # <<>>
         /\ stream' = [stream EXCEPT ![k] = Append(@, Head(LogQueue[k]))]
         /\ LogQueue' = [LogQueue EXCEPT ![k] = Tail(@)]
<1>1. /\ flusher.pc = "xadd" /\ flusher.done < Len(flusher.batch)
      /\ stream' = [stream EXCEPT ![flusher.key] = Append(@, flusher.batch[flusher.done + 1])]
      /\ flusher' = [flusher EXCEPT !.done = @ + 1]
      /\ UNCHANGED pending
  BY DEF XAdd, queueVars
<1>2. flusher \in FlusherState
  BY DEF IInv, TypeOK
<1>3. /\ flusher'.key = flusher.key /\ flusher'.done = flusher.done + 1
      /\ flusher.done \in Nat /\ flusher.key \in TaskKeys
  BY <1>1, <1>2 DEF FlusherState
<1>4. flusher'.done + 1 = flusher.done + 2
  BY <1>3
<1>5. \A j \in TaskKeys : Unwritten(j)' = IF j = flusher.key THEN Tail(Unwritten(j))
                                                           ELSE Unwritten(j)
  BY <1>1, <1>3, <1>4, NextToWrite DEF Unwritten
<1>6. LogQueue' = [LogQueue EXCEPT ![flusher.key] = Tail(@)]
  BY <1>5 DEF LogQueue
<1>7. LogQueue[flusher.key] = Unwritten(flusher.key)
  BY <1>3 DEF LogQueue
<1>8. QED
  BY <1>1, <1>3, <1>6, <1>7, NextToWrite

\* A failed XADD has logged the same delta, or nothing; it stays queued.
LEMMA XAddFailsLog ==
  ASSUME IInv, XAddFails
  PROVE  LET k == flusher.key IN
         /\ LogQueue' = LogQueue
         /\ \/ UNCHANGED stream
            \/ /\ k \in TaskKeys /\ LogQueue[k] # <<>>
               /\ stream' = [stream EXCEPT ![k] = Append(@, Head(LogQueue[k]))]
<1>1. /\ flusher.pc = "xadd" /\ flusher.done < Len(flusher.batch)
      /\ flusher' = [flusher EXCEPT !.pc = "commit"]
      /\ UNCHANGED pending
      /\ \/ UNCHANGED stream
         \/ stream' = [stream EXCEPT ![flusher.key] =
                         Append(@, flusher.batch[flusher.done + 1])]
  BY DEF XAddFails, queueVars
<1>2. flusher \in FlusherState
  BY DEF IInv, TypeOK
<1>3. flusher'.key = flusher.key /\ flusher'.done = flusher.done /\ flusher.key \in TaskKeys
  BY <1>1, <1>2 DEF FlusherState
<1>4. LogQueue' = LogQueue
  BY <1>1, <1>3 DEF LogQueue, Unwritten
<1>5. LogQueue[flusher.key] = Unwritten(flusher.key)
  BY <1>3 DEF LogQueue
<1>6. QED
  BY <1>1, <1>3, <1>4, <1>5, NextToWrite

\* CommitBatch removes what was confirmed: nothing changes for the log.
LEMMA CommitLog ==
  ASSUME IInv, Commit
  PROVE  LogQueue' = LogQueue /\ UNCHANGED stream
<1> DEFINE k == flusher.key
           n == flusher.done
<1>1. /\ flusher.pc = "commit" /\ UNCHANGED stream
      /\ flusher' = [flusher EXCEPT !.pc = "keys", !.batch = <<>>, !.done = 0]
  BY DEF Commit
<1>2. TypeOK /\ TypeOK' /\ BatchOK
  BY CommitIInv DEF IInv
<1>3. flusher \in FlusherState /\ k \in TaskKeys /\ n \in Nat /\ flusher'.done = 0
  BY <1>1, <1>2 DEF TypeOK, FlusherState
<1>4. pending[k] \in Seq(Updates) /\ Len(pending[k]) \in Nat /\ n <= Len(pending[k])
  BY <1>1, <1>2, <1>3, LenProperties DEF BatchOK, InBatch, TypeOK, FlusherState
<1>5. pending' = [pending EXCEPT ![k] = SubSeq(pending[k], n + 1, Len(pending[k]))]
  <2>1. CASE n > 0
    BY <2>1, <1>2, <1>3, <1>4, CommitBatchCuts DEF Commit
  <2>2. CASE ~(n > 0)
    <3>1. n = 0
      BY <2>2, <1>3
    <3>2. SubSeq(pending[k], n + 1, Len(pending[k])) = pending[k]
      BY <3>1, <1>4, SubSeqFull
    <3>3. UNCHANGED pending
      BY <2>2 DEF Commit
    <3>4. QED
      BY <3>2, <3>3, <1>2 DEF TypeOK
  <2>3. QED
    BY <2>1, <2>2
<1>6. LogQueue' = pending'
  <2>1. (TypeOK /\ flusher.done = 0 => LogQueue = pending)'
    BY WholeQueue, PTL
  <2>2. QED
    BY <1>2, <1>3, <2>1
<1>7. LogQueue = pending'
  <2>1. \A j \in TaskKeys : Unwritten(j) = pending'[j]
    BY <1>2, <1>3, <1>5 DEF Unwritten, TypeOK
  <2>2. pending' \in [TaskKeys -> Seq(Updates)]
    BY <1>2 DEF TypeOK
  <2>3. QED
    BY <2>1, <2>2 DEF LogQueue
<1>8. QED
  BY <1>1, <1>6, <1>7

\* Every other step of the flusher or of the room's life leaves the log alone.
LEMMA OthersLog ==
  ASSUME IInv,
         \/ IdleReap \/ Shutdown \/ RunReturns \/ RedisClose \/ Done \/ UNCHANGED vars
         \/ Tick \/ StartFinal \/ BatchDone \/ FlushReturns
         \/ FinalLoop \/ FinalTimeout \/ Progress
         \/ \E k \in TaskKeys : GetBatch(k)
  PROVE  LogQueue' = LogQueue /\ UNCHANGED stream
<1>1. TypeOK /\ BatchOK /\ flusher \in FlusherState
  BY DEF IInv, TypeOK
<1>2. UNCHANGED <<pending, stream>>
  BY DEF IdleReap, Shutdown, RunReturns, RedisClose, Done, vars, Tick, StartFinal,
         BatchDone, FlushReturns, FinalLoop, FinalTimeout, Progress, GetBatch, queueVars
<1>3. CASE \E k \in TaskKeys : GetBatch(k)
  <2>1. PICK k \in TaskKeys : GetBatch(k)
    BY <1>3
  <2>2. flusher.done = 0 /\ flusher'.done = 0
    BY <1>1, <2>1 DEF GetBatch, BatchOK, InBatch, FlusherState
  <2>3. TypeOK'
    BY <2>1, GetBatchIInv DEF IInv
  <2>4. LogQueue = pending
    BY <1>1, <2>2, WholeQueue
  <2>5. (TypeOK /\ flusher.done = 0 => LogQueue = pending)'
    BY WholeQueue, PTL
  <2>6. QED
    BY <1>2, <2>2, <2>3, <2>4, <2>5
<1>4. CASE ~(\E k \in TaskKeys : GetBatch(k))
  <2>1. flusher'.key = flusher.key /\ flusher'.done = flusher.done
    BY <1>1, <1>4 DEF IdleReap, Shutdown, RunReturns, RedisClose, Done, vars, Tick,
       StartFinal, BatchDone, FlushReturns, FinalLoop, FinalTimeout, Progress, FlusherState
  <2>2. QED
    BY <1>2, <2>1 DEF LogQueue, Unwritten
<1>5. QED
  BY <1>3, <1>4

\* The queue and its flusher implement DurableLog: per task the deltas reach the
\* stream in the order Enqueue took them, none is passed over, and one that was
\* written without a reply is written again (FlushSync, save_queue.go:205).
THEOREM LogImplemented == Spec => LogSpec
<1>1. Init => Log!Init
  <2> SUFFICES ASSUME Init PROVE Log!Init
    OBVIOUS
  <2>1. TypeOK /\ flusher.done = 0
    BY InitIInv DEF IInv, Init
  <2>2. LogQueue = pending
    BY <2>1, WholeQueue
  <2>3. QED
    BY <2>2 DEF Log!Init, Init, LogQueue
<1>2. IInv /\ [Next]_vars => [Log!Next]_(Log!vars)
  <2> SUFFICES ASSUME IInv, [Next]_vars
               PROVE  Log!Next \/ UNCHANGED Log!vars
    OBVIOUS
  <2>1. ASSUME NEW k \in TaskKeys, NEW u \in Updates, Enqueue(k, u) PROVE Log!Next
    BY <2>1, EnqueueLog DEF Log!Next, Log!Accept, LogQueue
  <2>2. CASE XAdd
    BY <2>2, XAddLog DEF Log!Next, Log!Persist, LogQueue
  <2>3. CASE XAddFails
    BY <2>3, XAddFailsLog DEF Log!Next, Log!Persist, Log!vars, LogQueue
  <2>4. CASE Commit
    BY <2>4, CommitLog DEF Log!vars, LogQueue
  <2>5. CASE \/ IdleReap \/ Shutdown \/ RunReturns \/ RedisClose \/ Done \/ UNCHANGED vars
             \/ Tick \/ StartFinal \/ BatchDone \/ FlushReturns
             \/ FinalLoop \/ FinalTimeout \/ Progress
             \/ \E k \in TaskKeys : GetBatch(k)
    BY <2>5, OthersLog DEF Log!vars, LogQueue
  <2>6. QED
    BY <2>1, <2>2, <2>3, <2>4, <2>5 DEF Next, FlusherStep
<1>3. QED
  BY <1>1, <1>2, Invariance, PTL DEF Spec, LogSpec, Log!Spec

-----------------------------------------------------------------------------
(* SseHub: the inductive invariant *)

Attached == {"incr", "replay", "live", "remove"}
Reserved == {t \in Tabs : conn[t].reserved}

\* A connection belongs to a node until it has given back its part of the counter, and
\* while calls are counted whoever is served has one.
SeatsOK ==
  /\ \A t \in Tabs :
       /\ conn[t].pc # "off" => conn[t].node \in Nodes
       /\ conn[t].pc \in {"off", "incr", "del"} => ~conn[t].reserved
       /\ conn[t].pc = "decr" => conn[t].reserved
  /\ ~slack => Streaming \subseteq Reserved

\* A reader that has an id asks for what comes after it, and dispatches what there is.
ReaderOK(r) ==
  /\ r.from <= newest
  /\ r.pc = "idle" => r.last = 0
  /\ r.pc = "poll" => r.last \in {0, r.from}
  /\ r.pc = "dispatch" => r.from <= r.last /\ r.last < r.upto /\ r.upto <= newest

\* The connections a reader reads for.
Read(t) == conn[t].pc \in Attached /\ reader[conn[t].node].pc # "none"

\* A buffer holds events in order, no newer than the reader has dispatched; what a live
\* stream has yet to write of them has been replayed or comes after what it has written.
BufferOK(b) ==
  /\ Len(b) <= Buffer
  /\ \A i \in 1 .. Len(b) :
       /\ b[i] <= newest
       /\ \A j \in 1 .. Len(b) : i < j => b[j] = 0 \/ b[i] < b[j]
OrderOK(t) ==
  LET c == conn[t]
      seen == tab[t].seen
      last == reader[c.node].last
  IN /\ seen <= newest /\ BufferOK(c.buf)
     /\ Read(t) => \A i \in 1 .. Len(c.buf) : c.buf[i] <= last
     /\ c.pc = "replay" => /\ seen <= c.page /\ c.page <= newest
                           /\ seen < c.page => c.cut < c.page
     /\ c.pc \in {"replay", "live"} => c.skip <= seen
     /\ c.pc = "live" =>
          /\ \A i \in 1 .. Len(c.buf) : c.buf[i] = 0 \/ c.buf[i] <= c.skip \/ seen < c.buf[i]
          /\ Read(t) => seen <= c.skip \/ seen <= last

\* What is accounted for; and how far a reader has come.
Known(t) == tab[t].got \cup tab[t].missed
Pos(r) == IF r.pc = "dispatch" THEN r.last ELSE r.from

\* A stream that is live, or about to be without a replay, misses nothing silently: up to
\* an event of its buffer, or up to where its reader is, all is accounted for or buffered.
Fresh(t) == conn[t].pc = "live" \/ (conn[t].pc = "incr" /\ tab[t].seen = 0)
LossOK(t) ==
  LET b == conn[t].buf
      Upto(e) == tab[t].base + 1 .. e
  IN /\ Upto(tab[t].seen) \subseteq Known(t)
     /\ conn[t].pc = "replay" /\ tab[t].seen < conn[t].page =>
          tab[t].seen + 1 .. conn[t].cut \subseteq Known(t)
     /\ Fresh(t) => \A i \in 1 .. Len(b) : Upto(b[i]) \subseteq Known(t) \cup Range(b)
     /\ Fresh(t) /\ Read(t) /\ ~conn[t].done =>
          Upto(Pos(reader[conn[t].node])) \subseteq Known(t) \cup Range(b)

SseIInv ==
  /\ SseTypeOK /\ RegistryAgrees /\ CountAgrees /\ SeatsOK
  /\ \A n \in Nodes : ReaderOK(reader[n])
  /\ \A t \in Tabs : OrderOK(t) /\ LossOK(t)

-----------------------------------------------------------------------------
(* Types *)

ConnPcs == {"off", "incr", "replay", "live", "remove", "decr", "del"}
ConnRec == [pc : ConnPcs, node : Nodes \cup {None}, buf : Seq(Nat), done : BOOLEAN,
            full : BOOLEAN, reserved : BOOLEAN, page : Nat, cut : Nat, total : Nat,
            skip : Nat]
TabRec == [seen : Nat, base : Nat, got : SUBSET Nat, missed : SUBSET Nat]
ReaderRec == [pc : {"none", "idle", "poll", "dispatch"}, last : Nat, from : Nat, upto : Nat]
HubRec == [open : BOOLEAN, clients : SUBSET Tabs, ip : Nat, evict : SUBSET Tabs]

ConnsTyped == conn \in [Tabs -> ConnRec]
TabsTyped == tab \in [Tabs -> TabRec]
ReadersTyped == reader \in [Nodes -> ReaderRec]
HubsTyped == hub \in [Nodes -> HubRec]
NumbersTyped == /\ env \in Cases /\ newest \in 0 .. Sizes[env].events
                /\ gone \in 0 .. newest /\ count \in Int

LEMMA SseTypeParts ==
  SseTypeOK <=> ConnsTyped /\ TabsTyped /\ ReadersTyped /\ HubsTyped /\ NumbersTyped
BY DEF SseTypeOK, ConnsTyped, TabsTyped, ReadersTyped, HubsTyped, NumbersTyped, ConnRec,
   ConnPcs, TabRec, ReaderRec, HubRec

LEMMA SseTypePartsPrimed ==
  SseTypeOK' <=> ConnsTyped' /\ TabsTyped' /\ ReadersTyped' /\ HubsTyped' /\ NumbersTyped'
BY SseTypeParts, PTL

LEMMA NewestTyped ==
  SseTypeOK => newest \in Nat /\ gone \in Nat /\ gone <= newest /\ Sizes[env].events \in Nat
BY ConstantsAssumption DEF SseTypeOK

LEMMA NewestTypedPrimed == SseTypeOK' => newest' \in Nat
BY ConstantsAssumption DEF SseTypeOK

LEMMA InitialTypes == NoConn \in ConnRec /\ NoReader \in ReaderRec /\ NewHub \in HubRec
<1>1. NoConn \in ConnRec
  BY DEF NoConn, ConnRec, ConnPcs
<1>2. NoReader \in ReaderRec /\ NewHub \in HubRec
  BY DEF NoReader, ReaderRec, NewHub, HubRec
<1>3. QED
  BY <1>1, <1>2

\* Changing one field of a connection.
LEMMA ConnUpdates ==
  ASSUME NEW c \in ConnRec
  PROVE  /\ \A p \in ConnPcs : [c EXCEPT !.pc = p] \in ConnRec
         /\ \A n \in Nodes \cup {None} : [c EXCEPT !.node = n] \in ConnRec
         /\ \A b \in Seq(Nat) : [c EXCEPT !.buf = b] \in ConnRec
         /\ \A v \in BOOLEAN : [c EXCEPT !.done = v] \in ConnRec
         /\ \A v \in BOOLEAN : [c EXCEPT !.full = v] \in ConnRec
         /\ \A v \in BOOLEAN : [c EXCEPT !.reserved = v] \in ConnRec
         /\ \A k \in Nat : [c EXCEPT !.page = k] \in ConnRec
         /\ \A k \in Nat : [c EXCEPT !.cut = k] \in ConnRec
         /\ \A k \in Nat : [c EXCEPT !.total = k] \in ConnRec
         /\ \A k \in Nat : [c EXCEPT !.skip = k] \in ConnRec
<1>1. /\ \A p \in ConnPcs : [c EXCEPT !.pc = p] \in ConnRec
      /\ \A n \in Nodes \cup {None} : [c EXCEPT !.node = n] \in ConnRec
      /\ \A b \in Seq(Nat) : [c EXCEPT !.buf = b] \in ConnRec
  BY DEF ConnRec
<1>2. /\ \A v \in BOOLEAN : [c EXCEPT !.done = v] \in ConnRec
      /\ \A v \in BOOLEAN : [c EXCEPT !.full = v] \in ConnRec
      /\ \A v \in BOOLEAN : [c EXCEPT !.reserved = v] \in ConnRec
  BY DEF ConnRec
<1>3. /\ \A k \in Nat : [c EXCEPT !.page = k] \in ConnRec
      /\ \A k \in Nat : [c EXCEPT !.cut = k] \in ConnRec
      /\ \A k \in Nat : [c EXCEPT !.total = k] \in ConnRec
      /\ \A k \in Nat : [c EXCEPT !.skip = k] \in ConnRec
  BY DEF ConnRec
<1>4. QED
  BY <1>1, <1>2, <1>3

\* Client.Send: a frame is appended, or there is no room, or the client is closed.
Same(c, d) == /\ d.pc = c.pc /\ d.node = c.node /\ d.reserved = c.reserved
              /\ d.page = c.page /\ d.cut = c.cut /\ d.total = c.total /\ d.skip = c.skip

LEMMA SentFields ==
  ASSUME NEW c \in ConnRec, NEW e \in Nat, NEW late \in BOOLEAN
  PROVE  /\ Sent(c, e, late) \in ConnRec /\ Same(c, Sent(c, e, late))
         /\ c.done => Sent(c, e, late).done
         /\ Sent(c, e, late).buf = IF ~c.done /\ Len(c.buf) < Buffer
                                   THEN Append(c.buf, e) ELSE c.buf
<1>1. c.buf \in Seq(Nat) /\ c.done \in BOOLEAN /\ c.full \in BOOLEAN
  BY DEF ConnRec
<1>2. CASE c.done
  BY <1>2 DEF Sent, Same
<1>3. CASE ~c.done /\ Len(c.buf) < Buffer
  <2>1. Append(c.buf, e) \in Seq(Nat)
    BY <1>1
  <2>2. Sent(c, e, late) = [c EXCEPT !.buf = Append(c.buf, e), !.full = FALSE]
    BY <1>3 DEF Sent
  <2>3. [c EXCEPT !.buf = Append(c.buf, e), !.full = FALSE] \in ConnRec
    BY <2>1, ConnUpdates
  <2>4. QED
    BY <1>3, <2>2, <2>3 DEF Same, ConnRec
<1>4. CASE ~c.done /\ ~(Len(c.buf) < Buffer)
  <2>1. Sent(c, e, late) = [c EXCEPT !.full = TRUE, !.done = c.full /\ late]
    BY <1>4 DEF Sent
  <2>2. (c.full /\ late) \in BOOLEAN
    BY <1>1
  <2>3. [c EXCEPT !.full = TRUE, !.done = c.full /\ late] \in ConnRec
    BY <2>2, ConnUpdates
  <2>4. QED
    BY <1>4, <2>1, <2>3 DEF Same, ConnRec
<1>5. QED
  BY <1>2, <1>3, <1>4

-----------------------------------------------------------------------------
(* What the steps do to the connections *)

\* A step of the handler of one tab.
OnlyConn(t) == conn' \in [Tabs -> ConnRec] /\ \A u \in Tabs : u # t => conn'[u] = conn[u]
OnlyTab(t) == tab' \in [Tabs -> TabRec] /\ \A u \in Tabs : u # t => tab'[u] = tab[u]

Kept(t) == conn'[t].node = conn[t].node /\ conn'[t].buf = conn[t].buf
           /\ conn'[t].done = conn[t].done
Ended(t) == conn'[t].buf = <<>> /\ conn'[t].pc \notin Attached

LEMMA NoConnFields ==
  /\ NoConn \in ConnRec
  /\ NoConn.pc = "off" /\ NoConn.node = None /\ NoConn.buf = <<>>
  /\ NoConn.done = FALSE /\ NoConn.reserved = FALSE
BY InitialTypes DEF NoConn

LEMMA ConnPuts ==
  ASSUME ConnsTyped, NEW t \in Tabs, NEW c \in ConnRec, conn' = [conn EXCEPT ![t] = c]
  PROVE  OnlyConn(t) /\ conn'[t] = c
BY DEF ConnsTyped, OnlyConn

LEMMA GoesTo ==
  ASSUME ConnsTyped, NEW t \in Tabs, NEW p \in ConnPcs, conn' = [conn EXCEPT ![t].pc = p]
  PROVE  /\ OnlyConn(t) /\ Kept(t) /\ conn'[t].pc = p
         /\ conn'[t].reserved = conn[t].reserved /\ conn'[t].page = conn[t].page
         /\ conn'[t].skip = conn[t].skip
<1>1. conn[t] \in ConnRec
  BY DEF ConnsTyped
<1>2. conn' = [conn EXCEPT ![t] = [conn[t] EXCEPT !.pc = p]]
  OBVIOUS
<1>3. [conn[t] EXCEPT !.pc = p] \in ConnRec
  BY <1>1, ConnUpdates
<1>4. OnlyConn(t) /\ conn'[t] = [conn[t] EXCEPT !.pc = p]
  BY <1>2, <1>3, ConnPuts
<1>5. QED
  BY <1>1, <1>4 DEF Kept, ConnRec

\* The handler goes on to the stream of the tab.
Opened(t, counted) ==
  /\ conn'[t].reserved = counted
  /\ conn'[t].page = tab[t].seen /\ conn'[t].skip = tab[t].seen
  /\ conn'[t].pc = IF tab[t].seen = 0 THEN "live" ELSE "replay"

LEMMA OpenFields ==
  ASSUME ConnsTyped, TabsTyped, NEW t \in Tabs, NEW counted \in BOOLEAN, Open(t, counted)
  PROVE  OnlyConn(t) /\ Kept(t) /\ Opened(t, counted)
<1> DEFINE p == IF tab[t].seen = 0 THEN "live" ELSE "replay"
           d == [conn[t] EXCEPT !.reserved = counted, !.page = tab[t].seen,
                                !.skip = tab[t].seen, !.pc = p]
<1>1. conn[t] \in ConnRec /\ tab[t].seen \in Nat /\ p \in ConnPcs
  BY DEF ConnsTyped, TabsTyped, TabRec, ConnPcs
<1>2. d \in ConnRec
  BY <1>1, ConnUpdates
<1>3. conn' = [conn EXCEPT ![t] = d]
  BY DEF Open
<1>4. OnlyConn(t) /\ conn'[t] = d
  BY <1>2, <1>3, ConnPuts
<1>5. QED
  BY <1>1, <1>4 DEF Kept, Opened, ConnRec

LEMMA IncrFields ==
  ASSUME SseTypeOK, NEW t \in Tabs, Incr(t)
  PROVE  /\ OnlyConn(t) /\ Kept(t) /\ conn[t].pc = "incr" /\ count' \in Int
         /\ UNCHANGED <<newest, gone, hub, reader, tab, connects>>
         /\ \/ /\ conn'[t].pc = "remove" /\ conn'[t].reserved
               /\ count' = count + 1 /\ UNCHANGED <<slack, leak>>
            \/ /\ Opened(t, TRUE)
               /\ count' = count + 1 /\ count' <= Sizes[env].limit /\ UNCHANGED <<slack, leak>>
            \/ Opened(t, FALSE) /\ slack'
<1>1. ConnsTyped /\ TabsTyped /\ NumbersTyped
  BY SseTypeParts
<1>2. conn[t].pc = "incr" /\ UNCHANGED <<newest, gone, hub, reader, tab, connects>> /\ count' \in Int
  <2>1. count' = count + 1 \/ count' \in {count, count + 1}
    BY DEF Incr
  <2>2. conn[t].pc = "incr" /\ UNCHANGED <<newest, gone, hub, reader, tab, connects>>
    BY DEF Incr
  <2>3. QED
    BY <1>1, <2>1, <2>2 DEF NumbersTyped
<1>3. CASE /\ count' = count + 1 /\ count' > Sizes[env].limit /\ UNCHANGED <<slack, leak>>
           /\ conn' = [conn EXCEPT ![t].reserved = TRUE, ![t].pc = "remove"]
  <2> DEFINE d == [conn[t] EXCEPT !.reserved = TRUE, !.pc = "remove"]
  <2>1. d \in ConnRec /\ conn[t] \in ConnRec
    BY <1>1, ConnUpdates DEF ConnsTyped, ConnPcs
  <2>2. conn' = [conn EXCEPT ![t] = d]
    BY <1>3
  <2>3. OnlyConn(t) /\ conn'[t] = d
    BY <1>1, <2>1, <2>2, ConnPuts
  <2>4. Kept(t) /\ conn'[t].pc = "remove" /\ conn'[t].reserved
    BY <2>1, <2>3 DEF Kept, ConnRec
  <2>5. QED
    BY <1>2, <1>3, <2>3, <2>4
<1>4. CASE /\ count' = count + 1 /\ ~(count' > Sizes[env].limit) /\ UNCHANGED <<slack, leak>>
           /\ Open(t, TRUE)
  <2>1. Sizes[env].limit \in Nat
    BY <1>1, ConstantsAssumption DEF NumbersTyped
  <2>2. count' <= Sizes[env].limit
    BY <1>1, <1>2, <1>4, <2>1
  <2>3. OnlyConn(t) /\ Kept(t) /\ Opened(t, TRUE)
    BY <1>1, <1>4, OpenFields
  <2>4. QED
    BY <1>2, <1>4, <2>2, <2>3
<1>5. CASE Open(t, FALSE) /\ slack'
  BY <1>1, <1>2, <1>5, OpenFields
<1>6. QED
  BY <1>3, <1>4, <1>5 DEF Incr

LEMMA RemoveFields ==
  ASSUME SseTypeOK, NEW t \in Tabs, Remove(t)
  PROVE  /\ OnlyConn(t) /\ Ended(t) /\ conn[t].pc = "remove"
         /\ UNCHANGED <<newest, gone, count, tab, failures, connects, slack, leak>>
         /\ conn'[t].reserved = conn[t].reserved
         /\ conn'[t].pc \in {"off", "decr"} /\ (conn'[t].pc = "decr" <=> conn[t].reserved)
         /\ conn'[t].pc = "decr" => conn'[t].node = conn[t].node
<1>1. ConnsTyped /\ conn[t] \in ConnRec
  BY SseTypeParts DEF ConnsTyped
<1>2. /\ conn[t].pc = "remove"
      /\ UNCHANGED <<newest, gone, count, tab, failures, connects, slack, leak>>
  BY DEF Remove
<1>3. CASE conn[t].reserved
  <2> DEFINE d == [NoConn EXCEPT !.pc = "decr", !.node = conn[t].node, !.reserved = TRUE]
  <2>1. "decr" \in ConnPcs /\ conn[t].node \in Nodes \cup {None}
    BY <1>1 DEF ConnRec, ConnPcs
  <2>2. /\ d \in ConnRec /\ d.pc = "decr" /\ d.node = conn[t].node /\ d.buf = <<>>
         /\ d.reserved = TRUE
    <3>1. d \in ConnRec
      BY <2>1, NoConnFields, ConnUpdates
    <3>2. QED
      BY <3>1, NoConnFields DEF ConnRec
  <2>3. conn' = [conn EXCEPT ![t] = d]
    BY <1>3 DEF Remove
  <2>4. OnlyConn(t) /\ conn'[t] = d
    BY <1>1, <2>2, <2>3, ConnPuts
  <2>5. Ended(t) /\ conn'[t].reserved = TRUE
    BY <2>2, <2>4 DEF Ended, Attached, ConnRec
  <2>6. conn[t].reserved = TRUE
    BY <1>1, <1>3 DEF ConnRec
  <2>7. QED
    BY <1>2, <2>2, <2>4, <2>5, <2>6
<1>4. CASE ~conn[t].reserved
  <2>1. conn' = [conn EXCEPT ![t] = NoConn]
    BY <1>4 DEF Remove
  <2>2. OnlyConn(t) /\ conn'[t] = NoConn
    BY <1>1, <2>1, InitialTypes, ConnPuts
  <2>3. conn[t].reserved = FALSE
    BY <1>1, <1>4 DEF ConnRec
  <2>4. QED
    BY <1>2, <2>2, <2>3, NoConnFields DEF Ended, Attached
<1>5. QED
  BY <1>3, <1>4

LEMMA DecrFields ==
  ASSUME SseTypeOK, NEW t \in Tabs, Decr(t)
  PROVE  /\ OnlyConn(t) /\ Ended(t) /\ conn[t].pc = "decr" /\ ~conn'[t].reserved
         /\ UNCHANGED <<newest, gone, hub, reader, tab, connects, slack>>
         /\ conn'[t].pc \in {"off", "del"}
         /\ conn'[t].pc = "del" => conn'[t].node = conn[t].node
         /\ count' \in {count, count - 1} /\ (leak => leak') /\ (count' = count => leak')
<1>1. ConnsTyped /\ conn[t] \in ConnRec /\ count \in Int
  BY SseTypeParts DEF ConnsTyped, NumbersTyped
<1>2. /\ conn[t].pc = "decr" /\ UNCHANGED <<newest, gone, hub, reader, tab, connects, slack>>
      /\ count' \in {count, count - 1} /\ (leak => leak') /\ (count' = count => leak')
  <2>1. conn[t].pc = "decr" /\ UNCHANGED <<newest, gone, hub, reader, tab, connects, slack>>
    BY DEF Decr
  <2>2. \/ count' = count - 1 /\ leak' = leak
        \/ count' \in {count, count - 1} /\ (leak' <=> (leak \/ count' = count))
    BY DEF Decr
  <2>3. QED
    BY <1>1, <2>1, <2>2
<1>3. CASE conn' = [conn EXCEPT ![t] = [NoConn EXCEPT !.pc = "del", !.node = conn[t].node]]
  <2> DEFINE d == [NoConn EXCEPT !.pc = "del", !.node = conn[t].node]
  <2>1. "del" \in ConnPcs /\ conn[t].node \in Nodes \cup {None}
    BY <1>1 DEF ConnRec, ConnPcs
  <2>2. /\ d \in ConnRec /\ d.pc = "del" /\ d.node = conn[t].node /\ d.buf = <<>>
         /\ d.reserved = FALSE
    <3>1. d \in ConnRec
      BY <2>1, NoConnFields, ConnUpdates
    <3>2. QED
      BY <3>1, NoConnFields DEF ConnRec
  <2>3. OnlyConn(t) /\ conn'[t] = d
    BY <1>1, <1>3, <2>2, ConnPuts
  <2>4. QED
    BY <1>2, <2>2, <2>3 DEF Ended, Attached
<1>4. CASE conn' = [conn EXCEPT ![t] = NoConn]
  <2>1. OnlyConn(t) /\ conn'[t] = NoConn
    BY <1>1, <1>4, InitialTypes, ConnPuts
  <2>2. QED
    BY <1>2, <2>1, NoConnFields DEF Ended, Attached
<1>5. QED
  BY <1>3, <1>4 DEF Decr

LEMMA DelFields ==
  ASSUME SseTypeOK, NEW t \in Tabs, Del(t)
  PROVE  /\ OnlyConn(t) /\ Ended(t) /\ conn[t].pc = "del"
         /\ conn'[t].pc = "off" /\ ~conn'[t].reserved
         /\ UNCHANGED <<newest, gone, hub, reader, tab, connects, leak>>
         /\ count' = 0 /\ (slack' <=> (slack \/ count > 0))
<1>1. OnlyConn(t) /\ conn'[t] = NoConn
  BY SseTypeParts, InitialTypes, ConnPuts DEF Del
<1>2. Ended(t) /\ conn'[t].pc = "off" /\ ~conn'[t].reserved
  BY <1>1, NoConnFields DEF Ended, Attached
<1>3. QED
  BY <1>1, <1>2 DEF Del

LEMMA TabUpdates ==
  ASSUME NEW r \in TabRec
  PROVE  /\ \A e \in Nat : [r EXCEPT !.seen = e] \in TabRec
         /\ \A e \in Nat : [r EXCEPT !.base = e] \in TabRec
         /\ \A S \in SUBSET Nat : [r EXCEPT !.got = S] \in TabRec
         /\ \A S \in SUBSET Nat : [r EXCEPT !.missed = S] \in TabRec
BY DEF TabRec

\* An event reaches the tab, or is known to be lost for it.
LEMMA ReceivedFields ==
  ASSUME TabsTyped, NEW t \in Tabs, NEW e \in Nat, Received(t, e)
  PROVE  /\ OnlyTab(t) /\ tab'[t].seen = e /\ tab'[t].base = tab[t].base
         /\ tab'[t].got = tab[t].got \cup {e} /\ tab'[t].missed = tab[t].missed
<1>1. tab[t] \in TabRec /\ tab[t].got \cup {e} \in SUBSET Nat
  BY DEF TabsTyped, TabRec
<1>2. [tab[t] EXCEPT !.seen = e, !.got = tab[t].got \cup {e}] \in TabRec
  BY <1>1, TabUpdates
<1>3. tab' = [tab EXCEPT ![t] = [tab[t] EXCEPT !.seen = e, !.got = tab[t].got \cup {e}]]
  BY DEF Received
<1>4. OnlyTab(t) /\ tab'[t] = [tab[t] EXCEPT !.seen = e, !.got = tab[t].got \cup {e}]
  BY <1>2, <1>3 DEF TabsTyped, OnlyTab
<1>5. QED
  BY <1>1, <1>4 DEF TabRec

LEMMA MissedFields ==
  ASSUME TabsTyped, NEW t \in Tabs, NEW S \in SUBSET Nat,
         tab' = [tab EXCEPT ![t].missed = @ \cup S]
  PROVE  /\ OnlyTab(t) /\ tab'[t].seen = tab[t].seen /\ tab'[t].base = tab[t].base
         /\ tab'[t].got = tab[t].got /\ tab'[t].missed = tab[t].missed \cup S
<1>1. tab[t] \in TabRec /\ tab[t].missed \cup S \in SUBSET Nat
  BY DEF TabsTyped, TabRec
<1>2. [tab[t] EXCEPT !.missed = tab[t].missed \cup S] \in TabRec
  BY <1>1, TabUpdates
<1>3. OnlyTab(t) /\ tab'[t] = [tab[t] EXCEPT !.missed = tab[t].missed \cup S]
  BY <1>2 DEF TabsTyped, OnlyTab
<1>4. QED
  BY <1>1, <1>3 DEF TabRec

LEMMA SameTabs == TabsTyped /\ UNCHANGED tab => \A t \in Tabs : OnlyTab(t)
BY DEF TabsTyped, OnlyTab

LEMMA ReplayReadFields ==
  ASSUME SseTypeOK, NEW t \in Tabs, ReplayRead(t)
  PROVE  /\ OnlyConn(t) /\ OnlyTab(t) /\ Kept(t)
         /\ conn'[t].reserved = conn[t].reserved
         /\ conn[t].pc = "replay" /\ conn[t].page = tab[t].seen
         /\ tab'[t].seen = tab[t].seen /\ tab'[t].base = tab[t].base
         /\ UNCHANGED <<newest, gone, count, hub, reader, connects, slack, leak>>
         /\ \/ /\ conn'[t].pc = "replay" /\ conn'[t].skip = conn[t].skip
               /\ tab[t].seen < conn'[t].page /\ conn'[t].page <= newest
               /\ conn'[t].cut < conn'[t].page
               /\ Known(t)' = Known(t) \cup (tab[t].seen + 1 .. conn'[t].cut)
            \/ /\ conn'[t].pc = "live" /\ conn'[t].skip = tab[t].seen
               /\ Known(t)' = Known(t) \cup (tab[t].seen + 1 .. newest)
<1> DEFINE c == conn[t]
           first == MaxOf(c.page, gone)
           next == MinOf(first + Page, newest)
           d1 == [c EXCEPT !.page = next, !.cut = first, !.total = @ + (next - first)]
           d2 == [c EXCEPT !.pc = "live", !.skip = c.page]
<1>1. /\ ConnsTyped /\ TabsTyped /\ c \in ConnRec /\ newest \in Nat /\ gone \in Nat
      /\ Page \in Nat \ {0} /\ c.page \in Nat /\ c.total \in Nat /\ first \in Nat
  BY SseTypeParts, NewestTyped, ConstantsAssumption DEF ConnsTyped, ConnRec, MaxOf
<1>2. /\ c.pc = "replay" /\ c.page = tab[t].seen
      /\ UNCHANGED <<newest, gone, count, hub, reader, connects, slack, leak>>
  BY DEF ReplayRead
<1>3. CASE /\ newest > first /\ conn' = [conn EXCEPT ![t] = d1]
           /\ tab' = [tab EXCEPT ![t].missed = @ \cup (c.page + 1 .. first)]
  <2>0. c.page <= first
    BY <1>1 DEF MaxOf
  <2> HIDE DEF first
  <2>1. /\ first < next /\ next <= newest /\ next \in Nat /\ c.total + (next - first) \in Nat
        /\ c.page < next
    BY <1>1, <1>3, <2>0 DEF MinOf
  <2>2. d1 \in ConnRec
    BY <1>1, <2>1, ConnUpdates
  <2>3. OnlyConn(t) /\ conn'[t] = d1
    BY <1>1, <1>3, <2>2, ConnPuts
  <2> HIDE DEF next
  <2>4. /\ d1.pc = c.pc /\ d1.node = c.node /\ d1.buf = c.buf /\ d1.done = c.done
        /\ d1.reserved = c.reserved /\ d1.skip = c.skip /\ d1.page = next /\ d1.cut = first
    BY <1>1 DEF ConnRec
  <2>5. (c.page + 1 .. first) \in SUBSET Nat
    BY <1>1
  <2>6. /\ OnlyTab(t) /\ tab'[t].seen = tab[t].seen /\ tab'[t].base = tab[t].base
        /\ tab'[t].got = tab[t].got
        /\ tab'[t].missed = tab[t].missed \cup (c.page + 1 .. first)
    BY <1>1, <1>3, <2>5, MissedFields
  <2>7. Known(t)' = Known(t) \cup (tab[t].seen + 1 .. first)
    BY <1>2, <2>6 DEF Known
  <2>8. QED
    BY <1>2, <1>3, <2>1, <2>3, <2>4, <2>6, <2>7 DEF Kept
<1>4. CASE /\ conn' = [conn EXCEPT ![t] = d2]
           /\ tab' = [tab EXCEPT ![t].missed = @ \cup (c.page + 1 .. newest)]
  <2>1. d2 \in ConnRec
    BY <1>1, ConnUpdates DEF ConnPcs
  <2>2. OnlyConn(t) /\ conn'[t] = d2
    BY <1>1, <1>4, <2>1, ConnPuts
  <2>3. /\ d2.pc = "live" /\ d2.node = c.node /\ d2.buf = c.buf /\ d2.done = c.done
        /\ d2.reserved = c.reserved /\ d2.skip = c.page
    BY <1>1 DEF ConnRec
  <2>4. (c.page + 1 .. newest) \in SUBSET Nat
    BY <1>1
  <2>5. /\ OnlyTab(t) /\ tab'[t].seen = tab[t].seen /\ tab'[t].base = tab[t].base
        /\ tab'[t].got = tab[t].got
        /\ tab'[t].missed = tab[t].missed \cup (c.page + 1 .. newest)
    BY <1>1, <1>4, <2>4, MissedFields
  <2>6. QED
    BY <1>2, <2>2, <2>3, <2>5 DEF Kept, Known
<1>5. QED
  BY <1>3, <1>4 DEF ReplayRead

LEMMA ReplayWriteFields ==
  ASSUME SseTypeOK, NEW t \in Tabs, ReplayWrite(t)
  PROVE  /\ OnlyConn(t) /\ OnlyTab(t) /\ UNCHANGED conn
         /\ UNCHANGED <<newest, gone, count, hub, reader, connects, slack, leak>>
         /\ conn[t].pc = "replay" /\ conn[t].page > tab[t].seen
         /\ tab'[t].seen = MaxOf(tab[t].seen, conn[t].cut) + 1 /\ tab'[t].base = tab[t].base
         /\ Known(t)' = Known(t) \cup {MaxOf(tab[t].seen, conn[t].cut) + 1}
<1>1. ConnsTyped /\ TabsTyped /\ MaxOf(tab[t].seen, conn[t].cut) + 1 \in Nat
  <2>1. ConnsTyped /\ TabsTyped
    BY SseTypeParts
  <2>2. conn[t] \in ConnRec /\ tab[t] \in TabRec
    BY <2>1 DEF ConnsTyped, TabsTyped
  <2>3. conn[t].cut \in Nat /\ tab[t].seen \in Nat
    BY <2>2 DEF ConnRec, TabRec
  <2>4. QED
    BY <2>1, <2>3 DEF MaxOf
<1>2. /\ conn[t].pc = "replay" /\ conn[t].page > tab[t].seen
      /\ Received(t, MaxOf(tab[t].seen, conn[t].cut) + 1)
      /\ UNCHANGED <<conn, newest, gone, count, hub, reader, connects, slack, leak>>
  BY DEF ReplayWrite
<1>3. QED
  BY <1>1, <1>2, ReceivedFields DEF ConnsTyped, OnlyConn, Known

LEMMA WriteFields ==
  ASSUME SseTypeOK, NEW t \in Tabs, Write(t)
  PROVE  /\ OnlyConn(t) /\ OnlyTab(t) /\ conn[t].pc = "live" /\ conn[t].buf # <<>>
         /\ Same(conn[t], conn'[t]) /\ conn'[t].done = conn[t].done
         /\ conn'[t].buf = Tail(conn[t].buf)
         /\ UNCHANGED <<newest, gone, count, hub, reader, connects, slack, leak>>
         /\ \/ /\ Head(conn[t].buf) = 0 \/ SkipReplayed(conn[t], Head(conn[t].buf))
               /\ UNCHANGED tab
            \/ /\ Head(conn[t].buf) # 0 /\ ~SkipReplayed(conn[t], Head(conn[t].buf))
               /\ tab'[t].seen = Head(conn[t].buf) /\ tab'[t].base = tab[t].base
               /\ Known(t)' = Known(t) \cup {Head(conn[t].buf)}
<1> DEFINE c == conn[t]
           e == Head(c.buf)
           d == [c EXCEPT !.buf = Tail(c.buf)]
<1>1. ConnsTyped /\ TabsTyped /\ c \in ConnRec /\ c.buf \in Seq(Nat)
  BY SseTypeParts DEF ConnsTyped, ConnRec
<1>2. /\ c.pc = "live" /\ c.buf # <<>> /\ conn' = [conn EXCEPT ![t] = d]
      /\ UNCHANGED <<newest, gone, count, hub, reader, connects, slack, leak>>
  BY DEF Write
<1>3. e \in Nat /\ Tail(c.buf) \in Seq(Nat)
  BY <1>1, <1>2
<1>4. d \in ConnRec
  BY <1>1, <1>3, ConnUpdates
<1>5. OnlyConn(t) /\ conn'[t] = d
  BY <1>1, <1>2, <1>4, ConnPuts
<1>6. Same(c, d) /\ d.done = c.done /\ d.buf = Tail(c.buf)
  BY <1>1 DEF ConnRec, Same
<1>7. CASE (e = 0 \/ SkipReplayed(c, e)) /\ UNCHANGED tab
  BY <1>1, <1>2, <1>5, <1>6, <1>7, SameTabs
<1>8. CASE ~(e = 0 \/ SkipReplayed(c, e)) /\ Received(t, e)
  BY <1>1, <1>2, <1>3, <1>5, <1>6, <1>8, ReceivedFields DEF Known
<1>9. QED
  BY <1>7, <1>8 DEF Write

LEMMA LeaveFields ==
  ASSUME SseTypeOK, NEW t \in Tabs, Finish(t) \/ Drop(t)
  PROVE  /\ OnlyConn(t) /\ Kept(t) /\ conn[t].pc \in {"replay", "live"}
         /\ conn'[t].pc = "remove" /\ conn'[t].reserved = conn[t].reserved
         /\ UNCHANGED <<newest, gone, count, hub, reader, tab, connects, slack, leak>>
<1>1. ConnsTyped /\ "remove" \in ConnPcs
  BY SseTypeParts DEF ConnPcs
<1>2. /\ conn[t].pc \in {"replay", "live"} /\ conn' = [conn EXCEPT ![t].pc = "remove"]
      /\ UNCHANGED <<newest, gone, count, hub, reader, tab, connects, slack, leak>>
  BY DEF Finish, Drop
<1>3. QED
  BY <1>1, <1>2, GoesTo

LEMMA ConnectFields ==
  ASSUME SseTypeOK, NEW t \in Tabs, NEW n \in Nodes, Connect(t, n)
  PROVE  /\ OnlyConn(t) /\ OnlyTab(t) /\ conn[t].pc = "off"
         /\ conn'[t].pc = "incr" /\ conn'[t].node = n /\ conn'[t].buf = <<>>
         /\ ~conn'[t].reserved /\ ~conn'[t].done
         /\ tab'[t].seen = tab[t].seen /\ Known(t)' = Known(t)
         /\ tab'[t].base = IF tab[t].seen = 0 THEN newest ELSE tab[t].base
         /\ UNCHANGED <<newest, gone, count, slack, leak>>
<1>1. ConnsTyped /\ TabsTyped /\ newest \in Nat /\ tab[t] \in TabRec
  BY SseTypeParts, NewestTyped DEF TabsTyped
<1>2. /\ conn[t].pc = "off" /\ UNCHANGED <<newest, gone, count, slack, leak>>
      /\ conn' = [conn EXCEPT ![t] = [NoConn EXCEPT !.pc = "incr", !.node = n]]
      /\ tab' = [tab EXCEPT ![t].base = IF tab[t].seen = 0 THEN newest ELSE @]
  BY DEF Connect
<1> DEFINE d == [NoConn EXCEPT !.pc = "incr", !.node = n]
           b == IF tab[t].seen = 0 THEN newest ELSE tab[t].base
<1>3. d \in ConnRec
  BY NoConnFields, ConnUpdates DEF ConnPcs
<1>4. OnlyConn(t) /\ conn'[t] = d
  BY <1>1, <1>2, <1>3, ConnPuts
<1>5. d.pc = "incr" /\ d.node = n /\ d.buf = <<>> /\ d.reserved = FALSE /\ d.done = FALSE
  BY NoConnFields DEF ConnRec
<1>6. b \in Nat
  BY <1>1 DEF TabRec
<1>7. tab' = [tab EXCEPT ![t] = [tab[t] EXCEPT !.base = b]]
  BY <1>2
<1> HIDE DEF b
<1>8. OnlyTab(t) /\ tab'[t] = [tab[t] EXCEPT !.base = b]
  BY <1>1, <1>6, <1>7, TabUpdates DEF TabsTyped, OnlyTab
<1>9. tab'[t].base = b /\ tab'[t].seen = tab[t].seen /\ Known(t)' = Known(t)
  BY <1>1, <1>8 DEF TabRec, Known
<1>10. QED
  BY <1>2, <1>4, <1>5, <1>8, <1>9 DEF b

LEMMA SendAllFields ==
  ASSUME SseTypeOK, NEW S \in SUBSET Tabs, NEW e \in Nat, SendAll(S, e)
  PROVE  /\ conn' \in [Tabs -> ConnRec] /\ tab' \in [Tabs -> TabRec]
         /\ \A t \in Tabs :
              /\ Same(conn[t], conn'[t]) /\ (conn[t].done => conn'[t].done)
              /\ conn'[t].buf = IF t \in S /\ ~conn[t].done /\ Len(conn[t].buf) < Buffer
                                THEN Append(conn[t].buf, e) ELSE conn[t].buf
              /\ tab'[t].seen = tab[t].seen /\ tab'[t].base = tab[t].base
              /\ Known(t)' = IF e > 0 /\ t \in S /\ ~conn[t].done /\ Len(conn[t].buf) = Buffer
                             THEN Known(t) \cup {e} ELSE Known(t)
<1>1. ConnsTyped /\ TabsTyped
  BY SseTypeParts
<1>2. PICK late \in {FALSE, "slow" \in env} :
        conn' = [t \in Tabs |-> IF t \in S THEN Sent(conn[t], e, late) ELSE conn[t]]
  BY DEF SendAll
<1> late \in BOOLEAN
  <2>1. ("slow" \in env) \in BOOLEAN
    OBVIOUS
  <2>2. {FALSE, "slow" \in env} \subseteq BOOLEAN
    BY <2>1
  <2>3. QED
    BY <2>2, Zenon
<1>3. ASSUME NEW t \in Tabs
      PROVE  /\ conn'[t] \in ConnRec
             /\ Same(conn[t], conn'[t]) /\ (conn[t].done => conn'[t].done)
             /\ conn'[t].buf = IF t \in S /\ ~conn[t].done /\ Len(conn[t].buf) < Buffer
                               THEN Append(conn[t].buf, e) ELSE conn[t].buf
  <2>1. conn[t] \in ConnRec
    BY <1>1 DEF ConnsTyped
  <2>2. CASE t \in S
    <3>1. conn'[t] = Sent(conn[t], e, late)
      BY <1>2, <2>2
    <3>2. QED
      BY <2>1, <2>2, <3>1, SentFields
  <2>3. CASE t \notin S
    BY <1>2, <2>1, <2>3 DEF Same
  <2>4. QED
    BY <2>2, <2>3
<1>4. ASSUME NEW t \in Tabs
      PROVE  /\ tab'[t] \in TabRec
             /\ tab'[t].seen = tab[t].seen /\ tab'[t].base = tab[t].base
             /\ Known(t)' = IF e > 0 /\ t \in S /\ ~conn[t].done /\ Len(conn[t].buf) = Buffer
                            THEN Known(t) \cup {e} ELSE Known(t)
  <2>1. tab[t] \in TabRec /\ tab[t].missed \cup {e} \in SUBSET Nat
    BY <1>1 DEF TabsTyped, TabRec
  <2>2. CASE e > 0 /\ t \in S /\ ~conn[t].done /\ Len(conn[t].buf) = Buffer
    <3>1. tab'[t] = [tab[t] EXCEPT !.missed = tab[t].missed \cup {e}]
      BY <2>2 DEF SendAll
    <3>2. QED
      BY <2>1, <2>2, <3>1, TabUpdates DEF TabRec, Known
  <2>3. CASE ~(e > 0 /\ t \in S /\ ~conn[t].done /\ Len(conn[t].buf) = Buffer)
    <3>1. tab'[t] = tab[t]
      BY <2>3 DEF SendAll
    <3>2. QED
      BY <2>1, <2>3, <3>1 DEF Known
  <2>4. QED
    BY <2>2, <2>3
<1>5. conn' \in [Tabs -> ConnRec]
  BY <1>2, <1>3
<1>6. tab' \in [Tabs -> TabRec]
  BY <1>4 DEF SendAll
<1>7. QED
  BY <1>3, <1>4, <1>5, <1>6

LEMMA EvictOneFields ==
  ASSUME SseTypeOK, NEW n \in Nodes, NEW t \in Tabs, EvictOne(n, t)
  PROVE  /\ OnlyConn(t) /\ Same(conn[t], conn'[t]) /\ conn'[t].done
         /\ conn'[t].buf = conn[t].buf \/ ( /\ Len(conn[t].buf) < Buffer
                                            /\ conn'[t].buf = Append(conn[t].buf, 0) )
         /\ UNCHANGED <<newest, gone, count, reader, tab, connects, slack, leak>>
<1>1. ConnsTyped /\ conn[t] \in ConnRec
  BY SseTypeParts DEF ConnsTyped
<1> DEFINE s == Sent(conn[t], 0, FALSE)
           d == [s EXCEPT !.done = TRUE]
<1>2. /\ s \in ConnRec /\ Same(conn[t], s)
      /\ s.buf = IF ~conn[t].done /\ Len(conn[t].buf) < Buffer
                 THEN Append(conn[t].buf, 0) ELSE conn[t].buf
  BY <1>1, SentFields
<1>3. conn' = [conn EXCEPT ![t] = d]
      /\ UNCHANGED <<newest, gone, count, reader, tab, connects, slack, leak>>
  BY DEF EvictOne
<1> HIDE DEF s
<1>4. d \in ConnRec /\ Same(s, d) /\ d.buf = s.buf /\ d.done = TRUE
  <2>1. d \in ConnRec
    BY <1>2, ConnUpdates
  <2>2. QED
    BY <1>2, <2>1 DEF Same, ConnRec
<1>5. OnlyConn(t) /\ conn'[t] = d
  BY <1>1, <1>3, <1>4, ConnPuts
<1>6. QED
  BY <1>2, <1>3, <1>4, <1>5 DEF Same

LEMMA CloseFields ==
  ASSUME SseTypeOK, NEW n \in Nodes, Close(n)
  PROVE  /\ conn' \in [Tabs -> ConnRec]
         /\ \A t \in Tabs : /\ Same(conn[t], conn'[t]) /\ (conn[t].done => conn'[t].done)
                            /\ conn'[t].buf = conn[t].buf
         /\ UNCHANGED <<newest, gone, count, tab, slack, leak>>
<1>1. ASSUME NEW t \in Tabs
      PROVE  /\ conn'[t] \in ConnRec /\ Same(conn[t], conn'[t])
             /\ (conn[t].done => conn'[t].done) /\ conn'[t].buf = conn[t].buf
  <2>1. conn[t] \in ConnRec
    BY SseTypeParts DEF ConnsTyped
  <2>2. PICK v \in BOOLEAN : v <=> (conn[t].done \/ t \in hub[n].clients)
    OBVIOUS
  <2>3. conn'[t] = [conn[t] EXCEPT !.done = conn[t].done \/ t \in hub[n].clients]
    BY DEF Close
  <2>4. (conn[t].done \/ t \in hub[n].clients) \in BOOLEAN
    OBVIOUS
  <2>5. conn'[t] \in ConnRec
    BY <2>1, <2>3, <2>4, ConnUpdates
  <2>6. QED
    BY <2>1, <2>3, <2>5 DEF Same, ConnRec
<1>2. conn' \in [Tabs -> ConnRec]
  BY <1>1 DEF Close
<1>3. QED
  BY <1>1, <1>2 DEF Close

LEMMA CrashFields ==
  ASSUME SseTypeOK, NEW n \in Nodes, Crash(n)
  PROVE  /\ conn' \in [Tabs -> ConnRec]
         /\ \A t \in Tabs : conn'[t] = IF conn[t].node = n THEN NoConn ELSE conn[t]
         /\ UNCHANGED <<newest, gone, count, tab, slack>>
         /\ hub' = [hub EXCEPT ![n] = NewHub]
         /\ reader' = [reader EXCEPT ![n] = NoReader]
         /\ (leak' <=> (leak \/ \E t \in Tabs : conn[t].node = n /\ conn[t].reserved))
<1>1. conn \in [Tabs -> ConnRec]
  BY SseTypeParts DEF ConnsTyped
<1>2. \A t \in Tabs : conn'[t] = IF conn[t].node = n THEN NoConn ELSE conn[t]
  BY DEF Crash
<1>3. conn' \in [Tabs -> ConnRec]
  BY <1>1, InitialTypes DEF Crash
<1>4. QED
  BY <1>2, <1>3 DEF Crash

-----------------------------------------------------------------------------
(* What the steps do to the nodes *)

OnlyHub(n) == hub' \in [Nodes -> HubRec] /\ \A m \in Nodes : m # n => hub'[m] = hub[m]
OnlyReader(n) ==
  reader' \in [Nodes -> ReaderRec] /\ \A m \in Nodes : m # n => reader'[m] = reader[m]

LEMMA HubUpdates ==
  ASSUME NEW h \in HubRec
  PROVE  /\ \A v \in BOOLEAN : [h EXCEPT !.open = v] \in HubRec
         /\ \A S \in SUBSET Tabs : [h EXCEPT !.clients = S] \in HubRec
         /\ \A i \in Nat : [h EXCEPT !.ip = i] \in HubRec
         /\ \A S \in SUBSET Tabs : [h EXCEPT !.evict = S] \in HubRec
BY DEF HubRec

LEMMA HubPuts ==
  ASSUME HubsTyped, NEW n \in Nodes, NEW h \in HubRec, hub' = [hub EXCEPT ![n] = h]
  PROVE  OnlyHub(n) /\ hub'[n] = h
BY DEF HubsTyped, OnlyHub

LEMMA ReaderPuts ==
  ASSUME ReadersTyped, NEW n \in Nodes, NEW r \in ReaderRec, reader' = [reader EXCEPT ![n] = r]
  PROVE  OnlyReader(n) /\ reader'[n] = r
BY DEF ReadersTyped, OnlyReader

LEMMA SameNodes ==
  /\ HubsTyped /\ UNCHANGED hub => \A n \in Nodes : OnlyHub(n)
  /\ ReadersTyped /\ UNCHANGED reader => \A n \in Nodes : OnlyReader(n)
BY DEF HubsTyped, ReadersTyped, OnlyHub, OnlyReader

LEMMA FiniteClients ==
  ASSUME SseTypeOK, NEW n \in Nodes
  PROVE  /\ IsFiniteSet(hub[n].clients) /\ Cardinality(hub[n].clients) \in Nat
         /\ \A t \in Tabs :
              /\ Cardinality(hub[n].clients \cup {t}) =
                   IF t \in hub[n].clients THEN Cardinality(hub[n].clients)
                                           ELSE Cardinality(hub[n].clients) + 1
              /\ Cardinality(hub[n].clients \ {t}) =
                   IF t \in hub[n].clients THEN Cardinality(hub[n].clients) - 1
                                           ELSE Cardinality(hub[n].clients)
<1>1. hub[n].clients \subseteq Tabs
  BY SseTypeParts DEF HubsTyped, HubRec
<1>2. IsFiniteSet(hub[n].clients)
  BY <1>1, ConstantsAssumption, FS_Subset
<1>3. QED
  BY <1>2, FS_AddElement, FS_RemoveElement, FS_CardinalityType

LEMMA ConnectNodes ==
  ASSUME SseTypeOK, RegistryAgrees, NEW t \in Tabs, NEW n \in Nodes, Connect(t, n)
  PROVE  /\ OnlyHub(n) /\ OnlyReader(n) /\ hub[n].open /\ hub'[n].open
         /\ hub'[n].clients = hub[n].clients \cup {t}
         /\ hub'[n].ip = hub[n].ip + 1
         /\ \/ reader'[n] = reader[n] /\ reader[n].pc # "none"
            \/ /\ reader[n].pc = "none" /\ reader'[n].pc = "idle"
               /\ reader'[n].last = 0 /\ reader'[n].from = newest
<1>1. HubsTyped /\ ReadersTyped /\ hub[n] \in HubRec /\ newest \in Nat
  BY SseTypeParts, NewestTyped DEF HubsTyped
<1> DEFINE h == [hub[n] EXCEPT !.clients = hub[n].clients \cup {t}, !.ip = hub[n].ip + 1]
           r == [NoReader EXCEPT !.pc = "idle", !.from = newest]
<1>2. hub[n].clients \cup {t} \in SUBSET Tabs /\ hub[n].ip + 1 \in Nat
  BY <1>1 DEF HubRec
<1>3. h \in HubRec
  BY <1>1, <1>2, HubUpdates
<1>4. hub' = [hub EXCEPT ![n] = h] /\ hub[n].open
  BY DEF Connect
<1>5. OnlyHub(n) /\ hub'[n] = h
  BY <1>1, <1>3, <1>4, HubPuts
<1>6. /\ hub'[n].open /\ hub'[n].clients = hub[n].clients \cup {t}
      /\ hub'[n].ip = hub[n].ip + 1
  BY <1>1, <1>4, <1>5 DEF HubRec
<1>7. CASE reader[n].pc # "none"
  <2>1. reader' = reader
    BY <1>7 DEF Connect
  <2>2. QED
    BY <1>1, <1>4, <1>5, <1>6, <1>7, <2>1, SameNodes
<1>8. CASE reader[n].pc = "none"
  <2>1. \A q \in ReaderRec : LET s == [q EXCEPT !.pc = "idle", !.from = newest]
                            IN s.pc = "idle" /\ s.last = q.last /\ s.from = newest
    BY DEF ReaderRec
  <2>2. r \in ReaderRec /\ r.pc = "idle" /\ r.last = 0 /\ r.from = newest
    <3>1. /\ \A q \in ReaderRec : [q EXCEPT !.pc = "idle"] \in ReaderRec
          /\ \A q \in ReaderRec : [q EXCEPT !.from = newest] \in ReaderRec
      BY <1>1 DEF ReaderRec
    <3>2. NoReader \in ReaderRec /\ NoReader.last = 0
      BY InitialTypes DEF NoReader
    <3>3. QED
      BY <2>1, <3>1, <3>2
  <2>3. reader' = [reader EXCEPT ![n] = r]
    BY <1>8 DEF Connect
  <2>4. OnlyReader(n) /\ reader'[n] = r
    BY <1>1, <2>2, <2>3, ReaderPuts
  <2>5. QED
    BY <1>4, <1>5, <1>6, <1>8, <2>2, <2>4
<1>9. QED
  BY <1>7, <1>8

LEMMA RemoveNodes ==
  ASSUME SseTypeOK, RegistryAgrees, SeatsOK, NEW t \in Tabs, Remove(t)
  PROVE  LET n == conn[t].node
         IN /\ n \in Nodes /\ t \in hub[n].clients
            /\ OnlyHub(n) /\ OnlyReader(n) /\ hub'[n].open = hub[n].open
            /\ hub'[n].clients = hub[n].clients \ {t}
            /\ hub'[n].ip = hub[n].ip - 1
            /\ \/ reader'[n] = reader[n] /\ hub'[n].clients # {}
               \/ reader'[n] = NoReader /\ hub'[n].clients = {}
<1> DEFINE n == conn[t].node
           h == [hub[n] EXCEPT !.clients = hub[n].clients \ {t}, !.ip = hub[n].ip - 1,
                               !.evict = hub[n].evict \ {t}]
<1>1. conn[t].pc = "remove" /\ n \in Nodes
  BY DEF Remove, SeatsOK
<1>2. HubsTyped /\ ReadersTyped /\ hub[n] \in HubRec
  BY <1>1, SseTypeParts DEF HubsTyped
<1>3. t \in hub[n].clients
  BY <1>1 DEF RegistryAgrees
<1>4. hub[n].ip - 1 \in Nat
  <2>1. hub[n].ip = Cardinality(hub[n].clients)
    BY <1>1 DEF RegistryAgrees
  <2>2. Cardinality(hub[n].clients) # 0 /\ Cardinality(hub[n].clients) \in Nat
    BY <1>1, <1>3, FiniteClients, FS_EmptySet
  <2>3. QED
    BY <2>1, <2>2
<1>5. hub[n].clients \ {t} \in SUBSET Tabs /\ hub[n].evict \ {t} \in SUBSET Tabs
  BY <1>2 DEF HubRec
<1>6. h \in HubRec
  BY <1>2, <1>4, <1>5, HubUpdates
<1>7. hub' = [hub EXCEPT ![n] = h]
  BY DEF Remove
<1>8. OnlyHub(n) /\ hub'[n] = h
  BY <1>1, <1>2, <1>6, <1>7, HubPuts
<1>9. /\ hub'[n].open = hub[n].open /\ hub'[n].clients = hub[n].clients \ {t}
      /\ hub'[n].ip = hub[n].ip - 1
  BY <1>2, <1>8 DEF HubRec
<1>10. CASE hub'[n].clients = {}
  <2>1. reader' = [reader EXCEPT ![n] = NoReader]
    BY <1>10 DEF Remove
  <2>2. OnlyReader(n) /\ reader'[n] = NoReader
    BY <1>1, <1>2, <2>1, InitialTypes, ReaderPuts
  <2>3. QED
    BY <1>1, <1>3, <1>8, <1>9, <1>10, <2>2
<1>11. CASE hub'[n].clients # {}
  <2>1. reader' = reader
    BY <1>11 DEF Remove
  <2>2. QED
    BY <1>1, <1>2, <1>3, <1>8, <1>9, <1>11, <2>1, SameNodes
<1>12. QED
  BY <1>10, <1>11

\* Evictions and the ends of nodes.
LEMMA EvictNodes ==
  ASSUME SseTypeOK, NEW n \in Nodes,
         Evict(n) \/ Close(n) \/ \E t \in Tabs : EvictOne(n, t)
  PROVE  /\ OnlyHub(n) /\ hub'[n].clients = hub[n].clients /\ hub'[n].ip = hub[n].ip
         /\ hub'[n].open => hub[n].open /\ UNCHANGED reader
         /\ OnlyReader(n) /\ (reader'[n] = reader[n] \/ reader'[n] = NoReader)
<1>1. HubsTyped /\ ReadersTyped /\ hub[n] \in HubRec
  BY SseTypeParts DEF HubsTyped
<1>2. CASE Evict(n) \/ \E t \in Tabs : EvictOne(n, t)
  <2>1. UNCHANGED reader
    BY <1>2 DEF Evict, EvictOne
  <2>2. PICK S \in SUBSET Tabs : hub' = [hub EXCEPT ![n] = [hub[n] EXCEPT !.evict = S]]
    <3>1. CASE Evict(n)
      BY <1>1, <3>1 DEF Evict, HubRec
    <3>2. ASSUME NEW t \in Tabs, EvictOne(n, t)
          PROVE  \E S \in SUBSET Tabs : hub' = [hub EXCEPT ![n] = [hub[n] EXCEPT !.evict = S]]
      <4>1. hub' = [hub EXCEPT ![n] = [hub[n] EXCEPT !.evict = hub[n].evict \ {t}]]
        BY <3>2 DEF EvictOne
      <4>2. hub[n].evict \ {t} \in SUBSET Tabs
        BY <1>1 DEF HubRec
      <4>3. QED
        BY <4>1, <4>2
    <3>3. QED
      BY <1>2, <3>1, <3>2
  <2>3. OnlyHub(n) /\ hub'[n] = [hub[n] EXCEPT !.evict = S]
    BY <1>1, <2>2, HubUpdates, HubPuts
  <2>4. QED
    BY <1>1, <2>1, <2>3, SameNodes DEF HubRec
<1>3. CASE Close(n)
  <2>1. /\ hub' = [hub EXCEPT ![n] = [hub[n] EXCEPT !.open = FALSE]]
        /\ reader' = [reader EXCEPT ![n] = NoReader]
    BY <1>3 DEF Close
  <2>2. OnlyHub(n) /\ hub'[n] = [hub[n] EXCEPT !.open = FALSE]
    BY <1>1, <2>1, HubUpdates, HubPuts
  <2>3. OnlyReader(n) /\ reader'[n] = NoReader
    BY <1>1, <2>1, InitialTypes, ReaderPuts
  <2>4. QED
    BY <1>1, <2>2, <2>3 DEF HubRec
<1>4. QED
  BY <1>2, <1>3

LEMMA CrashNodes ==
  ASSUME SseTypeOK, NEW n \in Nodes, Crash(n)
  PROVE  /\ OnlyHub(n) /\ OnlyReader(n) /\ hub'[n] = NewHub /\ reader'[n] = NoReader
BY SseTypeParts, CrashFields, InitialTypes, HubPuts, ReaderPuts

\* A reader polls, comes back with or without events, and dispatches them.
LEMMA ReaderUpdates ==
  ASSUME NEW r \in ReaderRec
  PROVE  /\ \A p \in {"none", "idle", "poll", "dispatch"} : [r EXCEPT !.pc = p] \in ReaderRec
         /\ \A i \in Nat : [r EXCEPT !.last = i] \in ReaderRec
         /\ \A i \in Nat : [r EXCEPT !.from = i] \in ReaderRec
         /\ \A i \in Nat : [r EXCEPT !.upto = i] \in ReaderRec
BY DEF ReaderRec

LEMMA PollStartFields ==
  ASSUME SseTypeOK, NEW n \in Nodes, PollStart(n)
  PROVE  /\ OnlyReader(n) /\ UNCHANGED <<newest, gone, count, hub, conn, slack, leak>>
         /\ reader[n].pc = "idle" /\ reader'[n].pc = "poll"
         /\ reader'[n].last = reader[n].last /\ reader'[n].from = newest
         /\ tab' \in [Tabs -> TabRec]
         /\ \A t \in Tabs :
              /\ tab'[t].seen = tab[t].seen /\ tab'[t].base = tab[t].base
              /\ Known(t)' = IF t \in hub[n].clients
                             THEN Known(t) \cup (reader[n].from + 1 .. newest) ELSE Known(t)
<1>1. ReadersTyped /\ TabsTyped /\ reader[n] \in ReaderRec /\ newest \in Nat
      /\ reader[n].from \in Nat
  BY SseTypeParts, NewestTyped DEF ReadersTyped, ReaderRec
<1>2. /\ reader' = [reader EXCEPT ![n] = [reader[n] EXCEPT !.pc = "poll", !.from = newest]]
      /\ reader[n].pc = "idle" /\ UNCHANGED <<newest, gone, count, hub, conn, slack, leak>>
  BY DEF PollStart
<1>3. /\ OnlyReader(n) /\ reader'[n].pc = "poll"
      /\ reader'[n].last = reader[n].last /\ reader'[n].from = newest
  <2> DEFINE d == [reader[n] EXCEPT !.pc = "poll", !.from = newest]
  <2>1. d \in ReaderRec
    BY <1>1, ReaderUpdates
  <2>2. OnlyReader(n) /\ reader'[n] = d
    BY <1>1, <1>2, <2>1, ReaderPuts
  <2>3. QED
    BY <1>1, <2>2 DEF ReaderRec
<1>4. ASSUME NEW t \in Tabs
      PROVE  /\ tab'[t] \in TabRec
             /\ tab'[t].seen = tab[t].seen /\ tab'[t].base = tab[t].base
             /\ Known(t)' = IF t \in hub[n].clients
                            THEN Known(t) \cup (reader[n].from + 1 .. newest) ELSE Known(t)
  <2>1. tab[t] \in TabRec
    BY <1>1 DEF TabsTyped
  <2>2. CASE t \in hub[n].clients
    <3>1. tab'[t] = [tab[t] EXCEPT !.missed = tab[t].missed \cup (reader[n].from + 1 .. newest)]
      BY <2>2 DEF PollStart
    <3>2. tab[t].missed \cup (reader[n].from + 1 .. newest) \in SUBSET Nat
      BY <1>1, <2>1 DEF TabRec
    <3>3. QED
      BY <2>1, <2>2, <3>1, <3>2, TabUpdates DEF TabRec, Known
  <2>3. CASE t \notin hub[n].clients
    <3>1. tab'[t] = tab[t]
      BY <2>3 DEF PollStart
    <3>2. QED
      BY <2>1, <2>3, <3>1 DEF Known
  <2>4. QED
    BY <2>2, <2>3
<1>5. tab' \in [Tabs -> TabRec]
  BY <1>4 DEF PollStart
<1>6. QED
  BY <1>2, <1>3, <1>4, <1>5

LEMMA PollReturnsFields ==
  ASSUME SseTypeOK, NEW n \in Nodes, PollReturns(n)
  PROVE  /\ OnlyReader(n) /\ UNCHANGED <<newest, gone, count, hub, conn, slack, leak>>
         /\ reader[n].pc = "poll" /\ reader'[n].pc = "dispatch"
         /\ reader[n].from <= reader'[n].last /\ reader'[n].from = reader[n].from
         /\ reader'[n].last < reader'[n].upto /\ reader'[n].upto <= newest
         /\ tab' \in [Tabs -> TabRec]
         /\ \A t \in Tabs :
              /\ tab'[t].seen = tab[t].seen /\ tab'[t].base = tab[t].base
              /\ Known(t)' = IF t \in hub[n].clients
                             THEN Known(t) \cup (reader[n].from + 1 .. reader'[n].last)
                             ELSE Known(t)
<1> DEFINE f == MaxOf(reader[n].from, gone)
           u == MinOf(f + Page, newest)
<1>1. ReadersTyped /\ TabsTyped /\ reader[n] \in ReaderRec /\ newest \in Nat /\ gone \in Nat
      /\ reader[n].from \in Nat /\ Page \in Nat \ {0}
  BY SseTypeParts, NewestTyped, ConstantsAssumption DEF ReadersTyped, ReaderRec
<1>2. /\ reader' = [reader EXCEPT ![n] = [reader[n] EXCEPT !.pc = "dispatch",
                                                          !.last = f, !.upto = u]]
      /\ tab' = [t \in Tabs |->
                   IF t \in hub[n].clients
                   THEN [tab[t] EXCEPT !.missed = @ \cup (reader[n].from + 1 .. f)] ELSE tab[t]]
      /\ reader[n].pc = "poll" /\ newest > f
      /\ UNCHANGED <<newest, gone, count, hub, conn, slack, leak>>
  BY DEF PollReturns
<1>3. f \in Nat /\ reader[n].from <= f
  BY <1>1 DEF MaxOf
<1> HIDE DEF f
<1>4. u \in Nat /\ f < u /\ u <= newest
  BY <1>1, <1>2, <1>3 DEF MinOf
<1> HIDE DEF u
<1>5. /\ OnlyReader(n) /\ reader'[n].pc = "dispatch" /\ reader'[n].last = f
      /\ reader'[n].from = reader[n].from /\ reader'[n].upto = u
  <2> DEFINE d == [reader[n] EXCEPT !.pc = "dispatch", !.last = f, !.upto = u]
  <2>1. d \in ReaderRec
    BY <1>1, <1>3, <1>4, ReaderUpdates
  <2>2. OnlyReader(n) /\ reader'[n] = d
    BY <1>1, <1>2, <2>1, ReaderPuts
  <2>3. QED
    BY <1>1, <2>2 DEF ReaderRec
<1>6. ASSUME NEW t \in Tabs
      PROVE  /\ tab'[t] \in TabRec
             /\ tab'[t].seen = tab[t].seen /\ tab'[t].base = tab[t].base
             /\ Known(t)' = IF t \in hub[n].clients
                            THEN Known(t) \cup (reader[n].from + 1 .. f) ELSE Known(t)
  <2>1. tab[t] \in TabRec
    BY <1>1 DEF TabsTyped
  <2>2. CASE t \in hub[n].clients
    <3>1. tab'[t] = [tab[t] EXCEPT !.missed = tab[t].missed \cup (reader[n].from + 1 .. f)]
      BY <1>2, <2>2
    <3>2. tab[t].missed \cup (reader[n].from + 1 .. f) \in SUBSET Nat
      BY <1>1, <1>3, <2>1 DEF TabRec
    <3>3. QED
      BY <2>1, <2>2, <3>1, <3>2, TabUpdates DEF TabRec, Known
  <2>3. CASE t \notin hub[n].clients
    BY <1>2, <2>1, <2>3 DEF Known
  <2>4. QED
    BY <2>2, <2>3
<1>7. tab' \in [Tabs -> TabRec]
  BY <1>2, <1>6
<1>8. QED
  BY <1>2, <1>3, <1>4, <1>5, <1>6, <1>7

LEMMA PollEndsFields ==
  ASSUME SseTypeOK, NEW n \in Nodes, PollEnds(n)
  PROVE  /\ OnlyReader(n) /\ UNCHANGED <<newest, gone, count, hub, conn, tab, slack, leak>>
         /\ reader[n].pc = "poll" /\ reader[n].last = 0 /\ reader'[n].pc = "idle"
         /\ reader'[n].last = reader[n].last /\ reader'[n].from = reader[n].from
<1>1. ReadersTyped /\ reader[n] \in ReaderRec
  BY SseTypeParts DEF ReadersTyped
<1>2. /\ reader' = [reader EXCEPT ![n] = [reader[n] EXCEPT !.pc = "idle"]]
      /\ reader[n].pc = "poll" /\ reader[n].last = 0
      /\ UNCHANGED <<newest, gone, count, hub, conn, tab, slack, leak>>
  BY DEF PollEnds
<1>3. QED
  <2> DEFINE d == [reader[n] EXCEPT !.pc = "idle"]
  <2>1. d \in ReaderRec
    BY <1>1, ReaderUpdates
  <2>2. OnlyReader(n) /\ reader'[n] = d
    BY <1>1, <1>2, <2>1, ReaderPuts
  <2>3. QED
    BY <1>1, <1>2, <2>2 DEF ReaderRec

LEMMA DispatchFields ==
  ASSUME SseTypeOK, NEW n \in Nodes, Dispatch(n)
  PROVE  LET e == reader[n].last + 1
         IN /\ e \in Nat /\ OnlyReader(n) /\ UNCHANGED <<newest, gone, count, hub, slack, leak>>
            /\ SendAll(hub[n].clients, e)
            /\ reader[n].pc = "dispatch" /\ reader'[n].last = e
            /\ \/ e = reader[n].upto /\ reader'[n].pc = "poll" /\ reader'[n].from = e
               \/ /\ e # reader[n].upto /\ reader'[n].pc = "dispatch"
                  /\ reader'[n].from = reader[n].from /\ reader'[n].upto = reader[n].upto
<1> DEFINE e == reader[n].last + 1
<1>1. ReadersTyped /\ reader[n] \in ReaderRec /\ e \in Nat
  BY SseTypeParts DEF ReadersTyped, ReaderRec
<1>2. /\ reader[n].pc = "dispatch" /\ UNCHANGED <<newest, gone, count, hub, slack, leak>>
      /\ SendAll(hub[n].clients, e)
  BY DEF Dispatch
<1> HIDE DEF e
<1>3. CASE e = reader[n].upto
  <2> DEFINE r == [NoReader EXCEPT !.pc = "poll", !.last = e, !.from = e]
  <2>1. reader' = [reader EXCEPT ![n] = r]
    BY <1>3 DEF Dispatch, e
  <2>2. r \in ReaderRec /\ r.pc = "poll" /\ r.last = e /\ r.from = e
    <3>1. r \in ReaderRec
      BY <1>1, InitialTypes, ReaderUpdates
    <3>2. QED
      BY <3>1, InitialTypes DEF ReaderRec
  <2>3. OnlyReader(n) /\ reader'[n] = r
    BY <1>1, <2>1, <2>2, ReaderPuts
  <2>4. QED
    BY <1>1, <1>2, <1>3, <2>2, <2>3 DEF e
<1>4. CASE e # reader[n].upto
  <2>1. reader' = [reader EXCEPT ![n] = [reader[n] EXCEPT !.last = e]]
    BY <1>4 DEF Dispatch, e
  <2>2. /\ OnlyReader(n) /\ reader'[n].pc = reader[n].pc /\ reader'[n].last = e
        /\ reader'[n].from = reader[n].from /\ reader'[n].upto = reader[n].upto
    <3> DEFINE d == [reader[n] EXCEPT !.last = e]
    <3>1. d \in ReaderRec
      BY <1>1, ReaderUpdates
    <3>2. OnlyReader(n) /\ reader'[n] = d
      BY <1>1, <2>1, <3>1, ReaderPuts
    <3>3. QED
      BY <1>1, <3>2 DEF ReaderRec
  <2>3. QED
    BY <1>1, <1>2, <1>4, <2>2 DEF e
<1>5. QED
  BY <1>3, <1>4

-----------------------------------------------------------------------------
(* Every step keeps the types *)

LEMMA SameTypes ==
  /\ ConnsTyped /\ UNCHANGED conn => ConnsTyped'
  /\ TabsTyped /\ UNCHANGED tab => TabsTyped'
  /\ ReadersTyped /\ UNCHANGED reader => ReadersTyped'
  /\ HubsTyped /\ UNCHANGED hub => HubsTyped'
  /\ NumbersTyped /\ UNCHANGED <<env, newest, gone, count>> => NumbersTyped'
BY DEF ConnsTyped, TabsTyped, ReadersTyped, HubsTyped, NumbersTyped

LEMMA OnlyTypes ==
  /\ \A t \in Tabs : OnlyConn(t) => ConnsTyped'
  /\ \A t \in Tabs : OnlyTab(t) => TabsTyped'
  /\ \A n \in Nodes : OnlyReader(n) => ReadersTyped'
  /\ \A n \in Nodes : OnlyHub(n) => HubsTyped'
BY DEF OnlyConn, OnlyTab, OnlyReader, OnlyHub, ConnsTyped, TabsTyped, ReadersTyped, HubsTyped

LEMMA CounterTypes ==
  ASSUME NumbersTyped, UNCHANGED <<env, newest, gone>>, count' \in Int
  PROVE  NumbersTyped'
BY DEF NumbersTyped

LEMMA HandlerTypes ==
  ASSUME SseIInv, UNCHANGED env, NEW t \in Tabs, Handler(t) \/ Drop(t)
  PROVE  SseTypeOK'
<1>1. /\ SseTypeOK /\ RegistryAgrees /\ SeatsOK
      /\ ConnsTyped /\ TabsTyped /\ ReadersTyped /\ HubsTyped /\ NumbersTyped
  BY SseTypeParts DEF SseIInv
<1>2. count \in Int
  BY <1>1 DEF NumbersTyped
<1>3. CASE Incr(t)
  BY <1>1, <1>3, IncrFields, OnlyTypes, SameTypes, CounterTypes, SseTypePartsPrimed
<1>4. CASE Remove(t)
  <2>1. PICK n \in Nodes : OnlyHub(n) /\ OnlyReader(n)
    BY <1>1, <1>4, RemoveNodes
  <2>2. OnlyConn(t) /\ UNCHANGED <<newest, gone, count, tab>>
    BY <1>1, <1>4, RemoveFields
  <2>3. QED
    BY <1>1, <2>1, <2>2, OnlyTypes, SameTypes, SseTypePartsPrimed
<1>5. CASE Decr(t)
  <2>1. count' \in Int
    BY <1>1, <1>2, <1>5, DecrFields
  <2>2. QED
    BY <1>1, <1>5, <2>1, DecrFields, OnlyTypes, SameTypes, CounterTypes, SseTypePartsPrimed
<1>6. CASE Del(t)
  BY <1>1, <1>6, DelFields, OnlyTypes, SameTypes, CounterTypes, SseTypePartsPrimed
<1>7. CASE ReplayRead(t)
  BY <1>1, <1>7, ReplayReadFields, OnlyTypes, SameTypes, SseTypePartsPrimed
<1>8. CASE ReplayWrite(t)
  BY <1>1, <1>8, ReplayWriteFields, OnlyTypes, SameTypes, SseTypePartsPrimed
<1>9. CASE Write(t)
  BY <1>1, <1>9, WriteFields, OnlyTypes, SameTypes, SseTypePartsPrimed
<1>10. CASE Finish(t) \/ Drop(t)
  BY <1>1, <1>10, LeaveFields, OnlyTypes, SameTypes, SseTypePartsPrimed
<1>11. QED
  BY <1>3, <1>4, <1>5, <1>6, <1>7, <1>8, <1>9, <1>10 DEF Handler

LEMMA ClientsAreTabs == SseTypeOK => \A n \in Nodes : hub[n].clients \subseteq Tabs
BY SseTypeParts DEF HubsTyped, HubRec

LEMMA NodeTypes ==
  ASSUME SseIInv, UNCHANGED env, NEW n \in Nodes,
         Reader(n) \/ Broadcast(n) \/ Evict(n) \/ Close(n) \/ Crash(n)
           \/ \E t \in Tabs : Connect(t, n) \/ EvictOne(n, t)
  PROVE  SseTypeOK'
<1>1. /\ SseTypeOK /\ RegistryAgrees /\ hub[n].clients \subseteq Tabs
      /\ ConnsTyped /\ TabsTyped /\ ReadersTyped /\ HubsTyped /\ NumbersTyped
  BY SseTypeParts, ClientsAreTabs DEF SseIInv
<1>2. CASE PollStart(n)
  <2>1. TabsTyped'
    BY <1>1, <1>2, PollStartFields DEF TabsTyped
  <2>2. QED
    BY <1>1, <1>2, <2>1, PollStartFields, OnlyTypes, SameTypes, SseTypePartsPrimed
<1>3. CASE PollReturns(n) \/ PollEnds(n)
  <2>1. OnlyReader(n) /\ UNCHANGED <<newest, gone, count, hub, conn>>
    BY <1>1, <1>3, PollReturnsFields, PollEndsFields
  <2>2. TabsTyped'
    BY <1>1, <1>3, PollReturnsFields, PollEndsFields DEF TabsTyped
  <2>3. QED
    BY <1>1, <2>1, <2>2, OnlyTypes, SameTypes, SseTypePartsPrimed
<1>4. CASE Dispatch(n)
  <2>1. /\ OnlyReader(n) /\ UNCHANGED <<newest, gone, count, hub>>
        /\ \E e \in Nat : SendAll(hub[n].clients, e)
    BY <1>1, <1>4, DispatchFields
  <2>2. ConnsTyped' /\ TabsTyped'
    BY <1>1, <2>1, SendAllFields DEF ConnsTyped, TabsTyped
  <2>3. QED
    BY <1>1, <2>1, <2>2, OnlyTypes, SameTypes, SseTypePartsPrimed
<1>5. CASE Broadcast(n)
  <2>1. UNCHANGED <<newest, gone, count, hub, reader>> /\ SendAll(hub[n].clients, 0)
    BY <1>5 DEF Broadcast
  <2>2. ConnsTyped' /\ TabsTyped'
    BY <1>1, <2>1, SendAllFields DEF ConnsTyped, TabsTyped
  <2>3. QED
    BY <1>1, <2>1, <2>2, SameTypes, SseTypePartsPrimed
<1>6. CASE Evict(n)
  <2>1. UNCHANGED <<newest, gone, count, conn, tab>>
    BY <1>6 DEF Evict
  <2>2. QED
    BY <1>1, <1>6, <2>1, EvictNodes, OnlyTypes, SameTypes, SseTypePartsPrimed
<1>7. CASE Close(n)
  <2>1. UNCHANGED <<newest, gone, count, tab>> /\ ConnsTyped'
    BY <1>1, <1>7, CloseFields DEF ConnsTyped
  <2>2. QED
    BY <1>1, <1>7, <2>1, EvictNodes, OnlyTypes, SameTypes, SseTypePartsPrimed
<1>8. CASE Crash(n)
  <2>1. UNCHANGED <<newest, gone, count, tab>> /\ ConnsTyped'
    BY <1>1, <1>8, CrashFields DEF ConnsTyped
  <2>2. QED
    BY <1>1, <1>8, <2>1, CrashNodes, OnlyTypes, SameTypes, SseTypePartsPrimed
<1>9. ASSUME NEW t \in Tabs, Connect(t, n)
      PROVE  SseTypeOK'
  <2>1. OnlyConn(t) /\ OnlyTab(t) /\ UNCHANGED <<newest, gone, count>>
    BY <1>1, <1>9, ConnectFields
  <2>2. OnlyHub(n) /\ OnlyReader(n)
    BY <1>1, <1>9, ConnectNodes
  <2>3. QED
    BY <1>1, <2>1, <2>2, OnlyTypes, SameTypes, SseTypePartsPrimed
<1>10. ASSUME NEW t \in Tabs, EvictOne(n, t)
       PROVE  SseTypeOK'
  <2>1. OnlyConn(t) /\ UNCHANGED <<newest, gone, count, tab>>
    BY <1>1, <1>10, EvictOneFields
  <2>2. OnlyHub(n) /\ OnlyReader(n)
    BY <1>1, <1>10, EvictNodes
  <2>3. QED
    BY <1>1, <2>1, <2>2, OnlyTypes, SameTypes, SseTypePartsPrimed
<1>11. QED
  BY <1>2, <1>3, <1>4, <1>5, <1>6, <1>7, <1>8, <1>9, <1>10 DEF Reader

LEMMA SseTypeStep ==
  ASSUME SseIInv, Step, UNCHANGED env
  PROVE  SseTypeOK'
<1>1. ConnsTyped /\ TabsTyped /\ ReadersTyped /\ HubsTyped /\ NumbersTyped
  BY SseTypeParts DEF SseIInv
<1>2. CASE Add
  <2>1. newest \in Nat /\ gone \in 0 .. newest /\ Sizes[env].events \in Nat /\ MaxLen \in Nat
    BY NewestTyped, ConstantsAssumption DEF SseIInv
  <2>2. newest' = newest + 1 /\ newest < Sizes[env].events /\ count' = count
    BY <1>2 DEF Add
  <2>3. gone' \in 0 .. newest'
    <3>1. gone' \in gone .. MaxOf(gone, newest' - MaxLen)
      BY <1>2 DEF Add
    <3>2. MaxOf(gone, newest' - MaxLen) \in 0 .. newest'
      BY <2>1, <2>2 DEF MaxOf
    <3>3. PICK k \in 0 .. newest' : gone' \in gone .. k
      BY <3>1, <3>2
    <3>4. QED
      BY <2>1, <2>2, <3>3
  <2>4. NumbersTyped'
    BY <1>1, <2>1, <2>2, <2>3 DEF NumbersTyped
  <2>5. UNCHANGED <<conn, tab, reader, hub>>
    BY <1>2 DEF Add
  <2>6. QED
    BY <1>1, <2>4, <2>5, SameTypes, SseTypePartsPrimed
<1>3. CASE CountExpires
  <2>1. UNCHANGED <<newest, gone, conn, tab, reader, hub>> /\ count' = 0
    BY <1>3 DEF CountExpires
  <2>2. QED
    BY <1>1, <2>1, SameTypes, CounterTypes, SseTypePartsPrimed
<1>4. CASE StreamExpires
  <2>1. UNCHANGED <<newest, count, conn, tab, reader, hub>> /\ gone' = newest
    BY <1>4 DEF StreamExpires
  <2>2. newest \in Nat
    BY NewestTyped DEF SseIInv
  <2>3. NumbersTyped'
    BY <1>1, <2>1, <2>2 DEF NumbersTyped
  <2>4. QED
    BY <1>1, <2>1, <2>3, SameTypes, SseTypePartsPrimed
<1>5. QED
  BY <1>2, <1>3, <1>4, HandlerTypes, NodeTypes DEF Step

-----------------------------------------------------------------------------
(* Seats: who is registered where, and what is counted *)

Here(t, n) == conn[t].node = n /\ conn[t].pc \in Attached
Seat(t) ==
  /\ conn[t].pc # "off" => conn[t].node \in Nodes
  /\ conn[t].pc \in {"off", "incr", "del"} => ~conn[t].reserved
  /\ conn[t].pc = "decr" => conn[t].reserved
NodeAgrees(n) ==
  /\ hub[n].clients = {t \in Tabs : Here(t, n)}
  /\ hub[n].ip = Cardinality(hub[n].clients)
  /\ hub[n].open => (hub[n].clients = {} <=> reader[n].pc = "none")

LEMMA SeatParts ==
  /\ RegistryAgrees <=> SseTypeOK /\ \A n \in Nodes : NodeAgrees(n)
  /\ SeatsOK <=> (\A t \in Tabs : Seat(t)) /\ (~slack => Streaming \subseteq Reserved)
  /\ CountAgrees <=>
       /\ ~slack => /\ count >= Cardinality(Reserved)
                    /\ Cardinality(Streaming) <= Sizes[env].limit
       /\ ~slack /\ ~leak => count = Cardinality(Reserved)
<1>1. RegistryAgrees <=> SseTypeOK /\ \A n \in Nodes : NodeAgrees(n)
  BY DEF RegistryAgrees, NodeAgrees, Here, Attached
<1>2. SeatsOK <=> (\A t \in Tabs : Seat(t)) /\ (~slack => Streaming \subseteq Reserved)
  BY DEF SeatsOK, Seat
<1>3. CountAgrees <=>
        /\ ~slack => /\ count >= Cardinality(Reserved)
                     /\ Cardinality(Streaming) <= Sizes[env].limit
        /\ ~slack /\ ~leak => count = Cardinality(Reserved)
  BY DEF CountAgrees, Reserved
<1>4. QED
  BY <1>1, <1>2, <1>3

LEMMA SeatPartsPrimed ==
  /\ RegistryAgrees' <=> SseTypeOK' /\ (\A n \in Nodes : NodeAgrees(n))'
  /\ SeatsOK' <=> (\A t \in Tabs : Seat(t))' /\ (~slack => Streaming \subseteq Reserved)'
  /\ CountAgrees' <=>
       ( /\ ~slack => /\ count >= Cardinality(Reserved)
                      /\ Cardinality(Streaming) <= Sizes[env].limit
         /\ ~slack /\ ~leak => count = Cardinality(Reserved) )'
BY SeatParts, PTL

\* The handler of one tab changes its own seat only.
LEMMA OneSeat ==
  ASSUME NEW t \in Tabs, OnlyConn(t)
  PROVE  /\ Reserved' = IF conn'[t].reserved THEN Reserved \cup {t} ELSE Reserved \ {t}
         /\ Streaming' = IF conn'[t].pc \in {"replay", "live"}
                         THEN Streaming \cup {t} ELSE Streaming \ {t}
         /\ \A u \in Tabs : u # t => (Seat(u)' <=> Seat(u))
         /\ \A u \in Tabs, n \in Nodes : u # t => (Here(u, n)' <=> Here(u, n))
BY DEF OnlyConn, Reserved, Streaming, Seat, Here

LEMMA SameSeats ==
  ASSUME \A t \in Tabs : Same(conn[t], conn'[t])
  PROVE  /\ Reserved' = Reserved /\ Streaming' = Streaming
         /\ \A t \in Tabs : Seat(t)' <=> Seat(t)
         /\ \A t \in Tabs, n \in Nodes : Here(t, n)' <=> Here(t, n)
BY DEF Same, Reserved, Streaming, Seat, Here

LEMMA FiniteSeats ==
  /\ IsFiniteSet(Reserved) /\ Cardinality(Reserved) \in Nat
  /\ IsFiniteSet(Streaming) /\ Cardinality(Streaming) \in Nat
  /\ Streaming \subseteq Reserved => Cardinality(Streaming) <= Cardinality(Reserved)
<1>1. Reserved \subseteq Tabs /\ Streaming \subseteq Tabs
  BY DEF Reserved, Streaming
<1>2. IsFiniteSet(Reserved) /\ IsFiniteSet(Streaming)
  BY <1>1, ConstantsAssumption, FS_Subset
<1>3. QED
  BY <1>2, FS_CardinalityType, FS_Subset

\* Who leaves lowers neither limit.
LEMMA FewerStreams ==
  ASSUME SeatsOK, CountAgrees, NumbersTyped, UNCHANGED <<env, count, slack, leak>>,
         Reserved' = Reserved, Streaming' \subseteq Streaming
  PROVE  CountAgrees' /\ (~slack => Streaming \subseteq Reserved)'
<1>1. /\ Sizes[env].limit \in Nat
      /\ Cardinality(Streaming') \in Nat /\ Cardinality(Streaming) \in Nat
      /\ Cardinality(Streaming') <= Cardinality(Streaming)
  <2>1. IsFiniteSet(Streaming')
    BY FiniteSeats, FS_Subset
  <2>2. QED
    BY <2>1, FiniteSeats, FS_Subset, FS_CardinalityType, ConstantsAssumption DEF NumbersTyped
<1>2. CountAgrees'
  BY <1>1, SeatParts, SeatPartsPrimed
<1>3. QED
  BY <1>2, SeatParts

LEMMA HandlerSeats ==
  ASSUME SseIInv, UNCHANGED env, NEW t \in Tabs, Handler(t) \/ Drop(t)
  PROVE  SeatsOK' /\ CountAgrees'
<1>1. /\ SseTypeOK /\ RegistryAgrees /\ SeatsOK /\ CountAgrees /\ NumbersTyped
      /\ count \in Int /\ Sizes[env].limit \in Nat
      /\ \A u \in Tabs : Seat(u)
      /\ Cardinality(Reserved) \in Nat /\ IsFiniteSet(Reserved)
      /\ IsFiniteSet(Streaming) /\ Cardinality(Streaming) \in Nat
  BY SseTypeParts, SeatParts, FiniteSeats, ConstantsAssumption DEF SseIInv, NumbersTyped
<1>2. CASE Incr(t)
  <2>1. /\ OnlyConn(t) /\ Kept(t) /\ conn[t].pc = "incr"
        /\ \/ /\ conn'[t].pc = "remove" /\ conn'[t].reserved
              /\ count' = count + 1 /\ UNCHANGED <<slack, leak>>
           \/ /\ Opened(t, TRUE)
              /\ count' = count + 1 /\ count' <= Sizes[env].limit /\ UNCHANGED <<slack, leak>>
           \/ Opened(t, FALSE) /\ slack'
    BY <1>1, <1>2, IncrFields
  <2>2. conn[t].node \in Nodes /\ t \notin Reserved /\ t \notin Streaming
    BY <1>1, <2>1 DEF Seat, Reserved, Streaming
  <2>3. Cardinality(Reserved \cup {t}) = Cardinality(Reserved) + 1
    BY <1>1, <2>2, FS_AddElement
  <2>4. CASE /\ conn'[t].pc = "remove" /\ conn'[t].reserved
             /\ count' = count + 1 /\ UNCHANGED <<slack, leak>>
    <3>1. Reserved' = Reserved \cup {t} /\ Streaming' = Streaming
      BY <2>1, <2>2, <2>4, OneSeat
    <3>2. CountAgrees'
      BY <1>1, <2>3, <2>4, <3>1, SeatParts, SeatPartsPrimed
    <3>3. Seat(t)'
      BY <2>1, <2>2, <2>4 DEF Seat, Kept
    <3>4. (~slack => Streaming \subseteq Reserved)'
      BY <1>1, <2>4, <3>1, SeatParts
    <3>5. QED
      BY <1>1, <2>1, <3>2, <3>3, <3>4, OneSeat, SeatPartsPrimed
  <2>5. CASE /\ Opened(t, TRUE)
             /\ count' = count + 1 /\ count' <= Sizes[env].limit /\ UNCHANGED <<slack, leak>>
    <3>1. Reserved' = Reserved \cup {t} /\ Streaming' = Streaming \cup {t}
      BY <2>1, <2>5, OneSeat DEF Opened
    <3>2. (~slack => Streaming \subseteq Reserved)'
      BY <1>1, <2>5, <3>1, SeatParts
    <3>3. Cardinality(Streaming') \in Nat /\ Cardinality(Reserved') = Cardinality(Reserved) + 1
      <4>1. IsFiniteSet(Streaming')
        BY <1>1, <3>1, FS_AddElement
      <4>2. QED
        BY <2>3, <3>1, <4>1, FS_CardinalityType
    <3>4. ~slack' => Cardinality(Streaming') <= Cardinality(Reserved')
      <4>1. IsFiniteSet(Reserved')
        BY <1>1, <3>1, FS_AddElement
      <4>2. QED
        BY <3>2, <4>1, FS_Subset
    <3>5. CountAgrees'
      BY <1>1, <2>5, <3>3, <3>4, SeatParts, SeatPartsPrimed
    <3>6. Seat(t)'
      BY <2>1, <2>2, <2>5 DEF Seat, Kept, Opened
    <3>7. QED
      BY <1>1, <2>1, <3>2, <3>5, <3>6, OneSeat, SeatPartsPrimed
  <2>6. CASE Opened(t, FALSE) /\ slack'
    <3>1. Seat(t)'
      BY <2>1, <2>2, <2>6 DEF Seat, Kept, Opened
    <3>2. QED
      BY <1>1, <2>1, <2>6, <3>1, OneSeat, SeatPartsPrimed
  <2>7. QED
    BY <2>1, <2>4, <2>5, <2>6
<1>3. CASE Remove(t)
  <2>1. /\ OnlyConn(t) /\ conn[t].pc = "remove" /\ UNCHANGED <<count, slack, leak>>
        /\ conn'[t].reserved = conn[t].reserved
        /\ conn'[t].pc \in {"off", "decr"} /\ (conn'[t].pc = "decr" <=> conn[t].reserved)
        /\ conn'[t].pc = "decr" => conn'[t].node = conn[t].node
    BY <1>1, <1>3, RemoveFields
  <2>2. Reserved' = Reserved /\ Streaming' = Streaming
    BY <2>1, OneSeat DEF Reserved, Streaming
  <2>3. Seat(t)'
    BY <1>1, <2>1 DEF Seat
  <2>4. QED
    BY <1>1, <2>1, <2>2, <2>3, FewerStreams, OneSeat, SeatPartsPrimed
<1>4. CASE Decr(t)
  <2>1. /\ OnlyConn(t) /\ conn[t].pc = "decr" /\ ~conn'[t].reserved /\ UNCHANGED slack
        /\ conn'[t].pc \in {"off", "del"}
        /\ conn'[t].pc = "del" => conn'[t].node = conn[t].node
        /\ count' \in {count, count - 1} /\ (leak => leak') /\ (count' = count => leak')
    BY <1>1, <1>4, DecrFields
  <2>2. t \in Reserved /\ t \notin Streaming
    BY <1>1, <2>1 DEF Seat, Reserved, Streaming
  <2>3. Reserved' = Reserved \ {t} /\ Streaming' = Streaming
    BY <2>1, <2>2, OneSeat
  <2>4. Cardinality(Reserved') = Cardinality(Reserved) - 1
    BY <1>1, <2>2, <2>3, FS_RemoveElement
  <2>5. CountAgrees'
    BY <1>1, <2>1, <2>3, <2>4, SeatParts, SeatPartsPrimed
  <2>6. Seat(t)'
    BY <1>1, <2>1 DEF Seat
  <2>7. (~slack => Streaming \subseteq Reserved)'
    BY <1>1, <2>1, <2>2, <2>3, SeatParts
  <2>8. QED
    BY <1>1, <2>1, <2>5, <2>6, <2>7, OneSeat, SeatPartsPrimed
<1>5. CASE Del(t)
  <2>1. /\ OnlyConn(t) /\ conn[t].pc = "del" /\ conn'[t].pc = "off" /\ ~conn'[t].reserved
        /\ count' = 0 /\ (slack' <=> (slack \/ count > 0)) /\ UNCHANGED leak
    BY <1>1, <1>5, DelFields
  <2>2. t \notin Reserved /\ t \notin Streaming
    BY <1>1, <2>1 DEF Seat, Reserved, Streaming
  <2>3. Reserved' = Reserved /\ Streaming' = Streaming
    BY <2>1, <2>2, OneSeat
  <2>4. ~slack' => Cardinality(Reserved') = 0
    BY <1>1, <2>1, <2>3, SeatParts
  <2>5. CountAgrees'
    BY <1>1, <2>1, <2>3, <2>4, SeatParts, SeatPartsPrimed
  <2>6. Seat(t)'
    BY <1>1, <2>1 DEF Seat
  <2>7. (~slack => Streaming \subseteq Reserved)'
    BY <1>1, <2>1, <2>3, SeatParts
  <2>8. QED
    BY <1>1, <2>1, <2>5, <2>6, <2>7, OneSeat, SeatPartsPrimed
<1>6. CASE ReplayRead(t) \/ ReplayWrite(t) \/ Write(t) \/ Finish(t) \/ Drop(t)
  <2>1. /\ OnlyConn(t) /\ UNCHANGED <<count, slack, leak>>
        /\ conn'[t].reserved = conn[t].reserved /\ conn'[t].node = conn[t].node
        /\ conn[t].pc \in {"replay", "live"} /\ conn'[t].pc \in {"replay", "live", "remove"}
    <3>1. CASE ReplayRead(t)
      BY <1>1, <3>1, ReplayReadFields DEF Kept
    <3>2. CASE ReplayWrite(t)
      BY <1>1, <3>2, ReplayWriteFields
    <3>3. CASE Write(t)
      BY <1>1, <3>3, WriteFields DEF Same
    <3>4. CASE Finish(t) \/ Drop(t)
      BY <1>1, <3>4, LeaveFields DEF Kept
    <3>5. QED
      BY <1>6, <3>1, <3>2, <3>3, <3>4
  <2>2. Reserved' = Reserved /\ Streaming' \subseteq Streaming
    BY <2>1, OneSeat DEF Reserved, Streaming
  <2>3. Seat(t)'
    BY <1>1, <2>1 DEF Seat
  <2>4. QED
    BY <1>1, <2>1, <2>2, <2>3, FewerStreams, OneSeat, SeatPartsPrimed
<1>7. QED
  BY <1>2, <1>3, <1>4, <1>5, <1>6 DEF Handler

\* A node keeps its agreement when nobody comes or goes there.
LEMMA NodeKept ==
  ASSUME NEW n \in Nodes, NodeAgrees(n),
         hub'[n].clients = hub[n].clients, hub'[n].ip = hub[n].ip,
         hub'[n].open => hub[n].open /\ (reader'[n].pc = "none" <=> reader[n].pc = "none"),
         \A t \in Tabs : Here(t, n)' <=> Here(t, n)
  PROVE  NodeAgrees(n)'
BY DEF NodeAgrees

LEMMA HandlerRegistry ==
  ASSUME SseIInv, SseTypeOK', NEW t \in Tabs, Handler(t) \/ Drop(t)
  PROVE  RegistryAgrees'
<1>1. /\ SseTypeOK /\ RegistryAgrees /\ SeatsOK /\ Seat(t)
      /\ \A n \in Nodes : NodeAgrees(n)
  BY SeatParts DEF SseIInv
<1>2. CASE Remove(t)
  <2>1. PICK n \in Nodes :
        /\ n = conn[t].node /\ t \in hub[n].clients
        /\ OnlyHub(n) /\ OnlyReader(n) /\ hub'[n].open = hub[n].open
        /\ hub'[n].clients = hub[n].clients \ {t} /\ hub'[n].ip = hub[n].ip - 1
        /\ \/ reader'[n] = reader[n] /\ hub'[n].clients # {}
           \/ reader'[n] = NoReader /\ hub'[n].clients = {}
    BY <1>1, <1>2, RemoveNodes
  <2>2. OnlyConn(t) /\ Ended(t)
    BY <1>1, <1>2, RemoveFields
  <2>3. \A m \in Nodes : ~Here(t, m)'
    BY <2>2 DEF Here, Ended
  <2>4. ASSUME NEW m \in Nodes, m # n
        PROVE  NodeAgrees(m)'
    <3>1. hub'[m] = hub[m] /\ reader'[m] = reader[m]
      BY <2>1, <2>4 DEF OnlyHub, OnlyReader
    <3>2. \A u \in Tabs : Here(u, m)' <=> Here(u, m)
      BY <2>1, <2>2, <2>3, <2>4, OneSeat DEF Here
    <3>3. QED
      BY <1>1, <3>1, <3>2, NodeKept
  <2>5. NodeAgrees(n)'
    <3>1. hub'[n].clients = {u \in Tabs : Here(u, n)'}
      BY <1>1, <2>1, <2>2, <2>3, OneSeat DEF NodeAgrees
    <3>2. hub'[n].ip = Cardinality(hub'[n].clients)
      BY <1>1, <2>1, FiniteClients DEF NodeAgrees
    <3>3. hub'[n].open => (hub'[n].clients = {} <=> reader'[n].pc = "none")
      <4>1. NoReader.pc = "none"
        BY DEF NoReader
      <4>2. hub[n].clients # {}
        BY <2>1
      <4>3. QED
        BY <1>1, <2>1, <4>1, <4>2 DEF NodeAgrees
    <3>4. QED
      BY <3>1, <3>2, <3>3 DEF NodeAgrees
  <2>6. QED
    BY <2>4, <2>5, SeatPartsPrimed
<1>3. CASE ~Remove(t)
  <2>1. /\ OnlyConn(t) /\ UNCHANGED <<hub, reader>>
        /\ \/ conn'[t].node = conn[t].node /\ {conn[t].pc, conn'[t].pc} \subseteq Attached
           \/ conn[t].pc \notin Attached /\ conn'[t].pc \notin Attached
    <3>1. CASE Incr(t)
      BY <1>1, <3>1, IncrFields DEF Kept, Opened, Attached
    <3>2. CASE Decr(t)
      BY <1>1, <3>2, DecrFields DEF Attached
    <3>3. CASE Del(t)
      BY <1>1, <3>3, DelFields DEF Attached
    <3>4. CASE ReplayRead(t)
      BY <1>1, <3>4, ReplayReadFields DEF Kept, Attached
    <3>5. CASE ReplayWrite(t)
      BY <1>1, <3>5, ReplayWriteFields DEF Attached
    <3>6. CASE Write(t)
      BY <1>1, <3>6, WriteFields DEF Same, Attached
    <3>7. CASE Finish(t) \/ Drop(t)
      BY <1>1, <3>7, LeaveFields DEF Kept, Attached
    <3>8. QED
      BY <1>3, <3>1, <3>2, <3>3, <3>4, <3>5, <3>6, <3>7 DEF Handler
  <2>2. \A m \in Nodes : Here(t, m)' <=> Here(t, m)
    BY <2>1 DEF Here
  <2>3. \A m \in Nodes : NodeAgrees(m)'
    BY <1>1, <2>1, <2>2, OneSeat, NodeKept
  <2>4. QED
    BY <2>3, SeatPartsPrimed
<1>4. QED
  BY <1>2, <1>3

\* Frames, evictions and the closing of a hub leave every connection in its seat.
LEMMA FramesKeepSeats ==
  ASSUME SseIInv, NEW n \in Nodes,
         \/ Reader(n) \/ Broadcast(n) \/ Evict(n) \/ Close(n)
         \/ \E t \in Tabs : EvictOne(n, t)
  PROVE  /\ \A t \in Tabs : Same(conn[t], conn'[t])
         /\ UNCHANGED <<count, slack, leak>>
         /\ \A m \in Nodes : hub'[m].clients = hub[m].clients /\ hub'[m].ip = hub[m].ip
         /\ \A m \in Nodes : hub'[m].open =>
              hub[m].open /\ (reader'[m].pc = "none" <=> reader[m].pc = "none")
<1>1. SseTypeOK /\ hub[n].clients \subseteq Tabs
  BY ClientsAreTabs DEF SseIInv
<1>2. CASE PollStart(n) \/ PollReturns(n) \/ PollEnds(n)
  <2>1. /\ UNCHANGED <<count, slack, leak, conn, hub>> /\ OnlyReader(n)
        /\ reader[n].pc # "none" /\ reader'[n].pc # "none"
    BY <1>1, <1>2, PollStartFields, PollReturnsFields, PollEndsFields
  <2>2. QED
    BY <2>1 DEF OnlyReader, Same
<1>3. CASE Dispatch(n)
  <2>1. /\ UNCHANGED <<count, slack, leak, hub>> /\ OnlyReader(n)
        /\ reader[n].pc # "none" /\ reader'[n].pc # "none"
        /\ \E e \in Nat : SendAll(hub[n].clients, e)
    BY <1>1, <1>3, DispatchFields
  <2>2. \A t \in Tabs : Same(conn[t], conn'[t])
    BY <1>1, <2>1, SendAllFields
  <2>3. QED
    BY <2>1, <2>2 DEF OnlyReader
<1>4. CASE Broadcast(n)
  <2>1. UNCHANGED <<count, slack, leak, hub, reader>> /\ SendAll(hub[n].clients, 0)
    BY <1>4 DEF Broadcast
  <2>2. \A t \in Tabs : Same(conn[t], conn'[t])
    BY <1>1, <2>1, SendAllFields
  <2>3. QED
    BY <2>1, <2>2
<1>5. CASE Evict(n)
  <2>1. UNCHANGED <<count, slack, leak, conn>>
    BY <1>5 DEF Evict
  <2>2. QED
    BY <1>1, <1>5, <2>1, EvictNodes DEF OnlyHub, OnlyReader, Same
<1>6. CASE Close(n)
  <2>1. UNCHANGED <<count, slack, leak>> /\ \A t \in Tabs : Same(conn[t], conn'[t])
    BY <1>1, <1>6, CloseFields
  <2>2. ~hub'[n].open
    <3>1. hub[n] \in HubRec /\ hub' = [hub EXCEPT ![n] = [hub[n] EXCEPT !.open = FALSE]]
      BY <1>1, <1>6, SseTypeParts DEF Close, HubsTyped
    <3>2. QED
      BY <1>1, <3>1, SseTypeParts DEF HubsTyped, HubRec
  <2>3. QED
    BY <1>1, <1>6, <2>1, <2>2, EvictNodes DEF OnlyHub, OnlyReader
<1>7. ASSUME NEW t \in Tabs, EvictOne(n, t)
      PROVE  /\ \A u \in Tabs : Same(conn[u], conn'[u])
             /\ UNCHANGED <<count, slack, leak, reader>>
  BY <1>1, <1>7, EvictOneFields DEF OnlyConn, Same
<1>8. CASE \E t \in Tabs : EvictOne(n, t)
  BY <1>1, <1>7, <1>8, EvictNodes DEF OnlyHub
<1>9. QED
  BY <1>2, <1>3, <1>4, <1>5, <1>6, <1>8 DEF Reader

LEMMA NodeSeats ==
  ASSUME SseIInv, SseTypeOK', UNCHANGED env, NEW n \in Nodes,
         Reader(n) \/ Broadcast(n) \/ Evict(n) \/ Close(n) \/ Crash(n)
           \/ \E t \in Tabs : Connect(t, n) \/ EvictOne(n, t)
  PROVE  RegistryAgrees' /\ SeatsOK' /\ CountAgrees'
<1>1. /\ SseTypeOK /\ RegistryAgrees /\ SeatsOK /\ CountAgrees /\ NumbersTyped
      /\ \A u \in Tabs : Seat(u)
      /\ \A m \in Nodes : NodeAgrees(m)
  BY SseTypeParts, SeatParts DEF SseIInv
<1>2. CASE \/ Reader(n) \/ Broadcast(n) \/ Evict(n) \/ Close(n)
           \/ \E t \in Tabs : EvictOne(n, t)
  <2>1. /\ \A t \in Tabs : Same(conn[t], conn'[t])
        /\ UNCHANGED <<count, slack, leak>>
        /\ \A m \in Nodes : hub'[m].clients = hub[m].clients /\ hub'[m].ip = hub[m].ip
        /\ \A m \in Nodes : hub'[m].open =>
             hub[m].open /\ (reader'[m].pc = "none" <=> reader[m].pc = "none")
    BY <1>2, FramesKeepSeats
  <2>2. Reserved' = Reserved /\ Streaming' = Streaming /\ (\A t \in Tabs : Seat(t))'
    BY <1>1, <2>1, SameSeats
  <2>3. ASSUME NEW m \in Nodes
        PROVE  NodeAgrees(m)'
    BY <1>1, <2>1, SameSeats, NodeKept
  <2>4. CountAgrees' /\ (~slack => Streaming \subseteq Reserved)'
    BY <1>1, <2>1, <2>2, FewerStreams
  <2>5. QED
    BY <2>2, <2>3, <2>4, SeatPartsPrimed
<1>3. CASE Crash(n)
  <2>1. /\ \A t \in Tabs : conn'[t] = IF conn[t].node = n THEN NoConn ELSE conn[t]
        /\ UNCHANGED <<count, slack>>
        /\ (leak' <=> (leak \/ \E t \in Tabs : conn[t].node = n /\ conn[t].reserved))
    BY <1>1, <1>3, CrashFields
  <2>2. /\ OnlyHub(n) /\ OnlyReader(n)
        /\ hub'[n].clients = {} /\ hub'[n].ip = 0 /\ reader'[n].pc = "none"
    BY <1>1, <1>3, CrashNodes DEF NewHub, NoReader
  <2>3. ASSUME NEW m \in Nodes, m # n
        PROVE  NodeAgrees(m)'
    <3>1. hub'[m] = hub[m] /\ reader'[m] = reader[m]
      BY <2>2, <2>3 DEF OnlyHub, OnlyReader
    <3>2. \A u \in Tabs : Here(u, m)' <=> Here(u, m)
      BY <2>1, <2>3, NoConnFields DEF Here, Attached
    <3>3. QED
      BY <1>1, <3>1, <3>2, NodeKept
  <2>4. NodeAgrees(n)'
    <3>1. \A u \in Tabs : ~Here(u, n)'
      BY <2>1, NoConnFields DEF Here, Attached
    <3>2. QED
      BY <2>2, <3>1, FS_EmptySet DEF NodeAgrees
  <2>5. ASSUME NEW u \in Tabs
        PROVE  Seat(u)'
    BY <1>1, <2>1, NoConnFields DEF Seat
  <2>6. Reserved' \subseteq Reserved /\ Streaming' \subseteq Streaming
    BY <2>1, NoConnFields DEF Reserved, Streaming
  <2>7. Streaming \subseteq Reserved => Streaming' \subseteq Reserved'
    BY <2>1, NoConnFields DEF Reserved, Streaming
  <2>8. ~leak' => ~leak /\ Reserved' = Reserved
    BY <2>1, NoConnFields DEF Reserved
  <2>9. /\ count \in Int /\ Sizes[env].limit \in Nat
        /\ Cardinality(Reserved) \in Nat /\ Cardinality(Streaming) \in Nat
        /\ Cardinality(Reserved') \in Nat /\ Cardinality(Streaming') \in Nat
        /\ Cardinality(Reserved') <= Cardinality(Reserved)
        /\ Cardinality(Streaming') <= Cardinality(Streaming)
    <3>1. IsFiniteSet(Reserved') /\ IsFiniteSet(Streaming')
      BY <2>6, FiniteSeats, FS_Subset
    <3>2. QED
      BY <1>1, <2>6, <3>1, FiniteSeats, FS_Subset, FS_CardinalityType, ConstantsAssumption
      DEF NumbersTyped
  <2>10. CountAgrees'
    BY <1>1, <2>1, <2>8, <2>9, SeatParts, SeatPartsPrimed
  <2>11. SeatsOK'
    BY <1>1, <2>1, <2>5, <2>7, SeatParts, SeatPartsPrimed
  <2>12. QED
    BY <2>3, <2>4, <2>10, <2>11, SeatPartsPrimed
<1>4. ASSUME NEW t \in Tabs, Connect(t, n)
      PROVE  RegistryAgrees' /\ SeatsOK' /\ CountAgrees'
  <2>1. /\ OnlyConn(t) /\ conn[t].pc = "off" /\ conn'[t].pc = "incr" /\ conn'[t].node = n
        /\ ~conn'[t].reserved /\ UNCHANGED <<count, slack, leak>>
    BY <1>1, <1>4, ConnectFields
  <2>2. /\ OnlyHub(n) /\ OnlyReader(n) /\ hub[n].open /\ hub'[n].open
        /\ hub'[n].clients = hub[n].clients \cup {t} /\ hub'[n].ip = hub[n].ip + 1
        /\ reader'[n].pc # "none"
    BY <1>1, <1>4, ConnectNodes
  <2>3. t \notin Reserved /\ t \notin Streaming /\ t \notin hub[n].clients
    BY <1>1, <2>1 DEF Seat, Reserved, Streaming, NodeAgrees, Here, Attached
  <2>4. Reserved' = Reserved /\ Streaming' = Streaming
    <3>1. /\ Reserved' = IF conn'[t].reserved THEN Reserved \cup {t} ELSE Reserved \ {t}
          /\ Streaming' = IF conn'[t].pc \in {"replay", "live"}
                          THEN Streaming \cup {t} ELSE Streaming \ {t}
      BY <2>1, OneSeat
    <3>2. QED
      BY <2>1, <2>3, <3>1
  <2>5. Seat(t)' /\ Here(t, n)' /\ \A m \in Nodes : m # n => ~Here(t, m)'
    BY <2>1 DEF Seat, Here, Attached
  <2>6. ASSUME NEW m \in Nodes, m # n
        PROVE  NodeAgrees(m)'
    <3>1. hub'[m] = hub[m] /\ reader'[m] = reader[m]
      BY <2>2, <2>6 DEF OnlyHub, OnlyReader
    <3>2. ~Here(t, m)
      BY <2>1 DEF Here, Attached
    <3>3. \A u \in Tabs : Here(u, m)' <=> Here(u, m)
      BY <2>1, <2>5, <2>6, <3>2, OneSeat
    <3>4. QED
      BY <1>1, <3>1, <3>3, NodeKept
  <2>7. NodeAgrees(n)'
    <3>1. hub'[n].clients = {u \in Tabs : Here(u, n)'}
      BY <1>1, <2>1, <2>2, <2>5, OneSeat DEF NodeAgrees
    <3>2. hub'[n].ip = Cardinality(hub'[n].clients)
      BY <1>1, <2>2, <2>3, FiniteClients DEF NodeAgrees
    <3>3. QED
      BY <2>2, <3>1, <3>2 DEF NodeAgrees
  <2>8. CountAgrees' /\ (~slack => Streaming \subseteq Reserved)'
    BY <1>1, <2>1, <2>4, FewerStreams
  <2>9. QED
    BY <1>1, <2>1, <2>5, <2>6, <2>7, <2>8, OneSeat, SeatPartsPrimed
<1>5. QED
  BY <1>2, <1>3, <1>4

-----------------------------------------------------------------------------
(* Readers *)

LEMMA ReaderKept ==
  ASSUME NEW r \in ReaderRec, ReaderOK(r), newest \in Nat, newest' \in Nat, newest <= newest'
  PROVE  ReaderOK(r)'
BY DEF ReaderOK, ReaderRec

LEMMA NoReaderOK == newest \in Nat => ReaderOK(NoReader)
BY DEF ReaderOK, NoReader

LEMMA ReadersStep ==
  ASSUME SseIInv, SseTypeOK', Step, UNCHANGED env
  PROVE  (\A n \in Nodes : ReaderOK(reader[n]))'
<1>1. /\ SseTypeOK /\ RegistryAgrees /\ SeatsOK /\ newest \in Nat /\ newest' \in Nat
      /\ \A n \in Nodes : reader[n] \in ReaderRec /\ ReaderOK(reader[n])
      /\ \A n \in Nodes : reader'[n] \in ReaderRec
  <2>1. newest' \in Nat
    BY NewestTypedPrimed
  <2>2. ReadersTyped /\ ReadersTyped'
    BY SseTypeParts, SseTypePartsPrimed DEF SseIInv
  <2>3. QED
    BY <2>1, <2>2, NewestTyped DEF SseIInv, ReadersTyped
<1>2. \A n \in Nodes : newest' = newest => ReaderOK(NoReader)'
  BY <1>1 DEF ReaderOK, NoReader
<1>3. CASE newest <= newest' /\ UNCHANGED reader
  BY <1>1, <1>3, ReaderKept
<1>4. ASSUME NEW n \in Nodes, OnlyReader(n), newest' = newest, ReaderOK(reader[n])'
      PROVE  (\A m \in Nodes : ReaderOK(reader[m]))'
  <2>1. ASSUME NEW m \in Nodes, m # n
        PROVE  ReaderOK(reader[m])'
    BY <1>1, <1>4, <2>1 DEF OnlyReader, ReaderOK
  <2>2. QED
    BY <1>4, <2>1
<1>5. CASE Add
  BY <1>1, <1>3, <1>5 DEF Add
<1>6. CASE CountExpires \/ StreamExpires
  BY <1>1, <1>3, <1>6 DEF CountExpires, StreamExpires
<1>7. ASSUME NEW t \in Tabs, Handler(t) \/ Drop(t)
      PROVE  (\A m \in Nodes : ReaderOK(reader[m]))'
  <2>1. CASE Remove(t)
    <3>1. PICK n \in Nodes : OnlyReader(n) /\ (reader'[n] = reader[n] \/ reader'[n] = NoReader)
      BY <1>1, <2>1, RemoveNodes
    <3>2. newest' = newest
      BY <1>1, <2>1, RemoveFields
    <3>3. ReaderOK(reader[n])'
      BY <1>1, <1>2, <3>1, <3>2 DEF ReaderOK
    <3>4. QED
      BY <1>4, <3>1, <3>2, <3>3
  <2>2. CASE ~Remove(t)
    <3>1. UNCHANGED <<newest, reader>>
      BY <1>1, <1>7, <2>2, IncrFields, DecrFields, DelFields, ReplayReadFields,
         ReplayWriteFields, WriteFields, LeaveFields DEF Handler
    <3>2. QED
      BY <1>1, <1>3, <3>1
  <2>3. QED
    BY <2>1, <2>2
<1>8. ASSUME NEW n \in Nodes, Reader(n)
      PROVE  (\A m \in Nodes : ReaderOK(reader[m]))'
  <2>1. CASE PollStart(n)
    <3>1. /\ OnlyReader(n) /\ newest' = newest /\ reader[n].pc = "idle" /\ reader'[n].pc = "poll"
          /\ reader'[n].last = reader[n].last /\ reader'[n].from = newest
      BY <1>1, <2>1, PollStartFields
    <3>2. ReaderOK(reader[n])'
      BY <1>1, <3>1 DEF ReaderOK
    <3>3. QED
      BY <1>4, <3>1, <3>2
  <2>2. CASE PollReturns(n)
    <3>1. /\ OnlyReader(n) /\ newest' = newest
          /\ reader[n].pc = "poll" /\ reader'[n].pc = "dispatch"
          /\ reader[n].from <= reader'[n].last /\ reader'[n].from = reader[n].from
          /\ reader'[n].last < reader'[n].upto /\ reader'[n].upto <= newest
      BY <1>1, <2>2, PollReturnsFields
    <3>2. ReaderOK(reader[n])'
      BY <1>1, <3>1 DEF ReaderOK, ReaderRec
    <3>3. QED
      BY <1>4, <3>1, <3>2
  <2>3. CASE PollEnds(n)
    <3>1. /\ OnlyReader(n) /\ newest' = newest
          /\ reader[n].pc = "poll" /\ reader[n].last = 0 /\ reader'[n].pc = "idle"
          /\ reader'[n].last = reader[n].last /\ reader'[n].from = reader[n].from
      BY <1>1, <2>3, PollEndsFields
    <3>2. ReaderOK(reader[n])'
      BY <1>1, <3>1 DEF ReaderOK
    <3>3. QED
      BY <1>4, <3>1, <3>2
  <2>4. CASE Dispatch(n)
    <3>1. PICK e \in Nat :
            /\ e = reader[n].last + 1 /\ OnlyReader(n) /\ newest' = newest
            /\ reader[n].pc = "dispatch" /\ reader'[n].last = e
            /\ \/ e = reader[n].upto /\ reader'[n].pc = "poll" /\ reader'[n].from = e
               \/ /\ e # reader[n].upto /\ reader'[n].pc = "dispatch"
                  /\ reader'[n].from = reader[n].from /\ reader'[n].upto = reader[n].upto
      BY <1>1, <2>4, DispatchFields
    <3>2. /\ reader[n].last \in Nat /\ reader[n].upto \in Nat /\ reader[n].from \in Nat
          /\ reader[n].from <= newest
          /\ reader[n].from <= reader[n].last /\ reader[n].last < reader[n].upto
          /\ reader[n].upto <= newest
      BY <1>1, <3>1 DEF ReaderOK, ReaderRec
    <3>3. ReaderOK(reader[n])'
      BY <1>1, <3>1, <3>2 DEF ReaderOK
    <3>4. QED
      BY <1>4, <3>1, <3>3
  <2>5. QED
    BY <1>8, <2>1, <2>2, <2>3, <2>4 DEF Reader
<1>9. ASSUME NEW n \in Nodes,
             Broadcast(n) \/ Evict(n) \/ Close(n) \/ \E t \in Tabs : EvictOne(n, t)
      PROVE  (\A m \in Nodes : ReaderOK(reader[m]))'
  <2>1. CASE Broadcast(n)
    BY <1>1, <1>3, <2>1 DEF Broadcast
  <2>2. CASE Evict(n) \/ Close(n) \/ \E t \in Tabs : EvictOne(n, t)
    <3>1. OnlyReader(n) /\ (reader'[n] = reader[n] \/ reader'[n] = NoReader)
      BY <1>1, <2>2, EvictNodes
    <3>2. newest' = newest
      BY <2>2 DEF Evict, Close, EvictOne
    <3>3. ReaderOK(reader[n])'
      BY <1>1, <1>2, <3>1, <3>2 DEF ReaderOK
    <3>4. QED
      BY <1>4, <3>1, <3>2, <3>3
  <2>3. QED
    BY <1>9, <2>1, <2>2
<1>10. ASSUME NEW n \in Nodes, Crash(n)
       PROVE  (\A m \in Nodes : ReaderOK(reader[m]))'
  <2>1. OnlyReader(n) /\ reader'[n] = NoReader /\ newest' = newest
    BY <1>1, <1>10, CrashNodes, CrashFields
  <2>2. ReaderOK(reader[n])'
    BY <1>2, <2>1 DEF ReaderOK
  <2>3. QED
    BY <1>4, <2>1, <2>2
<1>11. ASSUME NEW n \in Nodes, NEW t \in Tabs, Connect(t, n)
       PROVE  (\A m \in Nodes : ReaderOK(reader[m]))'
  <2>1. OnlyReader(n) /\ newest' = newest
    BY <1>1, <1>11, ConnectNodes, ConnectFields
  <2>2. \/ reader'[n] = reader[n]
        \/ reader'[n].pc = "idle" /\ reader'[n].last = 0 /\ reader'[n].from = newest
    BY <1>1, <1>11, ConnectNodes
  <2>3. ReaderOK(reader[n])'
    BY <1>1, <2>1, <2>2 DEF ReaderOK
  <2>4. QED
    BY <1>4, <2>1, <2>3
<1>12. QED
  BY <1>5, <1>6, <1>7, <1>8, <1>9, <1>10, <1>11 DEF Step

-----------------------------------------------------------------------------
(* Tabs that a step leaves alone, but for frames that are no event *)

LEMMA RangeAppend ==
  ASSUME NEW b \in Seq(Nat), NEW e \in Nat
  PROVE  Range(Append(b, e)) = Range(b) \cup {e}
<1>1. /\ Len(Append(b, e)) = Len(b) + 1 /\ Append(b, e)[Len(b) + 1] = e
      /\ \A i \in 1 .. Len(b) : Append(b, e)[i] = b[i]
  OBVIOUS
<1>2. DOMAIN Append(b, e) = 1 .. Len(b) + 1 /\ DOMAIN b = 1 .. Len(b) /\ Len(b) \in Nat
  OBVIOUS
<1>3. QED
  BY <1>1, <1>2 DEF Range

LEMMA RangeTail ==
  ASSUME NEW b \in Seq(Nat), b # <<>>
  PROVE  Range(b) = Range(Tail(b)) \cup {Head(b)}
<1>1. /\ Len(b) \in Nat /\ Len(b) >= 1 /\ Len(Tail(b)) = Len(b) - 1 /\ Head(b) = b[1]
      /\ \A i \in 1 .. Len(b) - 1 : Tail(b)[i] = b[i + 1]
  OBVIOUS
<1>2. DOMAIN Tail(b) = 1 .. Len(b) - 1 /\ DOMAIN b = 1 .. Len(b)
  BY <1>1
<1>3. Range(b) \subseteq Range(Tail(b)) \cup {Head(b)}
  <2>1. ASSUME NEW i \in 1 .. Len(b)
        PROVE  b[i] \in Range(Tail(b)) \cup {Head(b)}
    <3>1. CASE i = 1
      BY <1>1, <3>1
    <3>2. CASE i > 1
      <4>1. i - 1 \in 1 .. Len(b) - 1 /\ Tail(b)[i - 1] = b[i]
        BY <1>1, <3>2
      <4>2. QED
        BY <1>2, <4>1 DEF Range
    <3>3. QED
      BY <1>1, <3>1, <3>2
  <2>2. QED
    BY <1>2, <2>1 DEF Range
<1>4. Range(Tail(b)) \cup {Head(b)} \subseteq Range(b)
  <2>1. ASSUME NEW i \in 1 .. Len(b) - 1
        PROVE  Tail(b)[i] \in Range(b)
    <3>1. i + 1 \in 1 .. Len(b) /\ Tail(b)[i] = b[i + 1]
      BY <1>1
    <3>2. QED
      BY <1>2, <3>1 DEF Range
  <2>2. Head(b) \in Range(b)
    BY <1>1, <1>2 DEF Range
  <2>3. QED
    BY <1>2, <2>1, <2>2 DEF Range
<1>5. QED
  BY <1>3, <1>4

\* An event newer than all of the buffer, or a frame that is no event, is appended.
LEMMA BufferAppend ==
  ASSUME NEW b \in Seq(Nat), BufferOK(b), Len(b) < Buffer, NEW e \in Nat, e <= newest,
         newest \in Nat, e = 0 \/ \A i \in 1 .. Len(b) : b[i] < e
  PROVE  BufferOK(Append(b, e))
<1>1. /\ Len(b) \in Nat /\ Len(Append(b, e)) = Len(b) + 1 /\ Append(b, e)[Len(b) + 1] = e
      /\ \A i \in 1 .. Len(b) : Append(b, e)[i] = b[i]
  OBVIOUS
<1>2. Len(Append(b, e)) <= Buffer
  BY <1>1, ConstantsAssumption
<1>3. QED
  BY <1>1, <1>2 DEF BufferOK

Alike(t) ==
  /\ Same(conn[t], conn'[t]) /\ (conn[t].done => conn'[t].done)
  /\ \/ conn'[t].buf = conn[t].buf
     \/ Len(conn[t].buf) < Buffer /\ conn'[t].buf = Append(conn[t].buf, 0)
  /\ tab'[t].seen = tab[t].seen /\ tab'[t].base = tab[t].base
  /\ Known(t) \subseteq Known(t)' /\ newest <= newest'
Follows(t) ==
  LET r == reader[conn[t].node]
      q == reader'[conn[t].node]
  IN Read(t)' => /\ Read(t) /\ r.last <= q.last
                 /\ ~conn'[t].done => Pos(r) + 1 .. Pos(q) \subseteq Known(t)'

\* What the proofs about one tab need of the types.
LEMMA TabTypes ==
  ASSUME SseTypeOK, NEW t \in Tabs
  PROVE  /\ conn[t] \in ConnRec /\ conn[t].buf \in Seq(Nat) /\ Len(conn[t].buf) \in Nat
         /\ \A i \in 1 .. Len(conn[t].buf) : conn[t].buf[i] \in Nat
         /\ conn[t].page \in Nat /\ conn[t].cut \in Nat /\ conn[t].skip \in Nat
         /\ tab[t].seen \in Nat /\ tab[t].base \in Nat /\ newest \in Nat
<1>1. conn[t] \in ConnRec /\ tab[t] \in TabRec /\ newest \in Nat
  BY SseTypeParts, NewestTyped DEF ConnsTyped, TabsTyped
<1>2. conn[t].buf \in Seq(Nat) /\ conn[t].page \in Nat /\ conn[t].cut \in Nat
      /\ conn[t].skip \in Nat
  BY <1>1 DEF ConnRec
<1>3. tab[t].seen \in Nat /\ tab[t].base \in Nat
  BY <1>1 DEF TabRec
<1>4. QED
  BY <1>1, <1>2, <1>3

LEMMA ReaderTypes ==
  ASSUME SseTypeOK, NEW n \in Nodes
  PROVE  /\ reader[n].last \in Nat /\ reader[n].from \in Nat /\ reader[n].upto \in Nat
         /\ Pos(reader[n]) \in Nat
<1>1. reader[n] \in ReaderRec
  BY SseTypeParts DEF ReadersTyped
<1>2. QED
  BY <1>1 DEF ReaderRec, Pos

LEMMA TabTypesPrimed ==
  ASSUME SseTypeOK', NEW t \in Tabs
  PROVE  /\ conn'[t] \in ConnRec /\ conn'[t].buf \in Seq(Nat) /\ Len(conn'[t].buf) \in Nat
         /\ \A i \in 1 .. Len(conn'[t].buf) : conn'[t].buf[i] \in Nat
         /\ conn'[t].page \in Nat /\ conn'[t].cut \in Nat /\ conn'[t].skip \in Nat
         /\ tab'[t].seen \in Nat /\ tab'[t].base \in Nat /\ newest' \in Nat
         /\ \A n \in Nodes : reader'[n].last \in Nat /\ Pos(reader'[n]) \in Nat
<1>1. ConnsTyped' /\ TabsTyped' /\ ReadersTyped' /\ newest' \in Nat
  BY SseTypePartsPrimed, NewestTypedPrimed
<1>2. /\ conn'[t] \in ConnRec /\ tab'[t] \in TabRec /\ newest' \in Nat
      /\ \A n \in Nodes : reader'[n] \in ReaderRec
  BY <1>1 DEF ConnsTyped, TabsTyped, ReadersTyped
<1>3. conn'[t].buf \in Seq(Nat) /\ conn'[t].page \in Nat /\ conn'[t].cut \in Nat
      /\ conn'[t].skip \in Nat
      /\ tab'[t].seen \in Nat /\ tab'[t].base \in Nat
  BY <1>2 DEF ConnRec, TabRec
<1>4. \A n \in Nodes : reader'[n].last \in Nat /\ Pos(reader'[n]) \in Nat
  BY <1>2 DEF ReaderRec, Pos
<1>5. QED
  BY <1>2, <1>3, <1>4

LEMMA ReadWhere ==
  ASSUME SeatsOK, NEW t \in Tabs
  PROVE  conn[t].pc \in Attached => conn[t].node \in Nodes
BY SeatParts DEF Seat, Attached

LEMMA TabKept ==
  ASSUME SseTypeOK, SseTypeOK', SeatsOK, NEW t \in Tabs, OrderOK(t), LossOK(t),
         Alike(t), Follows(t)
  PROVE  OrderOK(t)' /\ LossOK(t)'
<1> DEFINE c == conn[t]
           d == conn'[t]
           seen == tab[t].seen
           Upto(e) == tab[t].base + 1 .. e
<1>1. /\ c.buf \in Seq(Nat) /\ Len(c.buf) \in Nat /\ c.page \in Nat /\ c.skip \in Nat
      /\ \A i \in 1 .. Len(c.buf) : c.buf[i] \in Nat
      /\ seen \in Nat /\ tab[t].base \in Nat /\ newest \in Nat /\ newest' \in Nat
  BY TabTypes, TabTypesPrimed
<1>2. /\ d.pc = c.pc /\ d.node = c.node /\ d.page = c.page /\ d.cut = c.cut
      /\ d.skip = c.skip /\ (c.done => d.done) /\ tab'[t].seen = seen /\ tab'[t].base = tab[t].base
      /\ Known(t) \subseteq Known(t)' /\ newest <= newest'
  BY DEF Alike, Same
<1>3. Read(t)' => Read(t) /\ c.node \in Nodes /\ reader[c.node].last <= reader'[c.node].last
                  /\ reader[c.node].last \in Nat /\ reader'[c.node].last \in Nat
                  /\ Pos(reader[c.node]) \in Nat /\ Pos(reader'[c.node]) \in Nat
                  /\ (~d.done =>
                       Pos(reader[c.node]) + 1 .. Pos(reader'[c.node]) \subseteq Known(t)')
  BY ReadWhere, ReaderTypes, TabTypesPrimed DEF Follows, Read
<1>4. /\ \A i \in 1 .. Len(d.buf) : d.buf[i] = 0 \/ (i \in 1 .. Len(c.buf) /\ d.buf[i] = c.buf[i])
      /\ Range(c.buf) \subseteq Range(d.buf)
      /\ BufferOK(d.buf)
  <2>1. CASE d.buf = c.buf
    BY <1>1, <2>1 DEF OrderOK
  <2>2. CASE Len(c.buf) < Buffer /\ d.buf = Append(c.buf, 0)
    <3>1. BufferOK(d.buf)
      BY <1>1, <2>2, BufferAppend DEF OrderOK
    <3>2. QED
      BY <1>1, <2>2, <3>1, RangeAppend
  <2>3. QED
    BY <2>1, <2>2 DEF Alike
<1>5. BufferOK(conn[t].buf)'
  <2>1. /\ Len(d.buf) <= Buffer
        /\ \A i \in 1 .. Len(d.buf) :
             /\ d.buf[i] \in Nat /\ d.buf[i] <= newest
             /\ \A j \in 1 .. Len(d.buf) : i < j => d.buf[j] = 0 \/ d.buf[i] < d.buf[j]
    BY <1>4, TabTypesPrimed DEF BufferOK
  <2>2. \A x \in Nat : x <= newest => x <= newest'
    BY <1>1, <1>2
  <2>3. QED
    BY <2>1, <2>2 DEF BufferOK
<1>6. OrderOK(t)'
  <2>0. /\ Read(t) => \A i \in 1 .. Len(c.buf) : c.buf[i] <= reader[c.node].last
        /\ c.pc = "live" =>
             /\ \A i \in 1 .. Len(c.buf) : c.buf[i] = 0 \/ c.buf[i] <= c.skip \/ seen < c.buf[i]
             /\ Read(t) => seen <= c.skip \/ seen <= reader[c.node].last
    BY DEF OrderOK
  <2>1. Read(t)' => \A i \in 1 .. Len(d.buf) : d.buf[i] <= reader'[d.node].last
    <3>1. SUFFICES ASSUME Read(t)', NEW i \in 1 .. Len(d.buf)
                   PROVE  d.buf[i] <= reader'[c.node].last
      BY <1>2
    <3>2. d.buf[i] = 0 \/ (i \in 1 .. Len(c.buf) /\ d.buf[i] = c.buf[i])
      BY <1>4
    <3>3. /\ reader[c.node].last <= reader'[c.node].last
          /\ reader[c.node].last \in Nat /\ reader'[c.node].last \in Nat
          /\ \A j \in 1 .. Len(c.buf) : c.buf[j] <= reader[c.node].last
      BY <1>3, <2>0, <3>1
    <3>4. CASE i \in 1 .. Len(c.buf) /\ d.buf[i] = c.buf[i]
      <4>1. c.buf[i] \in Nat /\ c.buf[i] <= reader[c.node].last
        BY <1>1, <3>3, <3>4
      <4>2. QED
        BY <3>3, <3>4, <4>1
    <3>5. CASE d.buf[i] = 0
      BY <3>3, <3>5
    <3>6. QED
      BY <3>2, <3>4, <3>5
  <2>2. /\ seen <= newest'
        /\ d.pc = "replay" => /\ seen <= d.page /\ d.page <= newest'
                              /\ seen < d.page => d.cut < d.page
    BY <1>1, <1>2 DEF OrderOK
  <2>3. d.pc = "live" =>
          /\ \A i \in 1 .. Len(d.buf) : d.buf[i] = 0 \/ d.buf[i] <= d.skip \/ seen < d.buf[i]
          /\ Read(t)' => seen <= d.skip \/ seen <= reader'[d.node].last
    <3>1. SUFFICES ASSUME c.pc = "live"
                   PROVE  /\ \A i \in 1 .. Len(d.buf) :
                               d.buf[i] = 0 \/ d.buf[i] <= c.skip \/ seen < d.buf[i]
                          /\ Read(t)' => seen <= c.skip \/ seen <= reader'[c.node].last
      BY <1>2
    <3>2. \A i \in 1 .. Len(d.buf) : d.buf[i] = 0 \/ d.buf[i] <= c.skip \/ seen < d.buf[i]
      BY <1>4, <2>0, <3>1
    <3>3. Read(t)' => seen <= c.skip \/ seen <= reader'[c.node].last
      BY <1>1, <1>3, <2>0, <3>1
    <3>4. QED
      BY <3>2, <3>3
  <2>4. d.pc \in {"replay", "live"} => d.skip <= seen
    BY <1>2 DEF OrderOK
  <2>5. QED
    BY <1>2, <1>5, <2>1, <2>2, <2>3, <2>4 DEF OrderOK
<1>7. LossOK(t)'
  <2>1. /\ Upto(seen) \subseteq Known(t)'
        /\ d.pc = "replay" /\ seen < d.page => seen + 1 .. d.cut \subseteq Known(t)'
    BY <1>2 DEF LossOK
  <2>2. Fresh(t)' <=> Fresh(t)
    BY <1>2 DEF Fresh
  <2>3. Fresh(t) => \A i \in 1 .. Len(d.buf) : Upto(d.buf[i]) \subseteq Known(t)' \cup Range(d.buf)
    <3>1. Upto(0) = {}
      BY <1>1
    <3>2. QED
      BY <1>1, <1>2, <1>4, <3>1 DEF LossOK
  <2>4. Fresh(t) /\ Read(t)' /\ ~d.done =>
          Upto(Pos(reader'[d.node])) \subseteq Known(t)' \cup Range(d.buf)
    <3>1. SUFFICES ASSUME Fresh(t), Read(t)', ~d.done
                   PROVE  Upto(Pos(reader'[c.node])) \subseteq Known(t)' \cup Range(d.buf)
      BY <1>2
    <3>2. Upto(Pos(reader[c.node])) \subseteq Known(t) \cup Range(c.buf)
      BY <1>2, <1>3, <3>1 DEF LossOK
    <3>3. Upto(Pos(reader'[c.node])) \subseteq
            Upto(Pos(reader[c.node])) \cup (Pos(reader[c.node]) + 1 .. Pos(reader'[c.node]))
      BY <1>1, <1>3, <3>1
    <3>4. QED
      BY <1>2, <1>3, <1>4, <3>1, <3>2, <3>3
  <2>5. QED
    BY <1>2, <2>1, <2>2, <2>3, <2>4 DEF LossOK
<1>8. QED
  BY <1>6, <1>7

LEMMA QuietFollows ==
  ASSUME SseTypeOK, SeatsOK, NEW t \in Tabs, Same(conn[t], conn'[t]),
         Read(t)' => reader'[conn[t].node] = reader[conn[t].node]
  PROVE  Follows(t)
<1>1. SUFFICES ASSUME Read(t)'
               PROVE  /\ Read(t) /\ conn[t].node \in Nodes
                      /\ reader'[conn[t].node] = reader[conn[t].node]
  <2>1. conn[t].node \in Nodes =>
          /\ reader[conn[t].node].last \in Nat /\ Pos(reader[conn[t].node]) \in Nat
    BY ReaderTypes
  <2>2. conn[t].node \in Nodes =>
          Pos(reader[conn[t].node]) + 1 .. Pos(reader[conn[t].node]) = {}
    BY <2>1
  <2>3. QED
    BY <1>1, <2>1, <2>2 DEF Follows
<1>2. conn[t].pc \in Attached /\ reader'[conn[t].node].pc # "none"
  BY <1>1 DEF Read, Same
<1>3. QED
  BY <1>1, <1>2, ReadWhere DEF Read

\* The handler of a tab does nothing to the others.
LEMMA OthersKept ==
  ASSUME SseTypeOK, SseTypeOK', SeatsOK, NEW t \in Tabs, OnlyConn(t), OnlyTab(t),
         newest' = newest, NEW u \in Tabs, u # t, OrderOK(u), LossOK(u),
         Read(u)' => reader'[conn[u].node] = reader[conn[u].node]
  PROVE  OrderOK(u)' /\ LossOK(u)'
<1>1. conn'[u] = conn[u] /\ tab'[u] = tab[u] /\ newest \in Nat
  BY NewestTyped DEF OnlyConn, OnlyTab
<1>2. Same(conn[u], conn'[u]) /\ Known(u)' = Known(u)
  BY <1>1 DEF Same, Known
<1>3. Alike(u)
  BY <1>1, <1>2 DEF Alike
<1>4. Follows(u)
  BY <1>2, QuietFollows
<1>5. QED
  BY <1>3, <1>4, TabKept

\* A connection that has ended, and one that begins, have nothing to keep in order.
LEMMA EndedTab ==
  ASSUME SseTypeOK', NEW t \in Tabs, Ended(t), OrderOK(t), LossOK(t),
         tab'[t] = tab[t], newest' = newest
  PROVE  OrderOK(t)' /\ LossOK(t)'
<1>1. conn'[t].buf = <<>> /\ conn'[t].pc \notin Attached
  BY DEF Ended
<1>2. ~Read(t)' /\ ~Fresh(t)' /\ conn'[t].pc \notin {"replay", "live"}
  BY <1>1 DEF Read, Fresh, Attached
<1>3. BufferOK(conn[t].buf)'
  <2>1. Len(conn'[t].buf) = 0 /\ 0 <= Buffer
    BY <1>1, ConstantsAssumption
  <2>2. QED
    BY <2>1 DEF BufferOK
<1>4. OrderOK(t)'
  BY <1>2, <1>3 DEF OrderOK
<1>5. LossOK(t)'
  BY <1>2 DEF LossOK, Known
<1>6. QED
  BY <1>4, <1>5

LEMMA IncrTab ==
  ASSUME SseTypeOK, SseTypeOK', SeatsOK, NEW t \in Tabs, OrderOK(t), LossOK(t), Incr(t)
  PROVE  OrderOK(t)' /\ LossOK(t)'
<1>1. /\ Kept(t) /\ conn[t].pc = "incr" /\ UNCHANGED <<newest, reader, tab>>
      /\ \/ conn'[t].pc = "remove"
         \/ /\ conn'[t].page = tab[t].seen /\ conn'[t].skip = tab[t].seen
            /\ conn'[t].pc = IF tab[t].seen = 0 THEN "live" ELSE "replay"
  BY IncrFields DEF Opened
<1>2. /\ conn'[t].node = conn[t].node /\ conn'[t].buf = conn[t].buf
      /\ conn'[t].done = conn[t].done
      /\ (Read(t)' <=> Read(t)) /\ Known(t)' = Known(t)
  BY <1>1 DEF Kept, Read, Known, Attached
<1>3. Fresh(t)' => Fresh(t)
  BY <1>1 DEF Fresh
<1>4. LossOK(t)'
  <2>1. tab[t].seen \in Nat
    BY TabTypes
  <2>2. ~(conn'[t].pc = "replay" /\ tab'[t].seen < conn'[t].page)
    BY <1>1, <2>1
  <2>3. QED
    BY <1>1, <1>2, <1>3, <2>2 DEF LossOK, Pos
<1>5. BufferOK(conn[t].buf)'
  BY <1>1, <1>2 DEF OrderOK, BufferOK
<1>6. /\ \A i \in 1 .. Len(conn[t].buf) : conn[t].buf[i] \in Nat
      /\ tab[t].seen \in Nat /\ newest \in Nat
  BY TabTypes
<1>7. /\ tab[t].seen <= newest
      /\ Read(t) => \A i \in 1 .. Len(conn[t].buf) : conn[t].buf[i] <= reader[conn[t].node].last
  BY DEF OrderOK
<1>8. conn'[t].pc = "live" => tab[t].seen = 0 /\ conn'[t].skip = 0
  BY <1>1
<1>9. conn'[t].pc \in {"live", "replay"} =>
        conn'[t].page = tab[t].seen /\ conn'[t].skip = tab[t].seen
  BY <1>1
<1>10. OrderOK(t)'
  BY <1>1, <1>2, <1>5, <1>6, <1>7, <1>8, <1>9 DEF OrderOK
<1>11. QED
  BY <1>4, <1>10

LEMMA LeaveTab ==
  ASSUME SseTypeOK, NEW t \in Tabs, OrderOK(t), LossOK(t), Finish(t) \/ Drop(t)
  PROVE  OrderOK(t)' /\ LossOK(t)'
<1>1. /\ Kept(t) /\ conn'[t].pc = "remove" /\ conn[t].pc \in {"replay", "live"}
      /\ UNCHANGED <<newest, reader, tab>>
  BY LeaveFields
<1>2. /\ conn'[t].node = conn[t].node /\ conn'[t].buf = conn[t].buf
      /\ (Read(t)' => Read(t)) /\ ~Fresh(t)' /\ Known(t)' = Known(t)
  BY <1>1 DEF Kept, Read, Known, Attached, Fresh
<1>3. BufferOK(conn[t].buf)'
  BY <1>1, <1>2 DEF OrderOK, BufferOK
<1>4. OrderOK(t)'
  BY <1>1, <1>2, <1>3 DEF OrderOK
<1>5. LossOK(t)'
  BY <1>1, <1>2 DEF LossOK
<1>6. QED
  BY <1>4, <1>5

LEMMA ReplayReadTab ==
  ASSUME SseTypeOK, SseTypeOK', SeatsOK, NEW t \in Tabs, OrderOK(t), LossOK(t), ReplayRead(t),
         \A n \in Nodes : ReaderOK(reader[n])
  PROVE  OrderOK(t)' /\ LossOK(t)'
<1> DEFINE c == conn[t]
           seen == tab[t].seen
           Upto(e) == tab[t].base + 1 .. e
<1>1. /\ Kept(t) /\ c.pc = "replay" /\ c.page = seen
      /\ tab'[t].seen = seen /\ tab'[t].base = tab[t].base
      /\ UNCHANGED <<newest, reader>>
      /\ \/ /\ conn'[t].pc = "replay" /\ conn'[t].skip = c.skip
            /\ seen < conn'[t].page /\ conn'[t].page <= newest
            /\ conn'[t].cut < conn'[t].page
            /\ Known(t)' = Known(t) \cup (seen + 1 .. conn'[t].cut)
         \/ /\ conn'[t].pc = "live" /\ conn'[t].skip = seen
            /\ Known(t)' = Known(t) \cup (seen + 1 .. newest)
  BY ReplayReadFields
<1>2. /\ conn'[t].node = c.node /\ conn'[t].buf = c.buf
      /\ (Read(t)' <=> Read(t))
  BY <1>1 DEF Kept, Read, Attached
<1>3. /\ \A i \in 1 .. Len(c.buf) : c.buf[i] \in Nat
      /\ seen \in Nat /\ newest \in Nat /\ tab[t].base \in Nat
  BY TabTypes
<1>4. BufferOK(conn[t].buf)'
  BY <1>1, <1>2 DEF OrderOK, BufferOK
<1>5. /\ seen <= newest /\ c.skip <= seen /\ Upto(seen) \subseteq Known(t)
      /\ \A i \in 1 .. Len(c.buf) : c.buf[i] <= newest
      /\ Read(t) => \A i \in 1 .. Len(c.buf) : c.buf[i] <= reader[c.node].last
  BY <1>1 DEF OrderOK, LossOK, BufferOK
<1>6. CASE /\ conn'[t].pc = "replay" /\ conn'[t].skip = c.skip
           /\ seen < conn'[t].page /\ conn'[t].page <= newest
           /\ conn'[t].cut < conn'[t].page
           /\ Known(t)' = Known(t) \cup (seen + 1 .. conn'[t].cut)
  <2>0. seen <= conn'[t].page
    BY <1>3, <1>6, TabTypesPrimed
  <2>1. OrderOK(t)'
    BY <1>1, <1>2, <1>4, <1>5, <1>6, <2>0 DEF OrderOK
  <2>2. ~Fresh(t)' /\ Known(t) \subseteq Known(t)'
    BY <1>6 DEF Fresh
  <2>3. LossOK(t)'
    BY <1>1, <1>5, <1>6, <2>2 DEF LossOK
  <2>4. QED
    BY <2>1, <2>3
<1>7. CASE /\ conn'[t].pc = "live" /\ conn'[t].skip = seen
           /\ Known(t)' = Known(t) \cup (seen + 1 .. newest)
  <2>1. \A i \in 1 .. Len(c.buf) : c.buf[i] = 0 \/ c.buf[i] <= seen \/ seen < c.buf[i]
    BY <1>3
  <2>2. OrderOK(t)'
    BY <1>1, <1>2, <1>3, <1>4, <1>5, <1>7, <2>1 DEF OrderOK
  <2>3. \A e \in Nat : e <= newest => Upto(e) \subseteq Known(t)'
    BY <1>3, <1>5, <1>7
  <2>4. Read(t) => Pos(reader[c.node]) \in Nat /\ Pos(reader[c.node]) <= newest
    <3>1. SUFFICES ASSUME Read(t)
                   PROVE  Pos(reader[c.node]) \in Nat /\ Pos(reader[c.node]) <= newest
      OBVIOUS
    <3>2. c.node \in Nodes
      BY <3>1, ReadWhere DEF Read
    <3>3. QED
      BY <1>3, <3>2, ReaderTypes DEF ReaderOK, Pos
  <2>5. \A i \in 1 .. Len(c.buf) : Upto(c.buf[i]) \subseteq Known(t)'
    BY <1>3, <1>5, <2>3
  <2>6. Read(t) => Upto(Pos(reader[c.node])) \subseteq Known(t)'
    BY <2>3, <2>4
  <2>7. Upto(seen) \subseteq Known(t)'
    BY <1>3, <1>5, <2>3
  <2>8. (Pos(reader[conn[t].node]))' = Pos(reader[c.node])
    BY <1>1, <1>2 DEF Pos
  <2>9. LossOK(t)'
    BY <1>1, <1>2, <2>5, <2>6, <2>7, <2>8 DEF LossOK
  <2>10. QED
    BY <2>2, <2>9
<1>8. QED
  BY <1>1, <1>6, <1>7

LEMMA ReplayWriteTab ==
  ASSUME SseTypeOK, NEW t \in Tabs, OrderOK(t), LossOK(t), ReplayWrite(t)
  PROVE  OrderOK(t)' /\ LossOK(t)' /\ tab'[t].seen > tab[t].seen
<1> DEFINE c == conn[t]
           seen == tab[t].seen
           next == MaxOf(seen, c.cut) + 1
<1>1. /\ UNCHANGED <<conn, newest, reader>> /\ c.pc = "replay" /\ c.page > seen
      /\ tab'[t].seen = next /\ tab'[t].base = tab[t].base
      /\ Known(t)' = Known(t) \cup {next}
  BY ReplayWriteFields
<1>2. /\ c.page \in Nat /\ c.cut \in Nat /\ c.skip \in Nat /\ seen \in Nat
      /\ newest \in Nat /\ tab[t].base \in Nat
  BY TabTypes
<1>3. /\ c.skip <= seen /\ c.page <= newest /\ BufferOK(c.buf) /\ c.cut < c.page
      /\ tab[t].base + 1 .. seen \subseteq Known(t)
      /\ seen + 1 .. c.cut \subseteq Known(t)
      /\ Read(t) => \A i \in 1 .. Len(c.buf) : c.buf[i] <= reader[c.node].last
  BY <1>1, <1>2 DEF OrderOK, LossOK
<1>4. BufferOK(conn[t].buf)' /\ (Read(t)' <=> Read(t)) /\ ~Fresh(t)'
  BY <1>1, <1>3 DEF BufferOK, Read, Fresh
<1>5. /\ next \in Nat /\ seen < next /\ c.cut < next /\ next <= c.page
      /\ c.skip <= next /\ next <= newest
  BY <1>1, <1>2, <1>3 DEF MaxOf
<1>6. \A e \in Nat : e < next => e <= seen \/ e <= c.cut
  BY <1>2 DEF MaxOf
<1> HIDE DEF next
<1>7. OrderOK(t)'
  BY <1>1, <1>3, <1>4, <1>5 DEF OrderOK
<1>8. tab[t].base + 1 .. next \subseteq Known(t)'
  <2>1. ASSUME NEW e \in tab[t].base + 1 .. next
        PROVE  e \in Known(t)'
    <3>1. e \in Nat /\ tab[t].base + 1 <= e /\ e <= next
      BY <1>2, <1>5
    <3>2. e = next \/ e \in tab[t].base + 1 .. seen \/ e \in seen + 1 .. c.cut
      BY <1>2, <1>5, <1>6, <3>1
    <3>3. QED
      BY <1>1, <1>3, <3>2
  <2>2. QED
    BY <2>1
<1>9. next + 1 .. c.cut = {}
  BY <1>2, <1>5
<1>10. LossOK(t)'
  BY <1>1, <1>4, <1>8, <1>9 DEF LossOK
<1>11. QED
  BY <1>1, <1>2, <1>5, <1>7, <1>10

LEMMA WriteTab ==
  ASSUME SseTypeOK, SeatsOK, NEW t \in Tabs, OrderOK(t), LossOK(t), Write(t)
  PROVE  /\ OrderOK(t)' /\ LossOK(t)'
         /\ tab'[t].seen # tab[t].seen => tab'[t].seen > tab[t].seen
<1> DEFINE c == conn[t]
           b == conn[t].buf
           e == Head(conn[t].buf)
           seen == tab[t].seen
           base == tab[t].base
           last == reader[conn[t].node].last
           Upto(x) == tab[t].base + 1 .. x
<1>1. /\ c.pc = "live" /\ b # <<>> /\ Same(c, conn'[t]) /\ conn'[t].done = c.done
      /\ conn'[t].buf = Tail(b) /\ UNCHANGED <<newest, reader>>
      /\ \/ (e = 0 \/ SkipReplayed(c, e)) /\ UNCHANGED tab
         \/ /\ e # 0 /\ ~SkipReplayed(c, e)
            /\ tab'[t].seen = e /\ tab'[t].base = base /\ Known(t)' = Known(t) \cup {e}
  BY WriteFields
<1>2. /\ conn'[t].pc = "live" /\ conn'[t].node = c.node /\ conn'[t].skip = c.skip
      /\ conn'[t].page = c.page /\ (Read(t)' <=> Read(t)) /\ Fresh(t) /\ Fresh(t)'
  BY <1>1 DEF Same, Read, Fresh
<1>3. /\ b \in Seq(Nat) /\ Len(b) \in Nat /\ Len(b) >= 1 /\ e = b[1] /\ e \in Nat
      /\ \A i \in 1 .. Len(b) : b[i] \in Nat
      /\ Len(Tail(b)) = Len(b) - 1 /\ \A i \in 1 .. Len(b) - 1 : Tail(b)[i] = b[i + 1]
      /\ Range(b) = Range(Tail(b)) \cup {e}
      /\ c.skip \in Nat /\ seen \in Nat /\ base \in Nat /\ newest \in Nat
  BY <1>1, TabTypes, RangeTail
<1>4. /\ seen <= newest /\ BufferOK(b) /\ c.skip <= seen
      /\ Read(t) => \A i \in 1 .. Len(b) : b[i] <= last
      /\ \A i \in 1 .. Len(b) : b[i] = 0 \/ b[i] <= c.skip \/ seen < b[i]
      /\ Read(t) => seen <= c.skip \/ seen <= last
  BY <1>1 DEF OrderOK
<1>5. /\ Upto(seen) \subseteq Known(t)
      /\ \A i \in 1 .. Len(b) : Upto(b[i]) \subseteq Known(t) \cup Range(b)
      /\ Read(t) /\ ~c.done => Upto(Pos(reader[c.node])) \subseteq Known(t) \cup Range(b)
  BY <1>2 DEF LossOK
<1>6. /\ e <= newest /\ \A j \in 2 .. Len(b) : b[j] = 0 \/ e < b[j]
      /\ Read(t) => e <= last /\ last \in Nat
  <2>1. 1 \in 1 .. Len(b)
    BY <1>3
  <2>2. e <= newest /\ \A j \in 2 .. Len(b) : b[j] = 0 \/ e < b[j]
    BY <1>3, <1>4, <2>1 DEF BufferOK
  <2>3. Read(t) => last \in Nat
    BY ReadWhere, ReaderTypes DEF Read
  <2>4. QED
    BY <1>3, <1>4, <2>1, <2>2, <2>3
<1>7. BufferOK(conn[t].buf)'
  <2>1. \A i \in 1 .. Len(Tail(b)) : i + 1 \in 1 .. Len(b) /\ Tail(b)[i] = b[i + 1]
    BY <1>3
  <2>2. Len(Tail(b)) <= Buffer
    BY <1>3, <1>4, ConstantsAssumption DEF BufferOK
  <2>3. \A i \in 1 .. Len(Tail(b)) :
          /\ Tail(b)[i] <= newest
          /\ \A j \in 1 .. Len(Tail(b)) : i < j => Tail(b)[j] = 0 \/ Tail(b)[i] < Tail(b)[j]
    BY <1>3, <1>4, <2>1 DEF BufferOK
  <2>4. QED
    BY <1>1, <2>2, <2>3 DEF BufferOK
<1>8. \A i \in 1 .. Len(Tail(b)) : i + 1 \in 2 .. Len(b) /\ i + 1 \in 1 .. Len(b)
                                   /\ Tail(b)[i] = b[i + 1]
  BY <1>3
<1>9. Read(t) => \A i \in 1 .. Len(Tail(b)) : Tail(b)[i] <= last
  BY <1>4, <1>8
<1>10. CASE (e = 0 \/ SkipReplayed(c, e)) /\ UNCHANGED tab
  <2>1. Known(t)' = Known(t)
    BY <1>10 DEF Known
  <2>2. OrderOK(t)'
    BY <1>1, <1>2, <1>4, <1>7, <1>8, <1>9, <1>10 DEF OrderOK
  <2>3. \A x \in Nat : e \in Upto(x) => e \in Known(t)
    <3>1. e # 0 => e <= seen
      BY <1>3, <1>4, <1>10 DEF SkipReplayed
    <3>2. QED
      BY <1>3, <1>5, <3>1
  <2>4. \A x \in Nat : Upto(x) \subseteq Known(t) \cup Range(b)
                       => Upto(x) \subseteq Known(t) \cup Range(Tail(b))
    BY <1>3, <2>3
  <2>5. \A i \in 1 .. Len(Tail(b)) : Upto(Tail(b)[i]) \subseteq Known(t) \cup Range(Tail(b))
    BY <1>3, <1>5, <1>8, <2>4
  <2>6. Read(t) /\ ~c.done => Upto(Pos(reader[c.node])) \subseteq Known(t) \cup Range(Tail(b))
    <3>1. Read(t) => Pos(reader[c.node]) \in Nat
      BY ReadWhere, ReaderTypes DEF Read
    <3>2. QED
      BY <1>5, <2>4, <3>1
  <2>7. (Pos(reader[conn[t].node]))' = Pos(reader[c.node])
    BY <1>1, <1>2 DEF Pos
  <2>8. LossOK(t)'
    BY <1>1, <1>2, <1>5, <1>10, <2>1, <2>5, <2>6, <2>7 DEF LossOK
  <2>9. QED
    BY <1>10, <2>2, <2>8
<1>11. CASE /\ e # 0 /\ ~SkipReplayed(c, e)
            /\ tab'[t].seen = e /\ tab'[t].base = base /\ Known(t)' = Known(t) \cup {e}
  <2>1. seen < e /\ c.skip < e
    <3>1. e > c.skip
      BY <1>3, <1>11 DEF SkipReplayed
    <3>2. 1 \in 1 .. Len(b)
      BY <1>3
    <3>3. QED
      BY <1>3, <1>4, <1>11, <3>1, <3>2
  <2>2. \A i \in 1 .. Len(Tail(b)) : Tail(b)[i] = 0 \/ e < Tail(b)[i]
    BY <1>6, <1>8
  <2>3. c.skip <= e
    BY <1>3, <2>1
  <2>4. OrderOK(t)'
    BY <1>1, <1>2, <1>6, <1>7, <1>9, <1>11, <2>2, <2>3 DEF OrderOK
  <2>5. Known(t) \cup Range(b) = Known(t)' \cup Range(Tail(b))
    BY <1>3, <1>11
  <2>6. Upto(e) \subseteq Known(t)'
    <3>1. Upto(e) \subseteq Known(t) \cup Range(b)
      <4>1. 1 \in 1 .. Len(b)
        BY <1>3
      <4>2. QED
        BY <1>3, <1>5, <4>1
    <3>2. \A x \in Range(Tail(b)) : x \notin Upto(e)
      <4>1. ASSUME NEW i \in 1 .. Len(Tail(b))
            PROVE  Tail(b)[i] \notin Upto(e)
        <5>1. Tail(b)[i] \in Nat
          BY <1>3, <1>8
        <5>2. Tail(b)[i] = 0 \/ e < Tail(b)[i]
          BY <2>2
        <5>3. \A x \in Nat : x = 0 \/ e < x => x \notin Upto(e)
          BY <1>3
        <5>4. QED
          BY <5>1, <5>2, <5>3
      <4>2. DOMAIN Tail(b) = 1 .. Len(Tail(b))
        BY <1>3
      <4>3. QED
        BY <4>1, <4>2 DEF Range
    <3>3. QED
      BY <2>5, <3>1, <3>2
  <2>7. \A i \in 1 .. Len(Tail(b)) : Upto(Tail(b)[i]) \subseteq Known(t)' \cup Range(Tail(b))
    BY <1>5, <1>8, <2>5
  <2>8. (Pos(reader[conn[t].node]))' = Pos(reader[c.node])
    BY <1>1, <1>2 DEF Pos
  <2>9. LossOK(t)'
    BY <1>1, <1>2, <1>5, <1>11, <2>5, <2>6, <2>7, <2>8 DEF LossOK
  <2>10. QED
    BY <1>3, <1>11, <2>1, <2>4, <2>9
<1>12. QED
  BY <1>1, <1>10, <1>11

LEMMA ConnectTab ==
  ASSUME SseTypeOK, SseTypeOK', RegistryAgrees, NEW t \in Tabs, NEW n \in Nodes,
         OrderOK(t), LossOK(t), Connect(t, n), \A m \in Nodes : ReaderOK(reader[m])
  PROVE  OrderOK(t)' /\ LossOK(t)'
<1>1. /\ conn'[t].pc = "incr" /\ conn'[t].node = n /\ conn'[t].buf = <<>>
      /\ tab'[t].seen = tab[t].seen /\ Known(t)' = Known(t) /\ newest' = newest
      /\ tab'[t].base = IF tab[t].seen = 0 THEN newest ELSE tab[t].base
  BY ConnectFields
<1>2. /\ tab[t].seen \in Nat /\ tab[t].base \in Nat /\ newest \in Nat
      /\ Len(conn'[t].buf) = 0 /\ 0 <= Buffer /\ tab[t].seen <= newest
  BY <1>1, TabTypes, ConstantsAssumption DEF OrderOK
<1>3. BufferOK(conn[t].buf)'
  BY <1>2 DEF BufferOK
<1>4. OrderOK(t)'
  BY <1>1, <1>2, <1>3 DEF OrderOK
<1>5. Pos(reader'[n]) \in Nat /\ Pos(reader'[n]) <= newest
  <2>1. \/ reader'[n] = reader[n]
        \/ reader'[n].pc = "idle" /\ reader'[n].from = newest
    BY ConnectNodes
  <2>2. Pos(reader'[n]) \in Nat
    BY TabTypesPrimed
  <2>3. reader[n].last \in Nat /\ reader[n].upto \in Nat
    BY ReaderTypes
  <2>4. QED
    BY <1>2, <2>1, <2>2, <2>3 DEF Pos, ReaderOK
<1>6. CASE tab[t].seen = 0
  <2>1. tab'[t].base = newest
    BY <1>1, <1>6
  <2>2. tab'[t].base + 1 .. tab'[t].seen = {}
    BY <1>1, <1>2, <1>6, <2>1
  <2>3. tab'[t].base + 1 .. Pos(reader'[n]) = {}
    BY <1>2, <1>5, <2>1
  <2>4. (Pos(reader[conn[t].node]))' = Pos(reader'[n])
    BY <1>1 DEF Pos
  <2>5. QED
    BY <1>1, <1>2, <1>4, <2>2, <2>3, <2>4 DEF LossOK
<1>7. CASE tab[t].seen # 0
  <2>1. ~Fresh(t)'
    BY <1>1, <1>7 DEF Fresh
  <2>2. QED
    BY <1>1, <1>4, <1>7, <2>1 DEF LossOK
<1>8. QED
  BY <1>6, <1>7

-----------------------------------------------------------------------------
(* Every step keeps every tab in order, and its losses known *)

LEMMA HandlerTabs ==
  ASSUME SseIInv, SseTypeOK', NEW t \in Tabs, Handler(t) \/ Drop(t), NEW u \in Tabs
  PROVE  /\ OrderOK(u)' /\ LossOK(u)'
         /\ tab'[u].seen # tab[u].seen => tab'[u].seen > tab[u].seen
<1>1. /\ SseTypeOK /\ RegistryAgrees /\ SeatsOK /\ \A n \in Nodes : ReaderOK(reader[n])
      /\ OrderOK(t) /\ LossOK(t) /\ OrderOK(u) /\ LossOK(u) /\ TabsTyped
  BY SseTypeParts DEF SseIInv
<1>2. /\ OnlyConn(t) /\ OnlyTab(t) /\ newest' = newest
      /\ reader' = reader \/ Remove(t)
      /\ tab'[t].seen = tab[t].seen \/ ReplayWrite(t) \/ Write(t)
  <2>1. CASE Incr(t)
    BY <1>1, <2>1, IncrFields, SameTabs
  <2>2. CASE Remove(t)
    BY <1>1, <2>2, RemoveFields, SameTabs
  <2>3. CASE Decr(t)
    BY <1>1, <2>3, DecrFields, SameTabs
  <2>4. CASE Del(t)
    BY <1>1, <2>4, DelFields, SameTabs
  <2>5. CASE ReplayRead(t)
    BY <1>1, <2>5, ReplayReadFields
  <2>6. CASE ReplayWrite(t)
    BY <1>1, <2>6, ReplayWriteFields
  <2>7. CASE Write(t)
    BY <1>1, <2>7, WriteFields
  <2>8. CASE Finish(t) \/ Drop(t)
    BY <1>1, <2>8, LeaveFields, SameTabs
  <2>9. QED
    BY <2>1, <2>2, <2>3, <2>4, <2>5, <2>6, <2>7, <2>8 DEF Handler
<1>3. CASE u # t
  <2>1. conn'[u] = conn[u] /\ tab'[u] = tab[u]
    BY <1>2, <1>3 DEF OnlyConn, OnlyTab
  <2>2. Read(u)' => reader'[conn[u].node] = reader[conn[u].node]
    <3>1. CASE reader' = reader
      BY <3>1
    <3>2. CASE Remove(t)
      <4>1. PICK n \in Nodes : /\ OnlyReader(n)
                               /\ reader'[n] = reader[n] \/ reader'[n] = NoReader
        BY <1>1, <3>2, RemoveNodes
      <4>2. NoReader.pc = "none"
        BY DEF NoReader
      <4>3. Read(u)' => conn[u].node \in Nodes
        BY <1>1, <2>1, ReadWhere DEF Read
      <4>4. QED
        BY <2>1, <4>1, <4>2, <4>3 DEF OnlyReader, Read
    <3>3. QED
      BY <1>2, <3>1, <3>2
  <2>3. QED
    BY <1>1, <1>2, <1>3, <2>1, <2>2, OthersKept
<1>4. CASE u = t
  <2>1. OrderOK(t)' /\ LossOK(t)'
    <3>1. CASE Incr(t)
      BY <1>1, <3>1, IncrTab
    <3>2. CASE Remove(t) \/ Decr(t) \/ Del(t)
      <4>1. Ended(t) /\ tab' = tab /\ newest' = newest
        BY <1>1, <3>2, RemoveFields, DecrFields, DelFields
      <4>2. QED
        BY <1>1, <4>1, EndedTab
    <3>3. CASE ReplayRead(t)
      BY <1>1, <3>3, ReplayReadTab
    <3>4. CASE ReplayWrite(t)
      BY <1>1, <3>4, ReplayWriteTab
    <3>5. CASE Write(t)
      BY <1>1, <3>5, WriteTab
    <3>6. CASE Finish(t) \/ Drop(t)
      BY <1>1, <3>6, LeaveTab
    <3>7. QED
      BY <3>1, <3>2, <3>3, <3>4, <3>5, <3>6 DEF Handler
  <2>2. tab'[t].seen # tab[t].seen => tab'[t].seen > tab[t].seen
    <3>1. CASE ReplayWrite(t)
      BY <1>1, <3>1, ReplayWriteTab
    <3>2. CASE Write(t)
      BY <1>1, <3>2, WriteTab
    <3>3. QED
      BY <1>2, <3>1, <3>2
  <2>3. QED
    BY <1>4, <2>1, <2>2
<1>5. QED
  BY <1>3, <1>4

\* A node's clients are those its reader reads for.
LEMMA WhoReads ==
  ASSUME RegistryAgrees, NEW n \in Nodes, NEW t \in Tabs
  PROVE  t \in hub[n].clients <=> (conn[t].node = n /\ conn[t].pc \in Attached)
BY SeatParts DEF NodeAgrees, Here

LEMMA PollTabs ==
  ASSUME SseIInv, SseTypeOK', NEW n \in Nodes, NEW t \in Tabs,
         PollStart(n) \/ PollReturns(n) \/ PollEnds(n)
  PROVE  OrderOK(t)' /\ LossOK(t)' /\ tab'[t].seen = tab[t].seen
<1>1. /\ SseTypeOK /\ RegistryAgrees /\ SeatsOK /\ \A m \in Nodes : ReaderOK(reader[m])
      /\ OrderOK(t) /\ LossOK(t) /\ newest \in Nat
  BY NewestTyped DEF SseIInv
<1>2. /\ UNCHANGED <<newest, conn>> /\ OnlyReader(n) /\ reader[n].pc # "none"
      /\ reader[n].last <= reader'[n].last
      /\ tab'[t].seen = tab[t].seen /\ tab'[t].base = tab[t].base
      /\ Known(t) \subseteq Known(t)'
      /\ t \in hub[n].clients => Pos(reader[n]) + 1 .. Pos(reader'[n]) \subseteq Known(t)'
  <2>1. /\ reader[n].last \in Nat /\ reader[n].from \in Nat /\ reader[n].upto \in Nat
        /\ reader'[n].last \in Nat /\ reader[n].from + 1 .. reader[n].from = {}
    BY <1>1, ReaderTypes, TabTypesPrimed
  <2>2. CASE PollStart(n)
    <3>1. /\ UNCHANGED <<newest, conn>> /\ OnlyReader(n)
          /\ reader[n].pc = "idle" /\ reader'[n].pc = "poll"
          /\ reader'[n].last = reader[n].last /\ reader'[n].from = newest
          /\ tab'[t].seen = tab[t].seen /\ tab'[t].base = tab[t].base
          /\ Known(t)' = IF t \in hub[n].clients
                         THEN Known(t) \cup (reader[n].from + 1 .. newest) ELSE Known(t)
      BY <1>1, <2>2, PollStartFields
    <3>2. Pos(reader[n]) = reader[n].from /\ Pos(reader'[n]) = newest
      BY <3>1 DEF Pos
    <3>3. QED
      BY <2>1, <3>1, <3>2
  <2>3. CASE PollReturns(n)
    <3>1. /\ UNCHANGED <<newest, conn>> /\ OnlyReader(n)
          /\ reader[n].pc = "poll" /\ reader'[n].pc = "dispatch"
          /\ reader[n].from <= reader'[n].last
          /\ tab'[t].seen = tab[t].seen /\ tab'[t].base = tab[t].base
          /\ Known(t)' = IF t \in hub[n].clients
                         THEN Known(t) \cup (reader[n].from + 1 .. reader'[n].last)
                         ELSE Known(t)
      BY <1>1, <2>3, PollReturnsFields
    <3>2. Pos(reader[n]) = reader[n].from /\ Pos(reader'[n]) = reader'[n].last
      BY <3>1 DEF Pos
    <3>3. reader[n].last <= reader'[n].last
      BY <1>1, <2>1, <3>1 DEF ReaderOK
    <3>4. QED
      BY <2>1, <3>1, <3>2, <3>3
  <2>4. CASE PollEnds(n)
    <3>1. /\ UNCHANGED <<newest, conn, tab>> /\ OnlyReader(n)
          /\ reader[n].pc = "poll" /\ reader'[n].pc = "idle"
          /\ reader'[n].last = reader[n].last /\ reader'[n].from = reader[n].from
      BY <1>1, <2>4, PollEndsFields
    <3>2. Pos(reader[n]) = reader[n].from /\ Pos(reader'[n]) = reader[n].from
      BY <3>1 DEF Pos
    <3>3. QED
      BY <2>1, <3>1, <3>2 DEF Known
  <2>5. QED
    BY <2>2, <2>3, <2>4
<1>3. Alike(t)
  BY <1>1, <1>2 DEF Alike, Same
<1>4. Follows(t)
  <2>1. CASE conn[t].node = n
    <3>1. SUFFICES ASSUME Read(t)'
                   PROVE  /\ Read(t)
                          /\ Pos(reader[n]) + 1 .. Pos(reader'[n]) \subseteq Known(t)'
      BY <1>2, <2>1 DEF Follows
    <3>2. Read(t) /\ t \in hub[n].clients
      BY <1>1, <1>2, <2>1, <3>1, WhoReads DEF Read
    <3>3. QED
      BY <1>2, <3>2
  <2>2. CASE conn[t].node # n
    <3>1. Read(t)' => reader'[conn[t].node] = reader[conn[t].node]
      BY <1>1, <1>2, <2>2, ReadWhere DEF Read, OnlyReader
    <3>2. QED
      BY <1>1, <1>2, <3>1, QuietFollows DEF Same
  <2>3. QED
    BY <2>1, <2>2
<1>5. QED
  BY <1>1, <1>2, <1>3, <1>4, TabKept

\* An event is dispatched into a buffer that has room.
LEMMA DispatchedTab ==
  ASSUME SseTypeOK, SseTypeOK', NEW t \in Tabs, NEW n \in Nodes, OrderOK(t), LossOK(t),
         ReaderOK(reader[n]), conn[t].node = n, Read(t), reader[n].pc = "dispatch",
         ~conn[t].done, Len(conn[t].buf) < Buffer, Same(conn[t], conn'[t]),
         NEW e \in Nat, e = reader[n].last + 1, conn'[t].buf = Append(conn[t].buf, e),
         reader'[n].last = e, Pos(reader'[n]) = e, newest' = newest,
         tab'[t].seen = tab[t].seen, tab'[t].base = tab[t].base, Known(t)' = Known(t)
  PROVE  OrderOK(t)' /\ LossOK(t)'
<1> DEFINE c == conn[t]
           b == conn[t].buf
           b1 == Append(conn[t].buf, e)
           seen == tab[t].seen
           Upto(x) == tab[t].base + 1 .. x
<1>1. /\ b \in Seq(Nat) /\ Len(b) \in Nat /\ \A i \in 1 .. Len(b) : b[i] \in Nat
      /\ c.skip \in Nat /\ seen \in Nat /\ tab[t].base \in Nat /\ newest \in Nat
      /\ reader[n].last \in Nat /\ reader[n].upto \in Nat
  BY TabTypes, ReaderTypes
<1>2. /\ conn'[t].pc = c.pc /\ conn'[t].node = n /\ conn'[t].page = c.page
      /\ conn'[t].skip = c.skip /\ conn'[t].cut = c.cut /\ c.pc \in Attached
  BY DEF Same, Read
<1>3. reader[n].last < e /\ e <= newest /\ e > 0
  BY <1>1 DEF ReaderOK
<1>4. /\ seen <= newest /\ BufferOK(b)
      /\ \A i \in 1 .. Len(b) : b[i] <= reader[n].last
      /\ c.pc = "replay" => seen <= c.page /\ c.page <= newest
                            /\ (seen < c.page => c.cut < c.page)
      /\ c.pc \in {"replay", "live"} => c.skip <= seen
      /\ c.pc = "live" =>
           /\ \A i \in 1 .. Len(b) : b[i] = 0 \/ b[i] <= c.skip \/ seen < b[i]
           /\ seen <= c.skip \/ seen <= reader[n].last
  BY DEF OrderOK
<1>5. ASSUME NEW i \in 1 .. Len(b)
      PROVE  b[i] < e
  <2>1. b[i] \in Nat /\ b[i] <= reader[n].last
    BY <1>1, <1>4
  <2>2. \A x \in Nat : x <= reader[n].last => x < e
    BY <1>1, <1>3
  <2>3. QED
    BY <2>1, <2>2
<1>6. /\ Len(b1) = Len(b) + 1 /\ b1[Len(b) + 1] = e
      /\ \A i \in 1 .. Len(b) : b1[i] = b[i]
      /\ Range(b1) = Range(b) \cup {e}
  <2>1. Len(b1) = Len(b) + 1 /\ b1[Len(b) + 1] = e /\ \A i \in 1 .. Len(b) : b1[i] = b[i]
    BY <1>1
  <2>2. Range(b1) = Range(b) \cup {e}
    BY <1>1, RangeAppend
  <2>3. QED
    BY <2>1, <2>2
<1>7. \A i \in 1 .. Len(b1) : i \in 1 .. Len(b) \/ i = Len(b) + 1
  <2>1. \A k \in Nat : \A i \in 1 .. k + 1 : i \in 1 .. k \/ i = k + 1
    OBVIOUS
  <2>2. QED
    BY <1>1, <1>6, <2>1
<1>8. BufferOK(b1)
  BY <1>1, <1>3, <1>4, <1>5, BufferAppend
<1>9. BufferOK(conn[t].buf)'
  BY <1>8 DEF BufferOK
<1>10. ASSUME NEW i \in 1 .. Len(b1)
       PROVE  b1[i] <= e
  <2>1. CASE i \in 1 .. Len(b)
    <3>1. b1[i] \in Nat /\ b1[i] < e
      BY <1>1, <1>5, <1>6, <2>1
    <3>2. QED
      BY <3>1
  <2>2. CASE i = Len(b) + 1
    BY <1>6, <2>2
  <2>3. QED
    BY <1>7, <2>1, <2>2
<1>11. c.pc = "live" => /\ \A i \in 1 .. Len(b1) : b1[i] = 0 \/ b1[i] <= c.skip \/ seen < b1[i]
                        /\ seen <= c.skip \/ seen <= e
  <2>1. SUFFICES ASSUME c.pc = "live"
                 PROVE  /\ \A i \in 1 .. Len(b1) :
                             b1[i] = 0 \/ b1[i] <= c.skip \/ seen < b1[i]
                        /\ seen <= c.skip \/ seen <= e
    OBVIOUS
  <2>2. /\ e <= c.skip \/ seen < e
        /\ seen <= c.skip \/ seen <= e
    BY <1>1, <1>3, <1>4, <2>1
  <2>3. QED
    BY <1>4, <1>6, <1>7, <2>1, <2>2
<1>12. OrderOK(t)'
  BY <1>2, <1>4, <1>9, <1>10, <1>11 DEF OrderOK
<1>13. /\ Upto(seen) \subseteq Known(t)
       /\ c.pc = "replay" /\ seen < c.page => seen + 1 .. c.cut \subseteq Known(t)
       /\ Fresh(t) => \A i \in 1 .. Len(b) : Upto(b[i]) \subseteq Known(t) \cup Range(b)
       /\ Fresh(t) => Upto(reader[n].last) \subseteq Known(t) \cup Range(b)
  BY DEF LossOK, Pos
<1>14. Fresh(t)' <=> Fresh(t)
  BY <1>2 DEF Fresh
<1>15. Fresh(t) => Upto(e) \subseteq Known(t) \cup Range(b1)
  <2>1. Upto(e) \subseteq Upto(reader[n].last) \cup {e}
    BY <1>1
  <2>2. QED
    BY <1>6, <1>13, <2>1
<1>16. Fresh(t) => \A i \in 1 .. Len(b1) : Upto(b1[i]) \subseteq Known(t) \cup Range(b1)
  BY <1>6, <1>7, <1>13, <1>15
<1>17. (Pos(reader[conn[t].node]))' = e
  BY <1>2 DEF Pos
<1>18. LossOK(t)'
  BY <1>2, <1>13, <1>14, <1>15, <1>16, <1>17 DEF LossOK
<1>19. QED
  BY <1>12, <1>18

LEMMA DispatchTabs ==
  ASSUME SseIInv, SseTypeOK', NEW n \in Nodes, NEW t \in Tabs, Dispatch(n)
  PROVE  OrderOK(t)' /\ LossOK(t)' /\ tab'[t].seen = tab[t].seen
<1>1. /\ SseTypeOK /\ RegistryAgrees /\ SeatsOK /\ \A m \in Nodes : ReaderOK(reader[m])
      /\ OrderOK(t) /\ LossOK(t) /\ newest \in Nat /\ hub[n].clients \subseteq Tabs
  BY NewestTyped, ClientsAreTabs DEF SseIInv
<1>2. PICK e \in Nat :
        /\ e = reader[n].last + 1 /\ OnlyReader(n) /\ newest' = newest
        /\ SendAll(hub[n].clients, e)
        /\ reader[n].pc = "dispatch" /\ reader'[n].last = e
        /\ \/ reader'[n].pc = "poll" /\ reader'[n].from = e
           \/ reader'[n].pc = "dispatch"
  BY <1>1, DispatchFields
<1>3. /\ Same(conn[t], conn'[t]) /\ (conn[t].done => conn'[t].done)
      /\ conn'[t].buf = IF t \in hub[n].clients /\ ~conn[t].done /\ Len(conn[t].buf) < Buffer
                        THEN Append(conn[t].buf, e) ELSE conn[t].buf
      /\ tab'[t].seen = tab[t].seen /\ tab'[t].base = tab[t].base
      /\ Known(t)' = IF /\ e > 0 /\ t \in hub[n].clients /\ ~conn[t].done
                        /\ Len(conn[t].buf) = Buffer
                     THEN Known(t) \cup {e} ELSE Known(t)
  BY <1>1, <1>2, SendAllFields
<1>4. /\ reader[n].last \in Nat /\ Pos(reader[n]) = reader[n].last /\ Pos(reader'[n]) = e
      /\ e > 0 /\ Len(conn[t].buf) \in Nat /\ Buffer \in Nat
  BY <1>1, <1>2, ReaderTypes, TabTypes, ConstantsAssumption DEF Pos
<1>5. CASE t \in hub[n].clients /\ ~conn[t].done /\ Len(conn[t].buf) < Buffer
  <2>1. conn[t].node = n /\ Read(t)
    BY <1>1, <1>2, <1>5, WhoReads DEF Read
  <2>2. conn'[t].buf = Append(conn[t].buf, e) /\ Known(t)' = Known(t)
    BY <1>3, <1>4, <1>5
  <2>3. QED
    BY <1>1, <1>2, <1>3, <1>4, <1>5, <2>1, <2>2, DispatchedTab
<1>6. CASE ~(t \in hub[n].clients /\ ~conn[t].done /\ Len(conn[t].buf) < Buffer)
  <2>1. Alike(t)
    BY <1>1, <1>2, <1>3, <1>6 DEF Alike
  <2>2. CASE conn[t].node # n
    <3>1. Read(t)' => reader'[conn[t].node] = reader[conn[t].node]
      BY <1>1, <1>2, <1>3, <2>2, ReadWhere DEF Read, OnlyReader, Same
    <3>2. QED
      BY <1>1, <1>3, <2>1, <3>1, QuietFollows, TabKept
  <2>3. CASE conn[t].node = n
    <3>1. Read(t)' => Read(t) /\ t \in hub[n].clients
      BY <1>1, <1>2, <1>3, <2>3, WhoReads DEF Read, Same
    <3>2. t \in hub[n].clients /\ ~conn'[t].done => e \in Known(t)'
      <4>1. BufferOK(conn[t].buf)
        BY <1>1 DEF OrderOK
      <4>2. ~(Len(conn[t].buf) < Buffer) => Len(conn[t].buf) = Buffer
        BY <1>4, <4>1 DEF BufferOK
      <4>3. QED
        BY <1>3, <1>4, <1>6, <4>2
    <3>3. Pos(reader[n]) + 1 .. Pos(reader'[n]) = {e}
      BY <1>2, <1>4
    <3>4. reader[n].last <= reader'[n].last
      BY <1>2, <1>4
    <3>5. Follows(t)
      BY <2>3, <3>1, <3>2, <3>3, <3>4 DEF Follows
    <3>6. QED
      BY <1>1, <1>3, <2>1, <3>5, TabKept
  <2>4. QED
    BY <2>2, <2>3
<1>7. QED
  BY <1>5, <1>6

\* Frames that are no event, evictions and the closing of a hub.
LEMMA NoticeTabs ==
  ASSUME SseIInv, SseTypeOK', NEW n \in Nodes, NEW t \in Tabs,
         Broadcast(n) \/ Evict(n) \/ Close(n) \/ \E u \in Tabs : EvictOne(n, u)
  PROVE  OrderOK(t)' /\ LossOK(t)' /\ tab'[t].seen = tab[t].seen
<1>1. /\ SseTypeOK /\ RegistryAgrees /\ SeatsOK
      /\ OrderOK(t) /\ LossOK(t) /\ newest \in Nat /\ hub[n].clients \subseteq Tabs
      /\ NoReader.pc = "none"
  BY NewestTyped, ClientsAreTabs DEF SseIInv, NoReader
<1>2. /\ newest' = newest /\ Same(conn[t], conn'[t]) /\ (conn[t].done => conn'[t].done)
      /\ \/ conn'[t].buf = conn[t].buf
         \/ Len(conn[t].buf) < Buffer /\ conn'[t].buf = Append(conn[t].buf, 0)
      /\ tab'[t].seen = tab[t].seen /\ tab'[t].base = tab[t].base
      /\ Known(t)' = Known(t)
  <2>1. CASE Broadcast(n)
    <3>1. newest' = newest /\ SendAll(hub[n].clients, 0)
      BY <2>1 DEF Broadcast
    <3>2. /\ Same(conn[t], conn'[t]) /\ (conn[t].done => conn'[t].done)
          /\ conn'[t].buf = IF /\ t \in hub[n].clients /\ ~conn[t].done
                               /\ Len(conn[t].buf) < Buffer
                            THEN Append(conn[t].buf, 0) ELSE conn[t].buf
          /\ tab'[t].seen = tab[t].seen /\ tab'[t].base = tab[t].base
          /\ Known(t)' = IF /\ 0 > 0 /\ t \in hub[n].clients /\ ~conn[t].done
                            /\ Len(conn[t].buf) = Buffer
                         THEN Known(t) \cup {0} ELSE Known(t)
      BY <1>1, <3>1, SendAllFields
    <3>3. QED
      BY <3>1, <3>2
  <2>2. CASE Evict(n)
    BY <2>2 DEF Evict, Same, Known
  <2>3. CASE Close(n)
    BY <1>1, <2>3, CloseFields DEF Known
  <2>4. ASSUME NEW u \in Tabs, EvictOne(n, u)
        PROVE  /\ newest' = newest /\ Same(conn[t], conn'[t])
               /\ (conn[t].done => conn'[t].done)
               /\ \/ conn'[t].buf = conn[t].buf
                  \/ Len(conn[t].buf) < Buffer /\ conn'[t].buf = Append(conn[t].buf, 0)
               /\ tab' = tab
    <3>1. /\ OnlyConn(u) /\ Same(conn[u], conn'[u]) /\ conn'[u].done
          /\ conn'[u].buf = conn[u].buf \/ ( /\ Len(conn[u].buf) < Buffer
                                             /\ conn'[u].buf = Append(conn[u].buf, 0) )
          /\ UNCHANGED <<newest, tab>>
      BY <1>1, <2>4, EvictOneFields
    <3>2. QED
      BY <3>1 DEF OnlyConn, Same
  <2>5. QED
    BY <2>1, <2>2, <2>3, <2>4 DEF Known
<1>3. Read(t)' => reader'[conn[t].node] = reader[conn[t].node]
  <2>1. CASE Broadcast(n)
    BY <2>1 DEF Broadcast
  <2>2. CASE Evict(n) \/ Close(n) \/ \E u \in Tabs : EvictOne(n, u)
    <3>1. OnlyReader(n) /\ (reader'[n] = reader[n] \/ reader'[n] = NoReader)
      BY <1>1, <2>2, EvictNodes
    <3>2. QED
      BY <1>1, <1>2, <3>1, ReadWhere DEF Read, OnlyReader, Same
  <2>3. QED
    BY <2>1, <2>2
<1>4. Alike(t)
  BY <1>1, <1>2 DEF Alike
<1>5. QED
  BY <1>1, <1>2, <1>3, <1>4, QuietFollows, TabKept

LEMMA CrashTabs ==
  ASSUME SseIInv, SseTypeOK', NEW n \in Nodes, NEW t \in Tabs, Crash(n)
  PROVE  OrderOK(t)' /\ LossOK(t)' /\ tab'[t].seen = tab[t].seen
<1>1. /\ SseTypeOK /\ SeatsOK /\ OrderOK(t) /\ LossOK(t) /\ newest \in Nat
  BY NewestTyped DEF SseIInv
<1>2. /\ conn'[t] = IF conn[t].node = n THEN NoConn ELSE conn[t]
      /\ UNCHANGED <<newest, tab>> /\ OnlyReader(n)
  BY <1>1, CrashFields, CrashNodes
<1>3. CASE conn[t].node = n
  <2>1. Ended(t)
    BY <1>2, <1>3, NoConnFields DEF Ended, Attached
  <2>2. QED
    BY <1>1, <1>2, <2>1, EndedTab
<1>4. CASE conn[t].node # n
  <2>1. Read(t)' => reader'[conn[t].node] = reader[conn[t].node]
    BY <1>1, <1>2, <1>4, ReadWhere DEF Read, OnlyReader
  <2>2. Same(conn[t], conn'[t]) /\ Known(t)' = Known(t)
    BY <1>2, <1>4 DEF Same, Known
  <2>3. Alike(t)
    BY <1>1, <1>2, <1>4, <2>2 DEF Alike
  <2>4. QED
    BY <1>1, <1>2, <2>1, <2>2, <2>3, QuietFollows, TabKept
<1>5. QED
  BY <1>3, <1>4

LEMMA ConnectTabs ==
  ASSUME SseIInv, SseTypeOK', NEW n \in Nodes, NEW t \in Tabs, NEW u \in Tabs, Connect(t, n)
  PROVE  OrderOK(u)' /\ LossOK(u)' /\ tab'[u].seen = tab[u].seen
<1>1. /\ SseTypeOK /\ RegistryAgrees /\ SeatsOK /\ \A m \in Nodes : ReaderOK(reader[m])
      /\ OrderOK(u) /\ LossOK(u) /\ NodeAgrees(n)
  BY SeatParts DEF SseIInv
<1>2. /\ OnlyConn(t) /\ OnlyTab(t) /\ newest' = newest /\ tab'[t].seen = tab[t].seen
      /\ OnlyReader(n) /\ hub[n].open
      /\ reader'[n] = reader[n] \/ reader[n].pc = "none"
  BY <1>1, ConnectFields, ConnectNodes
<1>3. CASE u = t
  BY <1>1, <1>2, <1>3, ConnectTab
<1>4. CASE u # t
  <2>1. conn'[u] = conn[u] /\ tab'[u] = tab[u]
    BY <1>2, <1>4 DEF OnlyConn, OnlyTab
  <2>2. Read(u)' => conn[u].pc \in Attached /\ conn[u].node \in Nodes
    BY <1>1, <2>1, ReadWhere DEF Read
  <2>3. conn[u].pc \in Attached /\ conn[u].node = n => reader'[n] = reader[n]
    BY <1>1, <1>2, WhoReads DEF NodeAgrees
  <2>4. Read(u)' => reader'[conn[u].node] = reader[conn[u].node]
    BY <1>2, <2>2, <2>3 DEF OnlyReader
  <2>5. QED
    BY <1>1, <1>2, <1>4, <2>1, <2>4, OthersKept
<1>5. QED
  BY <1>3, <1>4

LEMMA QuietTabs ==
  ASSUME SseIInv, SseTypeOK', NEW t \in Tabs, Add \/ StreamExpires \/ CountExpires
  PROVE  OrderOK(t)' /\ LossOK(t)' /\ tab'[t].seen = tab[t].seen
<1>1. /\ SseTypeOK /\ SeatsOK /\ OrderOK(t) /\ LossOK(t) /\ newest \in Nat
  BY NewestTyped DEF SseIInv
<1>2. UNCHANGED <<conn, tab, reader>> /\ newest <= newest'
  BY <1>1 DEF Add, StreamExpires, CountExpires
<1>3. Same(conn[t], conn'[t]) /\ Known(t)' = Known(t)
  BY <1>2 DEF Same, Known
<1>4. Alike(t) /\ Follows(t)
  BY <1>1, <1>2, <1>3, QuietFollows DEF Alike
<1>5. QED
  BY <1>1, <1>2, <1>4, TabKept

LEMMA TabsStep ==
  ASSUME SseIInv, SseTypeOK', Step, NEW t \in Tabs
  PROVE  /\ OrderOK(t)' /\ LossOK(t)'
         /\ tab'[t].seen # tab[t].seen => tab'[t].seen > tab[t].seen
<1>1. CASE Add \/ StreamExpires \/ CountExpires
  BY <1>1, QuietTabs
<1>2. ASSUME NEW u \in Tabs, Handler(u) \/ Drop(u)
      PROVE  /\ OrderOK(t)' /\ LossOK(t)'
             /\ tab'[t].seen # tab[t].seen => tab'[t].seen > tab[t].seen
  BY <1>2, HandlerTabs
<1>3. ASSUME NEW n \in Nodes,
             Reader(n) \/ Broadcast(n) \/ Evict(n) \/ Close(n) \/ Crash(n)
               \/ \E u \in Tabs : Connect(u, n) \/ EvictOne(n, u)
      PROVE  OrderOK(t)' /\ LossOK(t)' /\ tab'[t].seen = tab[t].seen
  BY <1>3, PollTabs, DispatchTabs, NoticeTabs, CrashTabs, ConnectTabs DEF Reader
<1>4. QED
  BY <1>1, <1>2, <1>3 DEF Step

-----------------------------------------------------------------------------
(* The theorems *)

LEMMA SseInitInv == SseInit => SseIInv
<1> SUFFICES ASSUME SseInit
             PROVE  SseIInv
  OBVIOUS
<1>1. SseTypeOK
  <2>1. ConnsTyped /\ ReadersTyped /\ HubsTyped
    BY InitialTypes DEF SseInit, ConnsTyped, ReadersTyped, HubsTyped
  <2>2. TabsTyped
    BY DEF SseInit, TabsTyped, TabRec
  <2>3. NumbersTyped
    BY ConstantsAssumption DEF SseInit, NumbersTyped
  <2>4. QED
    BY <2>1, <2>2, <2>3, SseTypeParts
<1>2. /\ \A t \in Tabs : /\ conn[t].pc = "off" /\ ~conn[t].reserved /\ conn[t].buf = <<>>
                         /\ tab[t].seen = 0 /\ tab[t].base = 0
      /\ \A n \in Nodes : /\ hub[n].clients = {} /\ hub[n].ip = 0
                          /\ reader[n] = NoReader /\ reader[n].pc = "none"
      /\ newest = 0 /\ count = 0 /\ env \in Cases
  BY NoConnFields DEF SseInit, NewHub, NoReader
<1>3. Reserved = {} /\ Streaming = {} /\ Cardinality({}) = 0 /\ Sizes[env].limit \in Nat
  BY <1>2, FS_EmptySet, ConstantsAssumption DEF Reserved, Streaming
<1>4. CountAgrees
  BY <1>2, <1>3, SeatParts
<1>5. SeatsOK
  BY <1>2, <1>3, SeatParts DEF Seat
<1>6. RegistryAgrees
  BY <1>1, <1>2, <1>3, SeatParts DEF NodeAgrees, Here, Attached
<1>7. \A n \in Nodes : ReaderOK(reader[n])
  BY <1>2, NoReaderOK
<1>8. ASSUME NEW t \in Tabs
      PROVE  OrderOK(t) /\ LossOK(t)
  <2>1. ~Read(t) /\ ~Fresh(t) /\ BufferOK(conn[t].buf)
    <3>1. Len(conn[t].buf) = 0 /\ 0 <= Buffer
      BY <1>2, ConstantsAssumption
    <3>2. QED
      BY <1>2, <3>1 DEF Read, Fresh, Attached, BufferOK
  <2>2. OrderOK(t)
    BY <1>2, <2>1 DEF OrderOK
  <2>3. LossOK(t)
    BY <1>2, <2>1 DEF LossOK
  <2>4. QED
    BY <2>2, <2>3
<1>9. QED
  BY <1>1, <1>4, <1>5, <1>6, <1>7, <1>8 DEF SseIInv

LEMMA SseNextInv ==
  ASSUME SseIInv, [SseNext]_<<sseVars, env>>
  PROVE  /\ SseIInv'
         /\ \A t \in Tabs : tab'[t].seen # tab[t].seen => tab'[t].seen > tab[t].seen
<1>1. CASE SseNext
  <2>1. Step /\ UNCHANGED env
    BY <1>1 DEF SseNext
  <2>2. SseTypeOK'
    BY <2>1, SseTypeStep
  <2>3. RegistryAgrees' /\ SeatsOK' /\ CountAgrees'
    <3>1. CASE Add \/ StreamExpires \/ CountExpires
      <4>1. UNCHANGED <<conn, hub, reader, leak>> /\ (slack => slack')
        BY <3>1 DEF Add, StreamExpires, CountExpires
      <4>2. Reserved' = Reserved /\ Streaming' = Streaming
        BY <4>1 DEF Reserved, Streaming
      <4>3. \A t \in Tabs : Seat(t)' <=> Seat(t)
        BY <4>1 DEF Seat
      <4>4. \A n \in Nodes : NodeAgrees(n)' <=> NodeAgrees(n)
        BY <4>1 DEF NodeAgrees, Here
      <4>5. slack' \/ UNCHANGED <<count, slack>>
        BY <3>1 DEF Add, StreamExpires, CountExpires
      <4>6. RegistryAgrees'
        BY <2>2, <4>4, SeatParts, SeatPartsPrimed DEF SseIInv
      <4>7. SeatsOK'
        BY <4>1, <4>2, <4>3, SeatParts, SeatPartsPrimed DEF SseIInv
      <4>8. CountAgrees'
        BY <2>1, <4>1, <4>2, <4>5, SeatParts, SeatPartsPrimed DEF SseIInv
      <4>9. QED
        BY <4>6, <4>7, <4>8
    <3>2. ASSUME NEW t \in Tabs, Handler(t) \/ Drop(t)
          PROVE  RegistryAgrees' /\ SeatsOK' /\ CountAgrees'
      BY <2>1, <2>2, <3>2, HandlerSeats, HandlerRegistry
    <3>3. QED
      BY <2>1, <2>2, <3>1, <3>2, NodeSeats DEF Step
  <2>4. (\A n \in Nodes : ReaderOK(reader[n]))'
    BY <2>1, <2>2, ReadersStep
  <2>5. QED
    BY <2>1, <2>2, <2>3, <2>4, TabsStep DEF SseIInv
<1>2. CASE UNCHANGED <<sseVars, env>>
  <2>1. UNCHANGED <<env, newest, gone, count, hub, reader, conn, tab, slack, leak>>
    BY <1>2 DEF sseVars
  <2>2. SseTypeOK' /\ RegistryAgrees' /\ SeatsOK' /\ CountAgrees'
    BY <2>1 DEF SseIInv, SseTypeOK, RegistryAgrees, CountAgrees, SeatsOK, Streaming, Reserved
  <2>3. (\A n \in Nodes : ReaderOK(reader[n]))'
    BY <2>1 DEF SseIInv, ReaderOK
  <2>4. \A t \in Tabs : OrderOK(t)'
    BY <2>1 DEF SseIInv, OrderOK, Read, BufferOK
  <2>5. \A t \in Tabs : LossOK(t)'
    BY <2>1 DEF SseIInv, LossOK, Read, Known, Pos, Fresh
  <2>6. QED
    BY <2>1, <2>2, <2>3, <2>4, <2>5 DEF SseIInv
<1>3. QED
  BY <1>1, <1>2

\* Registries, readers, buffers and the counter agree in every state, and what a tab has
\* missed is known: the inductive invariant of the streams.
THEOREM SseInvariant == SseSpec => []SseIInv
<1>1. SseIInv /\ [SseNext]_<<sseVars, env>> => SseIInv'
  BY SseNextInv
<1>2. QED
  BY <1>1, SseInitInv, PTL DEF SseSpec

\* Who is served, where, and what the limits count, agree between a node's registry, its
\* readers and the counter all nodes share (hub.go, Register and remove).
THEOREM SeatsAlwaysAgree == SseSpec => []SeatsAgree
<1>1. SseIInv => SeatsAgree
  BY DEF SseIInv, SeatsAgree
<1>2. QED
  BY <1>1, SseInvariant, PTL

\* Up to the last event a tab has received it has all events but those a known gap loses
\* (sse.go, replayMissedEvents and skipReplayed; client.go, Send), or the stream's own
\* trimming and expiry (notifications.go, PublishNotification).
THEOREM NothingSilentlyLost == SseSpec => []NoSilentLoss
<1>1. SseIInv => NoSilentLoss
  BY DEF SseIInv, LossOK, NoSilentLoss, Known
<1>2. QED
  BY <1>1, SseInvariant, PTL

\* The events of a tab come in the order of the stream, and none comes twice, over all
\* its connections and the replays between them.
THEOREM EventsInOrder == SseSpec => InOrder
<1>1. SseIInv /\ [SseNext]_<<sseVars, env>> =>
        [\A t \in Tabs : tab'[t].seen # tab[t].seen => tab'[t].seen > tab[t].seen]_sseVars
  BY SseNextInv
<1>2. QED
  BY <1>1, SseInvariant, PTL DEF SseSpec, InOrder

===============================================================================
