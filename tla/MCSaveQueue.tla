---------------------------- MODULE MCSaveQueue ----------------------------
(***************************************************************************)
(* Two task keys, four deltas, a queue of three and batches of two: the    *)
(* queue fills, a batch is smaller than what is pending and can fail in    *)
(* the middle, both keys are flushed in one pass and deltas arrive during  *)
(* a flush.  MaxStreamLen leaves room for entries repeated after a lost    *)
(* reply.                                                                  *)
(*                                                                         *)
(* Deltas are interchangeable.  TLC's symmetry reduction is unsound for    *)
(* liveness, so it is made here: the deltas are 1, 2, ... and are enqueued *)
(* in that order, which only names them.                                   *)
(***************************************************************************)
EXTENDS SaveQueue

Enqueued == UNION {Range(accepted[k]) : k \in TaskKeys}

InOrder == Enqueued' \subseteq 1..(Cardinality(Enqueued) + 1)

MCSpec     == Init /\ [][Next /\ InOrder]_vars
MCFairSpec == MCSpec /\ Fairness
=============================================================================
