----------------------------- MODULE MCYjsRoom -----------------------------
(***************************************************************************)
(* Two browsers, of which `a' is an interviewer, one or two deltas, one    *)
(* more that is oversized, and buffers small enough to fill up.  The       *)
(* deltas that can be sent are interchangeable; users are not, because of  *)
(* the role.  Replicas are interchangeable while they all serve the room:  *)
(* the first socket opened leads to Home, which only names the replica it  *)
(* leads to.                                                               *)
(***************************************************************************)
EXTENDS YjsRoom, TLC

Symmetry == Permutations(Deltas \ Oversized)

HomeFirst ==
  (\A u \in Users : conn[u] = 0) => \A u \in Users : link'[u] \in {None, Home}

MCSpec == Init /\ [][Next /\ HomeFirst]_vars
=============================================================================
