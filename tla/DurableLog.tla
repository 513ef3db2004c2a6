----------------------------- MODULE DurableLog -----------------------------
(***************************************************************************)
(* What the persistence of document deltas promises, abstractly: one queue *)
(* and one log per key.  Items enter the log in the order they were        *)
(* accepted, none is skipped, and an item may be logged more than once     *)
(* before it leaves the queue (at least once).  A Yjs document does not    *)
(* tell a repeated delta from a single one, so this is enough for it.      *)
(***************************************************************************)
EXTENDS Naturals, Sequences

CONSTANTS Keys, Items

VARIABLES queue, log

vars == <<queue, log>>

Init ==
  /\ queue = [k \in Keys |-> <<>>]
  /\ log = [k \in Keys |-> <<>>]

Accept(k, i) ==
  /\ queue' = [queue EXCEPT ![k] = Append(@, i)]
  /\ UNCHANGED log

\* The oldest item of the queue is logged; it stays queued when the writer
\* does not learn that the write succeeded.
Persist(k) ==
  /\ queue[k] # <<>>
  /\ log' = [log EXCEPT ![k] = Append(@, Head(queue[k]))]
  /\ queue' \in {queue, [queue EXCEPT ![k] = Tail(@)]}

Next ==
  \E k \in Keys :
    \/ \E i \in Items : Accept(k, i)
    \/ Persist(k)

Spec == Init /\ [][Next]_vars
=============================================================================
