------------------------------- MODULE MCSseHub -------------------------------
(***************************************************************************)
(* Two tabs of a user, one or two nodes, buffers and pages of one event.   *)
(* Replays that are cut short need more events and only one tab.           *)
(***************************************************************************)
EXTENDS SseHub

CONSTANTS a, b

Size(l, e, T) == [limit |-> l, events |-> e, tabs |-> T]

MCSizes == [c \in Cases |->
              CASE "nodes" \in c -> Size(1, 0, {a, b})
                [] "slow" \in c  -> Size(2, 3, {a, b})
                [] OTHER -> IF "drop" \in c THEN Size(1, 4, {a}) ELSE Size(2, 2, {a, b})]
=============================================================================
