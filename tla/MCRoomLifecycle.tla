-------------------------- MODULE MCRoomLifecycle --------------------------
(***************************************************************************)
(* One or two users with two connections each, two rooms in succession,    *)
(* and a broadcast channel of one message, or one that never fills up.     *)
(***************************************************************************)
EXTENDS RoomLifecycle, TLC

Symmetry == Permutations(Users)
=============================================================================
