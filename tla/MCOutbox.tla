------------------------------ MODULE MCOutbox ------------------------------
(***************************************************************************)
(* Two rows and one or two passes of the relay.                            *)
(***************************************************************************)
EXTENDS Outbox, TLC

=============================================================================
