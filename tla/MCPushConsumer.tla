--------------------------- MODULE MCPushConsumer ---------------------------
(***************************************************************************)
(* One or two messages and two calls of handle at a time.                  *)
(***************************************************************************)
EXTENDS PushConsumer, TLC

=============================================================================
