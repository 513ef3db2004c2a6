---------------------------- MODULE MCAuthSessions ----------------------------
(***************************************************************************)
(* One user, two sessions, two generations to lose.                        *)
(***************************************************************************)
EXTENDS AuthSessions
=============================================================================
