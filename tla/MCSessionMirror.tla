---------------------------- MODULE MCSessionMirror ----------------------------
(***************************************************************************)
(* SessionMirror with an owner and two guests, two calls at a time: three  *)
(* in all, and four where a guest who met, and was removed while a token   *)
(* was rotated, has to come back.                                          *)
(***************************************************************************)
EXTENDS SessionMirror

CONSTANTS o, g, h, c1, c2

MCCases ==
  {{"join", "remove", "rotate", g, h}, {"join", "close", "meet", g},
   {"join", "remove", "rotate", "meet", g},
   {"join", "close", "flush", "fail", g}, {"add", "remove", "fail", "connect", g},
   {"add", "close", "lost", "connect", g}}

MCMaxCalls == [events \in MCCases |-> IF {"rotate", "meet"} \subseteq events THEN 4 ELSE 3]
=============================================================================
