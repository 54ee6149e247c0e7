---------------------------- MODULE MCPDSession ----------------------------
(* PDSession in the circumstances its runs ask about.                      *)
EXTENDS PDSession

Env(paths, turns, mayRaise) ==
  [paths |-> paths, turns |-> turns,
   clientMayRaise |-> mayRaise, handlerMayRaise |-> mayRaise]

\* Two turns on either path with exceptions anywhere, and three turns on the
\* ABKT path without.
MCEnvironments == {Env({"abkt", "fp16"}, 2, TRUE), Env({"abkt"}, 3, FALSE)}

\* Two FP16 turns without exceptions.
MCFp16Only == {Env({"fp16"}, 2, FALSE)}
=============================================================================
