----------------------------- MODULE MCRpcLayer -----------------------------
(* RpcLayer for two callers that time out, and for one that waits.         *)
EXTENDS RpcLayer

CONSTANTS c1, c2
MCCallers == {c1, c2}
MCEnvironments ==
  {[callers |-> {c1, c2}, timeouts |-> TRUE, ops |-> {"known"}],
   [callers |-> {c1}, timeouts |-> TRUE, ops |-> {"known", "unknown", "shutdown"}],
   [callers |-> {c1}, timeouts |-> FALSE, ops |-> {"known", "unknown"}]}
=============================================================================
