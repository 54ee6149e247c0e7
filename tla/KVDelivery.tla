----------------------------- MODULE KVDelivery -----------------------------
(***************************************************************************)
(* What one ABKT stream promises to its two ends, without chunks, buffers  *)
(* or precisions: the KV cache of a request reaches the decode loop all at *)
(* once or not at all, a successful answer is only given for a cache that  *)
(* was delivered, and the decode node always gets rid of the request, by   *)
(* answering it or by abandoning it when the peer is gone.                 *)
(***************************************************************************)
CONSTANT Layers      \* the layers the prefill node decided to send

VARIABLES delivered, \* layers the decode loop may read
          answer     \* what became of the request

vars == <<delivered, answer>>

TypeOK == /\ delivered \in {{}, Layers}
          /\ answer \in {"none", "ok", "error", "abandoned"}

Init == delivered = {} /\ answer = "none"

Deliver == /\ answer = "none"
           /\ delivered = {}
           /\ delivered' = Layers
           /\ UNCHANGED answer

AnswerOk == /\ answer = "none"
            /\ delivered = Layers
            /\ answer' = "ok"
            /\ UNCHANGED delivered

GiveUp == /\ answer = "none"
          /\ answer' \in {"error", "abandoned"}
          /\ UNCHANGED delivered

Next == Deliver \/ AnswerOk \/ GiveUp

Spec == Init /\ [][Next]_vars /\ WF_vars(AnswerOk \/ GiveUp)
=============================================================================
