--------------------------- MODULE MCTransferPlan ---------------------------
(* TransferPlan on a model of three layers of two groups, for prompts with *)
(* and without empty groups and every ranking of the groups.               *)
EXTENDS TransferPlan

MCLayers == 0 .. 2
MCCalls == {[layers |-> MCLayers, numLayers |-> 3, seqLen |-> n, imp |-> r, budget |-> 0] :
              n \in {1, 4, 5}, r \in [MCLayers \X Groups -> 0 .. MaxImportance]}

\* Prompts without empty groups.
MCLongCalls == {c \in MCCalls : c.seqLen >= NumGroups}
=============================================================================
