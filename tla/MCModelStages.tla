--------------------------- MODULE MCModelStages ----------------------------
(* ModelStages with three layers and prompts of one and three tokens.      *)
EXTENDS ModelStages

Usual == [stages |-> 1, lengths |-> <<1, 3>>, head |-> FALSE, checkpoint |-> {},
          returnsKV |-> TRUE, lost |-> {}, rope |-> FALSE]
MCPrefillEnvironments ==
  {[Usual EXCEPT !.stages = s, !.checkpoint = c, !.head = h] :
     s \in 1 .. NumLayers, h \in BOOLEAN,
     c \in {{}, Parameters, Parameters \ {1}}}
  \cup {[Usual EXCEPT !.lost = {l}] : l \in LayerIds}
  \cup {[Usual EXCEPT !.stages = 2, !.returnsKV = FALSE]}
  \cup {[Usual EXCEPT !.stages = s, !.rope = TRUE] : s \in 1 .. NumLayers}
MCDecodeEnvironments ==
  {[raises |-> TRUE, cancels |-> FALSE, returnsKV |-> TRUE],
   [raises |-> FALSE, cancels |-> TRUE, returnsKV |-> TRUE],
   [raises |-> FALSE, cancels |-> FALSE, returnsKV |-> FALSE]}
=============================================================================
