--------------------------- MODULE MCKVTransport ---------------------------
(* KVTransport on a cache of a few layers, whole and cut into chunks.      *)
EXTENDS KVTransport

\* Four groups per layer as in the code: a majority, a tie the first group
\* wins, and a layer already at the bottom of the downgrade table.
MCMaps == {[l \in Layers |-> IF l = 0 THEN <<16, 16, 8, 4>>
                             ELSE IF l = 1 THEN <<4, 8, 8, 4>>
                             ELSE <<2, 2, 2, 2>>],
           [l \in Layers |-> <<8, 8, 8, 16>>]}
=============================================================================
