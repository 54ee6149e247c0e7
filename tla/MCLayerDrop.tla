---------------------------- MODULE MCLayerDrop ----------------------------
(***************************************************************************)
(* KVTransport on the layers and the layer count that the shedding of      *)
(* run_prefill_turn produces: a model of four layers of two groups, a      *)
(* budget of two layers at INT4, the later layers less important.          *)
(***************************************************************************)
EXTENDS KVTransport

Drop == INSTANCE LayerDrop

MCEntries == [i \in 1 .. 8 |-> [layer |-> (i - 1) \div 2, group |-> (i - 1) % 2]]
MCShed == Drop!Shed(0 .. 3, MCEntries, [l \in 0 .. 3 |-> 1], 2)
MCLayers == MCShed.layers
MCNumLayers == MCShed.announced
MCMaps == {[l \in Layers |-> <<4, 4>>]}
=============================================================================
