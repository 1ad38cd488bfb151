------------------------- MODULE MCGossipsubMeshPair -------------------------
(***************************************************************************)
(* GossipsubMeshPair on small instances; the constants are in the cfg file. *)
(***************************************************************************)
EXTENDS GossipsubMeshPair
=============================================================================
