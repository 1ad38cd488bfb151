--------------------------- MODULE MCGossipsubMesh ---------------------------
(***************************************************************************)
(* GossipsubMesh on small instances; the constants are in the cfg files.   *)
(***************************************************************************)
EXTENDS GossipsubMesh
=============================================================================
