---------------------------- MODULE MCGossipsubTx ----------------------------
(***************************************************************************)
(* GossipsubTx on small instances; the constants are in the cfg files.     *)
(***************************************************************************)
EXTENDS GossipsubTx
=============================================================================
