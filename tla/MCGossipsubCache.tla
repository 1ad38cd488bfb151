-------------------------- MODULE MCGossipsubCache --------------------------
(***************************************************************************)
(* Instances of GossipsubCache for TLC: message sizes by name.             *)
(***************************************************************************)
EXTENDS GossipsubCache

CONSTANTS a, b, c, d

\* Message b fills the arena, c and d exceed it.
MCSize(m) == IF m = a THEN 1 ELSE IF m = b THEN 2 ELSE 3
=============================================================================
