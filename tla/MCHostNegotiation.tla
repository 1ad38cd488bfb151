-------------------------- MODULE MCHostNegotiation --------------------------
(* Two protocols; the other constants are in the cfgs. *)
EXTENDS HostNegotiation

MCProtocols == {"p", "q"}

=============================================================================
