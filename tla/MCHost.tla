------------------------------- MODULE MCHost -------------------------------
(* The instances of Host that TLC checks: the tables' sizes are in the cfgs. *)
EXTENDS Host

=============================================================================
