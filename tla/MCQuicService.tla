--------------------------- MODULE MCQuicService ---------------------------
(* Instances of QuicService for TLC. *)
EXTENDS QuicService, TLC

(* No operator of QuicService tells two addresses apart. *)
Symmetry == Permutations(Conns)
=============================================================================
