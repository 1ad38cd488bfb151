---------------------------- MODULE MCQuicStreamTx ----------------------------
(***************************************************************************)
(* An instance of QuicStreamTx for TLC.                                    *)
(***************************************************************************)
EXTENDS QuicStreamTx

=============================================================================
