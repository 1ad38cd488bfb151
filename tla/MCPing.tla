------------------------------- MODULE MCPing -------------------------------
(* Instances of Ping for TLC: one payload of two bytes; the peer may send  *)
(* any bytes of it in any order.                                           *)
EXTENDS Ping
OnePayload == {<<1, 2>>}
=============================================================================
