------------------------------ MODULE MCTrezor ------------------------------
(* An instance of Trezor for TLC: one request id, and a callback URL with  *)
(* and without a query of its own.                                         *)
EXTENDS Trezor

PlainAndQuery == {<<>>, <<<<"foo", "bar">>>>}
=============================================================================
