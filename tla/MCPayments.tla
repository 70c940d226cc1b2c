----------------------------- MODULE MCPayments -----------------------------
(* Instances of Payments for TLC: a payment of an order and two calls.      *)
EXTENDS Payments, TLC

CONSTANTS i1, c1, c2

MCMoves == {<<"PENDING_PAYMENT", "CANCELLED">>, <<"PAID", "PROCESSING">>}
=============================================================================
