----------------------------- MODULE MCRefunds ------------------------------
(* An instance of Refunds for TLC: two refunds of an order of 2.            *)
EXTENDS Refunds, TLC

CONSTANTS r1, r2, s1, s2, c1, c2
=============================================================================
