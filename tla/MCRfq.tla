------------------------------- MODULE MCRfq -------------------------------
(* An instance of Rfq for TLC: two vendors, two prices, two calls at once.  *)
EXTENDS Rfq, TLC

CONSTANTS s1, s2, o1, o2, c1, c2
=============================================================================
