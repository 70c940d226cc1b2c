-------------------------------- MODULE Ranks -------------------------------
(***************************************************************************)
(* The elements of a finite set in a given order.  An order is the set of  *)
(* its pairs, so that it can be reasoned about.                            *)
(***************************************************************************)
EXTENDS Integers, FiniteSets

\* How many elements of S come before x.
Rank(S, before, x) == Cardinality({y \in S : <<y, x>> \in before})

InOrder(S, before) == [i \in 1..Cardinality(S) |-> CHOOSE x \in S : Rank(S, before, x) = i - 1]
=============================================================================
