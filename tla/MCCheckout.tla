----------------------------- MODULE MCCheckout -----------------------------
(* An instance of Checkout for TLC: two products of two shops, two tariffs. *)
EXTENDS Checkout, TLC

CONSTANTS p1, p2, s1, s2, k1, k2, c1, c2

MCShopOf == p1 :> s1 @@ p2 :> s2

\* A zone for the capital and one of another region: elsewhere, both serve.
MCZones == <<{"Moscow"}, {"Kazan"}>>

MCTariffs == {[zone |-> 1, min |-> 0, max |-> 10, price |-> 1, perKg |-> 1],
              [zone |-> 2, min |-> 0, max |-> 90, price |-> 2, perKg |-> 0]}
=============================================================================
