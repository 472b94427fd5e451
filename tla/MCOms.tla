------------------------------- MODULE MCOms -------------------------------
(* Instances of Oms for TLC. *)
EXTENDS Oms, TLC

CONSTANTS b1, b2, s1, s2

\* Two lots bought by one order, two sales racing for them.
TwoSales == {b1, s1, s2}
TwoSalesLots == {<<b1, 1>>, <<b1, 2>>, <<s1, 1>>, <<s2, 1>>}

\* One lot bought, one sale: the smallest round trip.
RoundTrip == {b1, s1}
RoundTripLots == {<<b1, 1>>, <<b1, 2>>, <<s1, 1>>}

TwoSalesOwner == [l \in TwoSalesLots |-> l[1]]
RoundTripOwner == [l \in RoundTripLots |-> l[1]]
TwoSalesSide == [i \in TwoSales |-> IF i = b1 THEN "BUY" ELSE "SELL"]
RoundTripSide == [i \in RoundTrip |-> IF i = b1 THEN "BUY" ELSE "SELL"]


\* The two sales are interchangeable: no definition of Oms names an intent.
SalesSymmetry == Permutations({s1, s2})
=============================================================================
