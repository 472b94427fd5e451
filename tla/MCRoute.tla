------------------------------ MODULE MCRoute ------------------------------
(* Instances of Route for TLC. *)
EXTENDS Route, TLC

CONSTANTS p1, p2, p3, s1, s2, e1

OneProbe == {p1}
TwoProbes == {p1, p2}
ThreeProbes == {p1, p2, p3}
OneSale == {s1}
TwoSales == {s1, s2}
OneExit == {e1}
Nothing == {}
UnitCost == [p \in Probes |-> 1]
\* One probe is dearer than the other.
SteepCost == [p \in Probes |-> IF p = p1 THEN 2 ELSE 1]
=============================================================================
