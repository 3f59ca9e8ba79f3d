------------------------------- MODULE MC_Desk -------------------------------
(* Small instances of DemandDesk.                                           *)
EXTENDS DemandDesk

CONSTANTS c1, c2, o1, o2, f1, g1, g2, city

\* One city, which wants two kilograms of one product and one of the other.
\* The first company may carry both and has room for both.
OneCity == [o \in Orders |-> city]
Wanteds == [g \in Goods |-> IF g = g1 THEN 2 ELSE 1]
Licences == [c \in Companies |-> IF c = c1 THEN Goods ELSE {g1}]
Cargoes == [c \in Companies |-> IF c = c1 THEN 2 ELSE 1]

Symmetry == Permutations(Orders)
=============================================================================
