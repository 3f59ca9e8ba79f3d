------------------------------- MODULE MC_Lots -------------------------------
(* Small instances of LotReservations.  The first lot is formed with MaxKg   *)
(* kilograms, every other with one, so that a lot can be shared by several  *)
(* holders and a manifest can have two lines.                               *)
EXTENDS LotReservations, TLC

CONSTANTS c1, c2, m1, m2, l1, l2

OneOwner == [m \in Missions |-> c1]
\* With two companies the pulse reconciles with the missions of one (README,
\* section 5).
TwoOwners == [m \in Missions |-> IF m = m1 THEN c1 ELSE c2]
Sizes == [l \in Lots |-> IF l = l1 THEN MaxKg ELSE 1]
=============================================================================
