------------------------------- MODULE MC_Trip -------------------------------
(* Small instances of CargoTrip.                                            *)
EXTENDS CargoTrip, TLC

CONSTANTS t1, t2, a1, a2, a3

\* Neither tails nor airports have an order.
Symmetry == Permutations(Tails) \cup Permutations(Airports)

\* Once a mission is closed no action reads more of its row than its status.
OpenRows ==
    <<[m \in Missions |-> IF IsOpen(m) THEN <<mission[m], fuelled[m]>>
                          ELSE <<mission[m].status>>],
      tail, paid, returned, lost>>
=============================================================================
