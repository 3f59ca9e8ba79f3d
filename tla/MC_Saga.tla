-------------------------------- MODULE MC_Saga --------------------------------
(* Small instances of SettleSaga: an airline, and the home of one of its      *)
(* members.                                                                   *)
EXTENDS SettleSaga, TLC

CONSTANTS va, own, m1, m2, m3

\* A flight for the airline, and one at home with a second contract aboard.
OpsOf == (m1 :> va) @@ (m2 :> own) @@ (m3 :> own)
AtHome == (m1 :> {}) @@ (m2 :> {m3}) @@ (m3 :> {})

\* Two contracts for the airline on one aircraft.
OpsOfTrip == (m1 :> va) @@ (m2 :> va) @@ (m3 :> own)
Together == (m1 :> {m2}) @@ (m2 :> {}) @@ (m3 :> {})

\* The member flies them all.
HomeOf == [m \in {m1, m2, m3} |-> own]
=============================================================================
