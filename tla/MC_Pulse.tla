------------------------------ MODULE MC_Pulse ------------------------------
(* TLC instances of WorldPulse.                                            *)
EXTENDS WorldPulse, TLC

\* Nothing tells two companies apart.
CompanySymmetry == Permutations(Companies)
=============================================================================
