------------------------------ MODULE MC_Bridge ------------------------------
(* Small instances of SimBridge.                                            *)
EXTENDS SimBridge, TLC

CONSTANTS probe, preflight, b1, b2

\* Any free client object may be the next one.
Symmetry == Permutations({b1, b2})
=============================================================================
