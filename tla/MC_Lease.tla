------------------------------- MODULE MC_Lease -------------------------------
(* Small instances of WriterLease.                                            *)
EXTENDS WriterLease
=============================================================================
