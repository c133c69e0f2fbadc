------------------------------- MODULE MCImpCs -------------------------------
(* ImpCs on small sets of threads. *)
EXTENDS ImpCs, TLC

CONSTANTS t1, t2, t3
=============================================================================
